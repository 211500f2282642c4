------------------------------ MODULE EventLog ------------------------------
(***************************************************************************)
(* The durable event stream of one interview session and the browsers that *)
(* follow it: realtime/event_store.py (append, replay, lookup by client    *)
(* event id), realtime/connection_manager.py (at most MaxConnections       *)
(* handlers per session), the skeleton of the WebSocket handler in         *)
(* api/routes/interview_live.py, and the client in interviewSocket.ts,     *)
(* which remembers the highest sequence it was sent and resends an answer  *)
(* until it sees that answer acknowledged.                                 *)
(*                                                                         *)
(* What a turn does to the transcript is LiveInterview's matter: here a    *)
(* turn stores one more event, or none.  A handler sends what it stores to *)
(* its own socket only, and survives the loss of that socket for a while.  *)
(***************************************************************************)
EXTENDS Naturals, Sequences, FiniteSets

CONSTANTS
    Clients,         \* browser tabs with this interview open
    Sockets,         \* identities of server-side connection handlers
    ClientEvents,    \* client event ids (crypto.randomUUID) of submitted answers
    None,            \* no client event, no socket, no client
    MaxConnections,  \* MAX_CONNECTIONS_PER_SESSION
    ReplayLimit,     \* rows one replay returns, 500 in replay_events
    MaxSequence      \* bound: events stored in one behaviour

ASSUME EventLogAssumption ==
    /\ None \notin ClientEvents \cup Sockets \cup Clients
    /\ IsFiniteSet(Sockets)
    /\ MaxConnections \in Nat
    /\ ReplayLimit \in Nat
    /\ MaxSequence \in Nat

VARIABLES
    rows,               \* the InterviewRealtimeEvent rows
    lastEventSequence,  \* interview.last_event_sequence
    connections,        \* ConnectionManager._connections[session_id]
    handler,            \* per connection handler: its program counter and locals
    wire,               \* per handler: sequences sent and not yet received
    client,             \* per tab: the InterviewSocket and what it was shown
    sent                \* client event ids used so far

vars == <<rows, lastEventSequence, connections, handler, wire, client, sent>>

-----------------------------------------------------------------------------
(* Types *)

\* The event types the log tells apart here; a failed turn's "error" stands with
\* the message it replaces.
EventTypes == {"session.state", "input.ack", "assistant.message"}

\* by is a history variable: the handler that stored the row.
Row == [sequence: Nat, type: EventTypes, event: ClientEvents \cup {None}, by: Sockets]

Handler == [ pc: {"idle", "connect", "replay", "state", "ready", "append", "turn"},
             client: Clients \cup {None},       \* whose socket it serves
             after: Nat,                        \* query parameter last_sequence
             inbox: ClientEvents \cup {None},   \* received, not yet read
             event: ClientEvents \cup {None},   \* being handled
             replayed: Nat,                     \* history: last row of the replay
             since: Nat ]                       \* history: newest row at that time

Client == [ socket: Sockets \cup {None},
            lastSequence: Nat,
            pendingAnswer: ClientEvents \cup {None},
            seen: SUBSET Nat ]

IdleHandler == [ pc |-> "idle", client |-> None, after |-> 0, inbox |-> None,
                 event |-> None, replayed |-> 0, since |-> 0 ]

TypeOK ==
    /\ rows \subseteq Row
    /\ lastEventSequence \in Nat
    /\ connections \subseteq Sockets
    /\ handler \in [Sockets -> Handler]
    /\ wire \in [Sockets -> Seq(Nat)]
    /\ client \in [Clients -> Client]
    /\ sent \subseteq ClientEvents

Init ==
    /\ rows = {}
    /\ lastEventSequence = 0
    /\ connections = {}
    /\ handler = [s \in Sockets |-> IdleHandler]
    /\ wire = [s \in Sockets |-> <<>>]
    /\ client = [c \in Clients |->
          [socket |-> None, lastSequence |-> 0, pendingAnswer |-> None, seen |-> {}]]
    /\ sent = {}

-----------------------------------------------------------------------------
(* event_store.py *)

RowsOf(e) == {r \in rows : e # None /\ r.event = e}

NewRow(type, e, s) ==
    [sequence |-> lastEventSequence + 1, type |-> type, event |-> e, by |-> s]

\* Bug: the event id is looked up by the caller only, not under the row lock.
Bug_AppendWithoutLookup(s, type, e) ==
    /\ lastEventSequence < MaxSequence
    /\ lastEventSequence' = lastEventSequence + 1
    /\ rows' = rows \cup {NewRow(type, e, s)}

\* append_event, under the session's row lock: an event that is already stored
\* is returned as it is, otherwise the counter is advanced and a row added.
AppendEvent(s, type, e) ==
    IF RowsOf(e) # {} THEN UNCHANGED <<rows, lastEventSequence>>
    ELSE /\ lastEventSequence < MaxSequence
         /\ lastEventSequence' = lastEventSequence + 1
         /\ rows' = rows \cup {NewRow(type, e, s)}

\* The sequence of the ServerEvent append_event returns.
AppendedSequence(e) ==
    IF RowsOf(e) # {} THEN (CHOOSE r \in RowsOf(e) : TRUE).sequence
    ELSE lastEventSequence + 1

\* Bug: the first event after the cursor is left out.
Bug_ReplaysFromNext(after) ==
    LET upTo == IF lastEventSequence - after <= ReplayLimit THEN lastEventSequence
                ELSE after + ReplayLimit
    IN  IF after >= lastEventSequence THEN <<>>
        ELSE [i \in 1..(upTo - after - 1) |-> after + 1 + i]

\* replay_events: the rows after a sequence, in order, ReplayLimit at most.
\* Sequences are dense, so the page is an interval.
Replay(after) ==
    LET upTo == IF lastEventSequence - after <= ReplayLimit THEN lastEventSequence
                ELSE after + ReplayLimit
    IN  IF after >= lastEventSequence THEN <<>> ELSE [i \in 1..(upTo - after) |-> after + i]

-----------------------------------------------------------------------------
(* The connection *)

\* The client of handler s still listens on this socket.
Attached(s) == handler[s].client # None /\ client[handler[s].client].socket = s

\* websocket.send_json: on a lost socket the bytes go nowhere.
Send(s, sequences) ==
    wire' = IF Attached(s) THEN [wire EXCEPT ![s] = @ \o sequences] ELSE wire

Goto(s, pc) == handler' = [handler EXCEPT ![s].pc = pc]

\* The client is told that its socket closed.
Detached(s) ==
    IF Attached(s) THEN [client EXCEPT ![handler[s].client].socket = None] ELSE client

\* InterviewSocket.open: a new socket with the cursor in its query string.
Open(c, s) ==
    /\ client[c].socket = None
    /\ handler[s].pc = "idle"
    /\ client' = [client EXCEPT ![c].socket = s]
    /\ handler' = [handler EXCEPT ![s] =
          [IdleHandler EXCEPT !.pc = "connect", !.client = c, !.after = client[c].lastSequence]]
    /\ UNCHANGED <<rows, lastEventSequence, connections, wire, sent>>

AtCapacity == Cardinality(connections) >= MaxConnections

\* ConnectionManager.connect accepts, then counts under its lock; onopen sends
\* the pending answer at once.  A connection over the cap is closed (1013).
Connect(s) ==
    /\ handler[s].pc = "connect"
    /\ IF AtCapacity
       THEN /\ handler' = [handler EXCEPT ![s] = IdleHandler]
            /\ client' = Detached(s)
            /\ UNCHANGED connections
       ELSE /\ connections' = connections \cup {s}
            /\ handler' = [handler EXCEPT ![s].pc = "replay",
                  ![s].inbox = IF Attached(s) THEN client[handler[s].client].pendingAnswer
                               ELSE None]
            /\ UNCHANGED client
    /\ UNCHANGED <<rows, lastEventSequence, wire, sent>>

\* The replay of the rows after the client's cursor...
ReplayEvents(s) ==
    LET page == Replay(handler[s].after)
    IN  /\ handler[s].pc = "replay"
        /\ Send(s, page)
        /\ handler' = [handler EXCEPT ![s].pc = "state", ![s].since = lastEventSequence,
              ![s].replayed = handler[s].after + Len(page)]
        /\ UNCHANGED <<rows, lastEventSequence, connections, client, sent>>

\* ...is followed by a new session.state event: each connection adds a row.
SendState(s) ==
    /\ handler[s].pc = "state"
    /\ AppendEvent(s, "session.state", None)
    /\ Send(s, <<AppendedSequence(None)>>)
    /\ Goto(s, "ready")
    /\ UNCHANGED <<connections, client, sent>>

\* A client event is read; one that is already stored is sent back as it was.
Receive(s) ==
    LET e == handler[s].inbox
    IN  /\ handler[s].pc = "ready"
        /\ e # None
        /\ IF RowsOf(e) # {}
           THEN /\ Send(s, <<AppendedSequence(e)>>)
                /\ handler' = [handler EXCEPT ![s].inbox = None]
           ELSE /\ handler' = [handler EXCEPT ![s].inbox = None, ![s].event = e,
                                              ![s].pc = "append"]
                /\ UNCHANGED wire
        /\ UNCHANGED <<rows, lastEventSequence, connections, client, sent>>

\* The acknowledgement (input.ack) of a saved answer, after the awaits of
\* save_user_answer: another handler may be handling the same event by now.
Acknowledge(s) ==
    /\ handler[s].pc = "append"
    /\ AppendEvent(s, "input.ack", handler[s].event)
    /\ Send(s, <<AppendedSequence(handler[s].event)>>)
    /\ handler' = [handler EXCEPT ![s].event = None, ![s].pc = "turn"]
    /\ UNCHANGED <<connections, client, sent>>

\* The turn that follows stores assistant.message or error, and sends it...
PublishTurn(s) ==
    /\ handler[s].pc = "turn"
    /\ AppendEvent(s, "assistant.message", None)
    /\ Send(s, <<AppendedSequence(None)>>)
    /\ Goto(s, "ready")
    /\ UNCHANGED <<connections, client, sent>>

\* Bug: a handler that raises keeps its place among the connections.
Bug_EndsWithoutDisconnect(s) ==
    /\ handler[s].pc \notin {"idle", "connect"}
    /\ handler' = [handler EXCEPT ![s] = IdleHandler]
    /\ client' = Detached(s)
    /\ wire' = [wire EXCEPT ![s] = <<>>]
    /\ UNCHANGED <<rows, lastEventSequence, connections, sent>>

\* A handler ends anywhere: its sends raise on a lost socket, an AppError closes
\* the socket (1008), it idles too long (1001).  "finally" disconnects it.
HandlerEnds(s) ==
    /\ handler[s].pc \notin {"idle", "connect"}
    /\ connections' = connections \ {s}
    /\ handler' = [handler EXCEPT ![s] = IdleHandler]
    /\ client' = Detached(s)
    /\ wire' = [wire EXCEPT ![s] = <<>>]
    /\ UNCHANGED <<rows, lastEventSequence, sent>>

-----------------------------------------------------------------------------
(* The browser *)

\* InterviewSocket.send of an answer: a new event id, refused while another
\* answer is pending or the socket is not open.
Submit(c, e) ==
    LET s == client[c].socket
    IN  /\ s \in connections
        /\ client[c].pendingAnswer = None
        /\ handler[s].inbox = None
        /\ e \notin sent
        /\ sent' = sent \cup {e}
        /\ client' = [client EXCEPT ![c].pendingAnswer = e]
        /\ handler' = [handler EXCEPT ![s].inbox = e]
        /\ UNCHANGED <<rows, lastEventSequence, connections, wire>>

RowAt(n) == CHOOSE r \in rows : r.sequence = n

\* onmessage: the cursor is the highest sequence received.
Deliver(c) ==
    LET s == client[c].socket
    IN  /\ s # None
        /\ wire[s] # <<>>
        /\ wire' = [wire EXCEPT ![s] = Tail(@)]
        /\ client' = [client EXCEPT
              ![c].lastSequence = IF Head(wire[s]) > @ THEN Head(wire[s]) ELSE @,
              ![c].seen = @ \cup {Head(wire[s])},
              ![c].pendingAnswer = IF RowAt(Head(wire[s])).event = @ THEN None ELSE @]
        /\ UNCHANGED <<rows, lastEventSequence, connections, handler, sent>>

\* The network drops a socket: what is in flight is lost both ways, and the
\* server's handler is not told.
Lose(c) ==
    LET s == client[c].socket
    IN  /\ s # None
        /\ client' = [client EXCEPT ![c].socket = None]
        /\ wire' = [wire EXCEPT ![s] = <<>>]
        /\ handler' = [handler EXCEPT ![s].inbox = None]
        /\ UNCHANGED <<rows, lastEventSequence, connections, sent>>

\* The page is loaded, or its session query refetched: a new InterviewSocket
\* that starts from the snapshot POST /start returned.
Reload(c) ==
    /\ client[c].socket = None
    /\ client[c].lastSequence < lastEventSequence
    /\ client' = [client EXCEPT ![c] =
          [socket |-> None, lastSequence |-> lastEventSequence, pendingAnswer |-> None,
           seen |-> 1..lastEventSequence]]
    /\ UNCHANGED <<rows, lastEventSequence, connections, handler, wire, sent>>

\* The server process is restarted.
Restart ==
    /\ connections # {}
    /\ connections' = {}
    /\ handler' = [s \in Sockets |-> IdleHandler]
    /\ wire' = [s \in Sockets |-> <<>>]
    /\ client' = [c \in Clients |-> [client[c] EXCEPT !.socket = None]]
    /\ UNCHANGED <<rows, lastEventSequence, sent>>

-----------------------------------------------------------------------------

HandlerStep(s) ==
    \/ Connect(s)
    \/ ReplayEvents(s)
    \/ SendState(s)
    \/ Receive(s)
    \/ Acknowledge(s)
    \/ PublishTurn(s)
    \/ HandlerEnds(s)

ClientStep(c) ==
    \/ \E s \in Sockets : Open(c, s)
    \/ \E e \in ClientEvents : Submit(c, e)
    \/ Deliver(c)
    \/ Lose(c)
    \/ Reload(c)

Next ==
    \/ \E s \in Sockets : HandlerStep(s)
    \/ \E c \in Clients : ClientStep(c)
    \/ Restart

Spec == Init /\ [][Next]_vars

-----------------------------------------------------------------------------
(***************************************************************************)
(* Properties                                                              *)
(***************************************************************************)

\* The rows of a session are numbered 1, 2, 3, ... without a gap or a repeat,
\* whichever connections store them: a cursor identifies a prefix of the log.
LogIsDense ==
    /\ {r.sequence : r \in rows} = 1..lastEventSequence
    /\ \A q, r \in rows : q.sequence = r.sequence => q = r

\* A client event id is stored once, although the handler that lost its socket
\* and the one that received the resent answer may both be about to store it.
ClientEventStoredOnce ==
    \A q, r \in rows : q.event = r.event /\ q.event # None => q = r

\* The connection table holds exactly the handlers that run, never more than
\* the cap: slots of dead connections come back.
ConnectionsTracked ==
    /\ connections = {s \in Sockets : handler[s].pc \notin {"idle", "connect"}}
    /\ Cardinality(connections) <= MaxConnections

\* Rows below the client's cursor that it was never sent.
Missed(c) ==
    {r \in rows : r.sequence <= client[c].lastSequence /\ r.sequence \notin client[c].seen}

\* What a connection makes its client miss was stored by ANOTHER handler after
\* the replay page was read: the client gets every event its own handler stored
\* and every event of the page it asked for.
OwnEventsAreDelivered ==
    \A c \in Clients : client[c].socket # None =>
        LET h == handler[client[c].socket]
        IN  \A r \in Missed(c) : r.sequence > h.after =>
                /\ r.sequence > h.replayed
                /\ r.by # client[c].socket \/ r.sequence <= h.since

(***************************************************************************)
(* What the documents say and some instances do not keep.                  *)
(***************************************************************************)

\* "After a disconnect the client carries the last confirmed sequence and the
\* server replays the missing events": no interviewer message is passed over.  (A
\* passed over acknowledgement comes back when its answer is sent again, and
\* the session's state is sent anew to every connection.)
NoMessageIsSkipped ==
    \A c \in Clients : \A r \in Missed(c) : r.type # "assistant.message"
=============================================================================
