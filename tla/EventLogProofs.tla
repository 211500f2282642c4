---------------------------- MODULE EventLogProofs ----------------------------
(***************************************************************************)
(* EventLog for any number of tabs, handlers and answers, any connection   *)
(* cap and any replay limit: the log is a dense sequence in which each     *)
(* client event is stored once, and the connection table stays in step     *)
(* with the handlers.  The log needs one strengthening only, that its      *)
(* counter is a natural number; append_event is the only writer.           *)
(*                                                                         *)
(* DeliveryInv says what lies between the log and a browser: each row that *)
(* a handler owes its client was seen, or is on the wire above the cursor  *)
(* with nothing in front of it that would move the cursor past it.         *)
(*                                                                         *)
(* The last section is about ClientSocket, the browser's end of the same   *)
(* connection, for any number of answers and lost sockets.                 *)
(***************************************************************************)
EXTENDS EventLog, SequenceTheorems, FiniteSetTheorems, TLAPS

-----------------------------------------------------------------------------
(* The log *)

LogInv ==
    /\ lastEventSequence \in Nat
    /\ LogIsDense
    /\ ClientEventStoredOnce

LEMMA LogInit == Init => LogInv
  BY DEF Init, LogInv, LogIsDense, ClientEventStoredOnce

\* append_event keeps the log dense and its client events distinct.
LEMMA LogAppend ==
    ASSUME LogInv, NEW s, NEW type, NEW e, AppendEvent(s, type, e)
    PROVE  LogInv'
  <1>1. CASE RowsOf(e) # {}
    BY <1>1 DEF AppendEvent, LogInv, LogIsDense, ClientEventStoredOnce
  <1>2. CASE RowsOf(e) = {}
    <2> DEFINE new == NewRow(type, e, s)
    <2>1. /\ rows' = rows \cup {new}
          /\ lastEventSequence' = lastEventSequence + 1
          /\ new.sequence = lastEventSequence + 1
          /\ new.event = e
      BY <1>2 DEF AppendEvent, NewRow
    <2>2. lastEventSequence \in Nat /\ lastEventSequence' \in Nat
      BY <2>1 DEF LogInv
    <2>3. \A r \in rows : r.sequence \in 1..lastEventSequence
      BY DEF LogInv, LogIsDense
    <2>4. {r.sequence : r \in rows'} = 1..lastEventSequence'
      <3>1. {r.sequence : r \in rows'} = {r.sequence : r \in rows} \cup {lastEventSequence + 1}
        BY <2>1
      <3>2. 1..lastEventSequence' = (1..lastEventSequence) \cup {lastEventSequence + 1}
        BY <2>1, <2>2
      <3> QED
        BY <3>1, <3>2 DEF LogInv, LogIsDense
    <2>5. \A r \in rows : r.sequence # new.sequence
      BY <2>1, <2>2, <2>3
    <2>6. LogIsDense'
      BY <2>1, <2>4, <2>5 DEF LogInv, LogIsDense
    <2>7. \A r \in rows : r.event = e => e = None
      BY <1>2 DEF RowsOf
    <2>8. ClientEventStoredOnce'
      BY <2>1, <2>7 DEF LogInv, ClientEventStoredOnce
    <2> QED
      BY <2>2, <2>6, <2>8 DEF LogInv
  <1> QED
    BY <1>1, <1>2

LEMMA LogUnchanged ==
    ASSUME LogInv, UNCHANGED <<rows, lastEventSequence>>
    PROVE  LogInv'
  BY DEF LogInv, LogIsDense, ClientEventStoredOnce

LEMMA LogStep == LogInv /\ [Next]_vars => LogInv'
  <1> SUFFICES ASSUME LogInv, [Next]_vars PROVE LogInv'
    OBVIOUS
  <1>1. ASSUME NEW s \in Sockets, HandlerStep(s) PROVE LogInv'
    <2>1. CASE Connect(s) \/ ReplayEvents(s) \/ Receive(s) \/ HandlerEnds(s)
      BY <2>1, LogUnchanged DEF Connect, ReplayEvents, Receive, HandlerEnds
    <2>2. CASE SendState(s)
      BY <2>2, LogAppend DEF SendState
    <2>3. CASE Acknowledge(s)
      BY <2>3, LogAppend DEF Acknowledge
    <2>4. CASE PublishTurn(s)
      BY <2>4, LogAppend DEF PublishTurn
    <2> QED
      BY <1>1, <2>1, <2>2, <2>3, <2>4 DEF HandlerStep
  <1>2. ASSUME NEW c \in Clients, ClientStep(c) PROVE LogInv'
    BY <1>2, LogUnchanged DEF ClientStep, Open, Submit, Deliver, Lose, Reload
  <1>3. CASE Restart
    BY <1>3, LogUnchanged DEF Restart
  <1>4. CASE UNCHANGED vars
    BY <1>4, LogUnchanged DEF vars
  <1> QED
    BY <1>1, <1>2, <1>3, <1>4 DEF Next

LEMMA LogInvariance == Spec => []LogInv
  BY LogInit, LogStep, PTL DEF Spec

-----------------------------------------------------------------------------
(* The connection table *)

LEMMA ReplayType ==
    ASSUME lastEventSequence \in Nat, NEW after \in Nat
    PROVE  Replay(after) \in Seq(Nat) /\ Len(Replay(after)) \in Nat
  <1> DEFINE upTo == IF lastEventSequence - after <= ReplayLimit THEN lastEventSequence
                     ELSE after + ReplayLimit
  <1>1. CASE after >= lastEventSequence
    BY <1>1 DEF Replay
  <1>2. CASE ~(after >= lastEventSequence)
    <2>1. upTo - after \in Nat
      BY <1>2, EventLogAssumption
    <2>2. Replay(after) = [i \in 1..(upTo - after) |-> after + i]
      BY <1>2 DEF Replay
    <2>3. Replay(after) \in Seq(Nat)
      BY <2>1, <2>2
    <2> QED
      BY <2>3
  <1> QED
    BY <1>1, <1>2

LEMMA AppendedType ==
    ASSUME TypeOK, NEW e
    PROVE  AppendedSequence(e) \in Nat
  BY DEF TypeOK, Row, RowsOf, AppendedSequence

LEMMA AppendType ==
    ASSUME TypeOK, NEW s \in Sockets, NEW type \in EventTypes,
           NEW e \in ClientEvents \cup {None}, AppendEvent(s, type, e)
    PROVE  rows' \subseteq Row /\ lastEventSequence' \in Nat
  BY DEF TypeOK, AppendEvent, NewRow, Row

LEMMA SendType ==
    ASSUME TypeOK, NEW s \in Sockets, NEW page \in Seq(Nat), Send(s, page)
    PROVE  wire' \in [Sockets -> Seq(Nat)]
  BY DEF TypeOK, Send

LEMMA IdleType == IdleHandler \in Handler
  BY DEF IdleHandler, Handler

LEMMA DetachedType ==
    ASSUME TypeOK, NEW s \in Sockets
    PROVE  Detached(s) \in [Clients -> Client]
  BY ZenonT(60) DEF TypeOK, Detached, Attached, Handler, Client

\* What holds the connection table in step with the handlers.
TableInv == TypeOK /\ ConnectionsTracked

LEMMA TableInit == Init => TableInv
  <1> SUFFICES ASSUME Init PROVE TableInv
    OBVIOUS
  <1>1. TypeOK
    BY IdleType DEF Init, TypeOK, Client
  <1>2. Cardinality({}) = 0
    BY FS_EmptySet
  <1>3. ConnectionsTracked
    BY <1>2, EventLogAssumption DEF Init, ConnectionsTracked, IdleHandler
  <1> QED
    BY <1>1, <1>3 DEF TableInv

\* A step that takes no handler into or out of service keeps the table.
LEMMA TableSame ==
    ASSUME TableInv, UNCHANGED connections,
           \A s \in Sockets : handler'[s].pc \in {"idle", "connect"}
                                <=> handler[s].pc \in {"idle", "connect"}
    PROVE  ConnectionsTracked'
  BY DEF TableInv, ConnectionsTracked

LEMMA TableHandler ==
    ASSUME TableInv, NEW s \in Sockets, HandlerStep(s)
    PROVE  TableInv'
  <1> USE DEF TableInv
  <1>1. handler \in [Sockets -> Handler] /\ client \in [Clients -> Client]
    BY DEF TypeOK
  <1>2. IsFiniteSet(connections) /\ Cardinality(connections) \in Nat
    <2>1. IsFiniteSet(Sockets) /\ connections \subseteq Sockets
      BY EventLogAssumption DEF TypeOK
    <2> QED
      BY <2>1, FS_Subset, FS_CardinalityType
  <1>3. CASE Connect(s)
    <2>1. CASE AtCapacity
      <3>1. /\ handler' = [handler EXCEPT ![s] = IdleHandler]
            /\ client' = Detached(s)
            /\ UNCHANGED connections
        BY <1>3, <2>1 DEF Connect
      <3>2. TypeOK'
        BY <1>3, <3>1, IdleType, DetachedType DEF Connect, TypeOK
      <3>3. ConnectionsTracked'
        BY <1>1, <1>3, <3>1, TableSame DEF Connect, IdleHandler
      <3> QED
        BY <3>2, <3>3
    <2>2. CASE ~AtCapacity
      <3> DEFINE got == IF Attached(s) THEN client[handler[s].client].pendingAnswer ELSE None
      <3>1. /\ connections' = connections \cup {s}
            /\ handler' = [handler EXCEPT ![s].pc = "replay", ![s].inbox = got]
            /\ UNCHANGED client
        BY <1>3, <2>2 DEF Connect
      <3>2. got \in ClientEvents \cup {None}
        BY <1>1 DEF Attached, Handler, Client
      <3> HIDE DEF got
      <3>3. handler' \in [Sockets -> Handler]
        BY ZenonT(60), <1>1, <3>1, <3>2 DEF Handler
      <3>4. TypeOK'
        BY <1>3, <3>1, <3>3 DEF Connect, TypeOK
      <3>5. connections' = {t \in Sockets : handler'[t].pc \notin {"idle", "connect"}}
        BY <1>1, <3>1 DEF ConnectionsTracked, Handler
      <3>6. /\ Cardinality(connections') <= Cardinality(connections) + 1
            /\ Cardinality(connections') \in Nat
        <4>1. Cardinality(connections') = IF s \in connections THEN Cardinality(connections)
                                          ELSE Cardinality(connections) + 1
          BY <1>2, <3>1, FS_AddElement
        <4> QED
          BY <1>2, <4>1
      <3>7. Cardinality(connections) < MaxConnections
        BY <1>2, <2>2, EventLogAssumption DEF AtCapacity
      <3> QED
        BY <1>2, <3>4, <3>5, <3>6, <3>7, EventLogAssumption DEF ConnectionsTracked
    <2> QED
      BY <2>1, <2>2
  <1>4. CASE ReplayEvents(s)
    <2> DEFINE page == Replay(handler[s].after)
    <2>1. lastEventSequence \in Nat /\ handler[s].after \in Nat
      BY <1>1 DEF TypeOK, Handler
    <2>2. page \in Seq(Nat) /\ Len(page) \in Nat
      BY <2>1, ReplayType
    <2>3. /\ Send(s, page)
          /\ handler' = [handler EXCEPT ![s].pc = "state", ![s].since = lastEventSequence,
                            ![s].replayed = handler[s].after + Len(page)]
          /\ handler[s].pc = "replay"
      BY <1>4 DEF ReplayEvents
    <2> HIDE DEF page
    <2>4. handler' \in [Sockets -> Handler]
      <3>1. handler[s].after + Len(page) \in Nat
        BY <2>1, <2>2
      <3>2. [handler[s] EXCEPT !.pc = "state", !.since = lastEventSequence,
                               !.replayed = handler[s].after + Len(page)] \in Handler
        BY <1>1, <2>1, <3>1 DEF Handler
      <3> QED
        BY <1>1, <2>3, <3>2
    <2>5. TypeOK'
      BY <1>4, <2>2, <2>3, <2>4, SendType DEF ReplayEvents, TypeOK
    <2>6. ConnectionsTracked'
      BY <1>1, <1>4, <2>3, TableSame DEF ReplayEvents, Handler
    <2> QED
      BY <2>5, <2>6
  <1>5. ASSUME NEW type \in EventTypes, NEW e \in ClientEvents \cup {None},
               AppendEvent(s, type, e), Send(s, <<AppendedSequence(e)>>),
               handler' \in [Sockets -> Handler],
               UNCHANGED <<connections, client, sent>>
        PROVE  TypeOK'
    <2>1. <<AppendedSequence(e)>> \in Seq(Nat)
      BY AppendedType
    <2>2. wire' \in [Sockets -> Seq(Nat)]
      BY <1>5, <2>1, SendType
    <2>3. rows' \subseteq Row /\ lastEventSequence' \in Nat
      BY <1>5, AppendType
    <2> QED
      BY <1>5, <2>2, <2>3 DEF TypeOK
  <1>6. CASE SendState(s)
    <2>1. handler' \in [Sockets -> Handler]
      BY <1>1, <1>6 DEF SendState, Goto, Handler
    <2>2. TypeOK'
      BY <1>5, <1>6, <2>1 DEF SendState, EventTypes
    <2>3. ConnectionsTracked'
      BY <1>1, <1>6, TableSame DEF SendState, Goto, Handler
    <2> QED
      BY <2>2, <2>3
  <1>7. CASE Receive(s)
    <2>1. handler' \in [Sockets -> Handler]
      BY <1>1, <1>7 DEF Receive, Handler
    <2>2. <<AppendedSequence(handler[s].inbox)>> \in Seq(Nat)
      BY AppendedType
    <2>3. wire' \in [Sockets -> Seq(Nat)]
      BY <1>7, <2>2, SendType DEF Receive, TypeOK
    <2>4. TypeOK'
      BY <1>7, <2>1, <2>3 DEF Receive, TypeOK
    <2>5. ConnectionsTracked'
      BY <1>1, <1>7, TableSame DEF Receive, Handler
    <2> QED
      BY <2>4, <2>5
  <1>8. CASE Acknowledge(s)
    <2>1. handler' \in [Sockets -> Handler]
      BY <1>1, <1>8 DEF Acknowledge, Handler
    <2>2. handler[s].event \in ClientEvents \cup {None}
      BY <1>1 DEF Handler
    <2>3. TypeOK'
      BY <1>5, <1>8, <2>1, <2>2 DEF Acknowledge, EventTypes
    <2>4. ConnectionsTracked'
      BY <1>1, <1>8, TableSame DEF Acknowledge, Handler
    <2> QED
      BY <2>3, <2>4
  <1>9. CASE PublishTurn(s)
    <2>1. handler' \in [Sockets -> Handler]
      BY <1>1, <1>9 DEF PublishTurn, Goto, Handler
    <2>2. TypeOK'
      BY <1>5, <1>9, <2>1 DEF PublishTurn, EventTypes
    <2>3. ConnectionsTracked'
      BY <1>1, <1>9, TableSame DEF PublishTurn, Goto, Handler
    <2> QED
      BY <2>2, <2>3
  <1>10. CASE HandlerEnds(s)
    <2>1. TypeOK'
      BY <1>10, IdleType, DetachedType DEF HandlerEnds, TypeOK
    <2>2. connections' = {t \in Sockets : handler'[t].pc \notin {"idle", "connect"}}
      BY <1>1, <1>10 DEF HandlerEnds, ConnectionsTracked, IdleHandler
    <2>3. Cardinality(connections') <= Cardinality(connections) /\ Cardinality(connections') \in Nat
      BY <1>2, <1>10, FS_Subset, FS_CardinalityType DEF HandlerEnds
    <2> QED
      BY <1>2, <2>1, <2>2, <2>3, EventLogAssumption DEF ConnectionsTracked
  <1> QED
    BY <1>3, <1>4, <1>6, <1>7, <1>8, <1>9, <1>10 DEF HandlerStep

LEMMA TableClient ==
    ASSUME TableInv, NEW c \in Clients, ClientStep(c)
    PROVE  TableInv'
  <1> USE DEF TableInv
  <1>1. /\ handler \in [Sockets -> Handler] /\ client \in [Clients -> Client]
        /\ wire \in [Sockets -> Seq(Nat)] /\ lastEventSequence \in Nat
    BY DEF TypeOK
  <1>2. ASSUME NEW s \in Sockets, Open(c, s) PROVE TableInv'
    <2> DEFINE opened == [IdleHandler EXCEPT !.pc = "connect", !.client = c,
                                             !.after = client[c].lastSequence]
    <2>1. opened \in Handler /\ opened.pc = "connect"
      BY <1>1 DEF IdleHandler, Handler, Client
    <2>2. handler' = [handler EXCEPT ![s] = opened] /\ handler[s].pc = "idle"
      BY <1>2 DEF Open
    <2> HIDE DEF opened
    <2>3. handler' \in [Sockets -> Handler]
      BY <1>1, <2>1, <2>2
    <2>4. client' \in [Clients -> Client]
      BY ZenonT(60), <1>1, <1>2 DEF Open, Client
    <2>5. TypeOK'
      BY <1>2, <2>3, <2>4 DEF Open, TypeOK
    <2>6. ConnectionsTracked'
      BY <1>1, <1>2, <2>1, <2>2, TableSame DEF Open
    <2> QED
      BY <2>5, <2>6
  <1>3. ASSUME NEW e \in ClientEvents, Submit(c, e) PROVE TableInv'
    <2>1. client' \in [Clients -> Client] /\ sent' \subseteq ClientEvents
      BY <1>1, <1>3 DEF Submit, Client, TypeOK
    <2>2. handler' \in [Sockets -> Handler]
      <3>1. client[c].socket \in Sockets
        BY <1>3 DEF Submit, TypeOK
      <3>2. [handler[client[c].socket] EXCEPT !.inbox = e] \in Handler
        BY ZenonT(60), <1>1, <3>1 DEF Handler
      <3> QED
        BY <1>1, <1>3, <3>1, <3>2 DEF Submit
    <2>3. TypeOK'
      BY <1>3, <2>1, <2>2 DEF Submit, TypeOK
    <2>4. ConnectionsTracked'
      BY <1>1, <1>3, TableSame DEF Submit, Handler
    <2> QED
      BY <2>3, <2>4
  <1>4. CASE Deliver(c)
    <2> DEFINE s == client[c].socket
    <2>1. s \in Sockets /\ wire[s] \in Seq(Nat) /\ wire[s] # <<>>
      BY <1>1, <1>4 DEF Deliver, Client
    <2>2. Head(wire[s]) \in Nat /\ Tail(wire[s]) \in Seq(Nat)
      BY <2>1
    <2>3. wire' \in [Sockets -> Seq(Nat)]
      BY <1>1, <1>4, <2>1, <2>2 DEF Deliver
    <2>4. client' \in [Clients -> Client]
      <3> DEFINE seen == client[c].seen \cup {Head(wire[s])}
      <3>1. PICK n \in Nat, p \in ClientEvents \cup {None} :
              client' = [client EXCEPT ![c].lastSequence = n, ![c].seen = seen,
                                       ![c].pendingAnswer = p]
        BY <1>1, <1>4, <2>2 DEF Deliver, Client
      <3>2. client[c] \in Client /\ seen \in SUBSET Nat
        BY <1>1, <2>2 DEF Client
      <3> HIDE DEF seen
      <3>3. [client[c] EXCEPT !.lastSequence = n, !.seen = seen, !.pendingAnswer = p] \in Client
        BY <3>2 DEF Client
      <3> QED
        BY <1>1, <3>1, <3>3
    <2>5. TypeOK'
      BY <1>4, <2>3, <2>4 DEF Deliver, TypeOK
    <2>6. ConnectionsTracked'
      BY <1>4, TableSame DEF Deliver
    <2> QED
      BY <2>5, <2>6
  <1>5. CASE Lose(c)
    <2>1. client[c].socket \in Sockets
      BY <1>1, <1>5 DEF Lose, Client
    <2>2. client' \in [Clients -> Client]
      BY <1>1, <1>5 DEF Lose, Client
    <2>3. handler' \in [Sockets -> Handler] /\ wire' \in [Sockets -> Seq(Nat)]
      <3>1. [handler[client[c].socket] EXCEPT !.inbox = None] \in Handler
        BY ZenonT(60), <1>1, <2>1 DEF Handler
      <3>2. <<>> \in Seq(Nat)
        OBVIOUS
      <3> QED
        BY <1>1, <1>5, <2>1, <3>1, <3>2 DEF Lose
    <2>4. TypeOK'
      BY <1>5, <2>2, <2>3 DEF Lose, TypeOK
    <2>5. ConnectionsTracked'
      BY <1>1, <1>5, <2>1, TableSame DEF Lose, Handler
    <2> QED
      BY <2>4, <2>5
  <1>6. CASE Reload(c)
    <2>1. client' \in [Clients -> Client]
      BY <1>1, <1>6 DEF Reload, Client
    <2>2. TypeOK'
      BY <1>6, <2>1 DEF Reload, TypeOK
    <2>3. ConnectionsTracked'
      BY <1>6, TableSame DEF Reload
    <2> QED
      BY <2>2, <2>3
  <1> QED
    BY <1>2, <1>3, <1>4, <1>5, <1>6 DEF ClientStep

LEMMA TableStep == TableInv /\ [Next]_vars => TableInv'
  <1> SUFFICES ASSUME TableInv, [Next]_vars PROVE TableInv'
    OBVIOUS
  <1>1. ASSUME NEW s \in Sockets, HandlerStep(s) PROVE TableInv'
    BY <1>1, TableHandler
  <1>2. ASSUME NEW c \in Clients, ClientStep(c) PROVE TableInv'
    BY <1>2, TableClient
  <1>3. CASE Restart
    <2>1. client' \in [Clients -> Client]
      BY <1>3 DEF Restart, TableInv, TypeOK, Client
    <2>2. TypeOK'
      BY <1>3, <2>1, IdleType DEF Restart, TableInv, TypeOK
    <2>3. Cardinality({}) = 0
      BY FS_EmptySet
    <2>4. ConnectionsTracked'
      BY <1>3, <2>3, EventLogAssumption DEF Restart, ConnectionsTracked, IdleHandler
    <2> QED
      BY <2>2, <2>4 DEF TableInv
  <1>4. CASE UNCHANGED vars
    BY <1>4 DEF vars, TableInv, TypeOK, ConnectionsTracked
  <1> QED
    BY <1>1, <1>2, <1>3, <1>4 DEF Next

LEMMA TableInvariance == Spec => []TableInv
  BY TableInit, TableStep, PTL DEF Spec

-----------------------------------------------------------------------------
(* What a connection delivers *)

\* The handler has sent the page its client asked for.
Replayed(s) == handler[s].pc \notin {"idle", "connect", "replay"}

\* Handler s owes its client the rows of that page and the rows it stored itself.
Owed(s, r) ==
    /\ r.sequence > handler[s].after
    /\ r.sequence <= handler[s].replayed \/ (r.by = s /\ r.sequence > handler[s].since)

\* The row is on its way, and nothing sent before it moves the cursor past it.
Coming(s, n) ==
    \E k \in 1..Len(wire[s]) : wire[s][k] = n /\ \A j \in 1..(k - 1) : wire[s][j] < n

\* What client c has got of what handler s owes it.
Follows(c, s) ==
    /\ handler[s].client = c /\ handler[s].pc # "idle"
    /\ ~Replayed(s) => client[c].lastSequence = handler[s].after
    /\ Replayed(s) =>
         /\ handler[s].replayed <= handler[s].since
         /\ handler[s].since <= lastEventSequence
         /\ \A r \in rows : Owed(s, r) =>
              \/ r.sequence \in client[c].seen
              \/ client[c].lastSequence < r.sequence /\ Coming(s, r.sequence)

\* Nothing is sent before the replay, nothing that is not in the log, and a
\* connected client follows its handler.
DeliveryInv ==
    /\ \A s \in Sockets : ~Replayed(s) => wire[s] = <<>>
    /\ \A s \in Sockets : \A k \in 1..Len(wire[s]) : wire[s][k] <= lastEventSequence
    /\ \A c \in Clients : client[c].lastSequence <= lastEventSequence
    /\ \A c \in Clients : client[c].socket # None => Follows(c, client[c].socket)

LEMMA ComingKept ==
    ASSUME NEW s \in Sockets, wire[s] \in Seq(Nat), NEW page \in Seq(Nat),
           wire'[s] = wire[s] \o page, NEW n, Coming(s, n)
    PROVE  Coming(s, n)'
  <1>1. PICK k \in 1..Len(wire[s]) : wire[s][k] = n /\ \A j \in 1..(k - 1) : wire[s][j] < n
    BY DEF Coming
  <1>2. /\ Len(wire[s]) \in Nat /\ Len(page) \in Nat
        /\ Len(wire'[s]) = Len(wire[s]) + Len(page)
        /\ \A i \in 1..Len(wire[s]) : wire'[s][i] = wire[s][i]
    BY ConcatProperties, LenProperties
  <1>3. k \in 1..Len(wire'[s]) /\ \A j \in 1..(k - 1) : j \in 1..Len(wire[s])
    BY <1>2
  <1> QED
    BY <1>1, <1>2, <1>3 DEF Coming

\* Nothing that a client waits for is taken away, and what is new is not owed to
\* it or on its way.
LEMMA FollowsKept ==
    ASSUME NEW c \in Clients, NEW s \in Sockets, Follows(c, s),
           lastEventSequence \in Nat, lastEventSequence' \in Nat,
           lastEventSequence' >= lastEventSequence, handler[s].since \in Nat,
           handler'[s].client = handler[s].client, handler'[s].after = handler[s].after,
           handler'[s].replayed = handler[s].replayed, handler'[s].since = handler[s].since,
           handler'[s].pc # "idle", Replayed(s)' <=> Replayed(s),
           client'[c].lastSequence = client[c].lastSequence, client'[c].seen = client[c].seen,
           \A n : Coming(s, n) => Coming(s, n)',
           \A r \in rows' : Replayed(s) /\ Owed(s, r) =>
              r \in rows \/ (client[c].lastSequence < r.sequence /\ Coming(s, r.sequence)')
    PROVE  Follows(c, s)'
  <1>1. \A r : Owed(s, r)' <=> Owed(s, r)
    BY DEF Owed
  <1> QED
    BY <1>1 DEF Follows

LEMMA Sent ==
    ASSUME TypeOK, NEW s \in Sockets, NEW page \in Seq(Nat), Send(s, page)
    PROVE  /\ \A t \in Sockets \ {s} : wire'[t] = wire[t]
           /\ Attached(s) => wire'[s] = wire[s] \o page
           /\ ~Attached(s) => wire'[s] = wire[s]
  BY DEF TypeOK, Send

\* Storing a row and sending it: the other handlers' clients are not owed it.
LEMMA DeliveryAppended ==
    ASSUME LogInv, TypeOK, DeliveryInv, NEW s \in Sockets, Replayed(s), NEW type, NEW e,
           AppendEvent(s, type, e), Send(s, <<AppendedSequence(e)>>), UNCHANGED client,
           DOMAIN handler' = Sockets,
           \A t \in Sockets \ {s} : handler'[t] = handler[t],
           handler'[s].client = handler[s].client, handler'[s].after = handler[s].after,
           handler'[s].replayed = handler[s].replayed, handler'[s].since = handler[s].since,
           handler'[s].pc # "idle", Replayed(s)'
    PROVE  DeliveryInv'
  <1> DEFINE last == lastEventSequence
  <1>0. PICK x : x = AppendedSequence(e)
    OBVIOUS
  <1>1. /\ last \in Nat /\ lastEventSequence' \in {last, last + 1}
        /\ x \in Nat /\ x <= lastEventSequence'
        /\ \A r \in rows' : r \in rows \/
              (r.sequence = x /\ r.by = s /\ x = last + 1 /\ lastEventSequence' = last + 1)
    <2>1. last \in Nat /\ \A r \in rows : r.sequence \in 1..last
      BY DEF LogInv, LogIsDense
    <2>2. CASE RowsOf(e) # {}
      <3>1. \E r \in rows : x = r.sequence
        BY <1>0, <2>2 DEF AppendedSequence, RowsOf
      <3> QED
        BY <2>1, <2>2, <3>1 DEF AppendEvent
    <2>3. CASE RowsOf(e) = {}
      BY <1>0, <2>1, <2>3 DEF AppendEvent, AppendedSequence, NewRow
    <2> QED
      BY <2>2, <2>3
  <1>2. <<x>> \in Seq(Nat) /\ Len(<<x>>) = 1 /\ <<x>>[1] = x
    BY <1>1
  <1>3. /\ \A t \in Sockets \ {s} : wire'[t] = wire[t]
        /\ Attached(s) => wire'[s] = wire[s] \o <<x>>
        /\ ~Attached(s) => wire'[s] = wire[s]
    BY <1>0, <1>2, Sent
  <1>4. /\ handler \in [Sockets -> Handler] /\ client \in [Clients -> Client]
        /\ wire[s] \in Seq(Nat) /\ Len(wire[s]) \in Nat
        /\ \A k \in 1..Len(wire[s]) : wire[s][k] \in Nat
    BY LenProperties, ElementOfSeq DEF TypeOK
  <1>5. Attached(s) => /\ Len(wire'[s]) = Len(wire[s]) + 1
                       /\ \A k \in 1..Len(wire[s]) : wire'[s][k] = wire[s][k]
                       /\ wire'[s][Len(wire[s]) + 1] = x
    BY <1>2, <1>3, <1>4, ConcatProperties
  <1>6. ASSUME NEW t \in Sockets, NEW k \in 1..Len(wire'[t])
        PROVE  wire'[t][k] <= lastEventSequence'
    <2>1. CASE t = s /\ Attached(s)
      <3>1. k \in 1..Len(wire[s]) \/ k = Len(wire[s]) + 1
        BY <1>4, <1>5, <2>1
      <3>2. CASE k \in 1..Len(wire[s])
        <4>1. wire[s][k] <= last /\ wire[s][k] \in Nat
          BY <1>4, <3>2 DEF DeliveryInv
        <4>2. wire'[t][k] = wire[s][k]
          BY <1>5, <2>1, <3>2
        <4> QED
          BY <1>1, <4>1, <4>2
      <3> QED
        BY <1>1, <1>5, <2>1, <3>1, <3>2
    <2>2. CASE wire'[t] = wire[t]
      <3>1. k \in 1..Len(wire[t]) /\ wire[t][k] \in Nat
        BY <2>2, ElementOfSeq DEF TypeOK
      <3>2. wire[t][k] <= last
        BY <3>1 DEF DeliveryInv
      <3> QED
        BY <1>1, <2>2, <3>1, <3>2
    <2> QED
      BY <1>3, <2>1, <2>2
  <1>7. \A t \in Sockets : ~Replayed(t)' => wire'[t] = <<>>
    BY <1>3 DEF DeliveryInv, Replayed
  <1>8. \A c \in Clients : client'[c].lastSequence <= lastEventSequence'
    BY <1>1, <1>4 DEF DeliveryInv, Client
  <1>9. ASSUME NEW c \in Clients, client[c].socket # None
        PROVE  Follows(c, client[c].socket)'
    <2>0. PICK t \in Sockets : t = client[c].socket /\ Follows(c, t)
      BY <1>4, <1>9 DEF DeliveryInv, Client
    <2>a. client[c].lastSequence \in Nat
      BY <1>4 DEF Client
    <2>1. CASE t # s
      <3>1. handler'[t] = handler[t] /\ wire'[t] = wire[t] /\ handler[t].since \in Nat
            /\ handler[t].replayed \in Nat
        BY <1>3, <1>4, <2>0, <2>1 DEF Handler
      <3>2. Replayed(t)' <=> Replayed(t)
        BY <3>1 DEF Replayed
      <3>3. \A n : Coming(t, n) => Coming(t, n)'
        BY <3>1 DEF Coming
      <3>4. \A r \in rows' : Replayed(t) /\ Owed(t, r) => r \in rows
        BY <1>1, <2>0, <2>1, <3>1 DEF Owed, Follows
      <3>5. lastEventSequence' >= lastEventSequence /\ lastEventSequence' \in Nat
        BY <1>1
      <3>6. handler'[t].pc # "idle"
        BY <2>0, <3>1 DEF Follows
      <3>7. Follows(c, t)'
        BY <1>1, <2>0, <3>1, <3>2, <3>3, <3>4, <3>5, <3>6, FollowsKept
      <3> QED
        BY <2>0, <3>7
    <2>2. CASE t = s
      <3>1. Attached(s)
        BY <2>0, <2>2, EventLogAssumption DEF Attached, Follows
      <3>2. \A n : Coming(s, n) => Coming(s, n)'
        BY <1>2, <1>3, <1>4, <3>1, ComingKept
      <3>3. ASSUME NEW r \in rows', r \notin rows
            PROVE  client[c].lastSequence < r.sequence /\ Coming(s, r.sequence)'
        <4>1. r.sequence = x /\ x = last + 1
          BY <1>1, <3>3
        <4>2. client[c].lastSequence <= last
          BY DEF DeliveryInv
        <4>3. \A j \in 1..Len(wire[s]) : wire'[s][j] < x
          BY SMTT(60), <1>1, <1>4, <1>5, <3>1, <4>1 DEF DeliveryInv
        <4>4. PICK k \in 1..Len(wire'[s]) : wire'[s][k] = x /\ 1..(k - 1) = 1..Len(wire[s])
          BY <1>4, <1>5, <3>1
        <4>5. Coming(s, x)'
          BY <4>3, <4>4 DEF Coming
        <4> QED
          BY <1>1, <2>a, <4>1, <4>2, <4>5
      <3>5. lastEventSequence' >= lastEventSequence /\ lastEventSequence' \in Nat
            /\ handler[s].since \in Nat
        BY <1>1, <1>4 DEF Handler
      <3>7. Follows(c, s)'
        BY <1>1, <2>0, <2>2, <3>2, <3>3, <3>5, FollowsKept
      <3> QED
        BY <2>0, <2>2, <3>7
    <2> QED
      BY <2>1, <2>2
  <1>10. \A c \in Clients : client'[c].socket # None => Follows(c, client[c].socket)'
    BY <1>9
  <1> QED
    BY <1>6, <1>7, <1>8, <1>10 DEF DeliveryInv

\* What handler s has sent and has promised stays as it was.
Steady(s) ==
    /\ handler'[s].client = handler[s].client /\ handler'[s].after = handler[s].after
    /\ handler'[s].replayed = handler[s].replayed /\ handler'[s].since = handler[s].since
    /\ handler'[s].pc # "idle" /\ (Replayed(s)' <=> Replayed(s))
    /\ wire'[s] = wire[s]

\* Steps that send nothing: a client either stays with a steady handler or is
\* without a socket.
LEMMA DeliveryQuiet ==
    ASSUME LogInv, TypeOK, DeliveryInv, UNCHANGED <<rows, lastEventSequence>>,
           \A s \in Sockets : /\ wire'[s] \in {<<>>, wire[s]}
                              /\ ~Replayed(s)' => wire'[s] = <<>>,
           \A c \in Clients : client'[c].lastSequence <= lastEventSequence,
           \A c \in Clients : client'[c].socket # None =>
              /\ client'[c].socket = client[c].socket
              /\ client'[c].lastSequence = client[c].lastSequence
              /\ client'[c].seen = client[c].seen
              /\ Steady(client[c].socket)
    PROVE  DeliveryInv'
  <1>1. lastEventSequence \in Nat
    BY DEF LogInv
  <1>2. ASSUME NEW s \in Sockets, NEW k \in 1..Len(wire'[s])
        PROVE  wire'[s][k] <= lastEventSequence'
    <2>1. wire'[s] # <<>>
      BY <1>2
    <2> QED
      BY <1>2, <2>1 DEF DeliveryInv
  <1>3. ASSUME NEW c \in Clients, client'[c].socket # None
        PROVE  Follows(c, client[c].socket)'
    <2>1. PICK s \in Sockets : s = client[c].socket /\ Follows(c, s)
      BY <1>3 DEF DeliveryInv, TypeOK, Client
    <2>2. Steady(s) /\ client'[c].socket = s
      BY <1>3, <2>1
    <2>3. handler[s].since \in Nat
      BY DEF TypeOK, Handler
    <2>4. \A n : Coming(s, n) => Coming(s, n)'
      BY <2>2 DEF Coming, Steady
    <2>5. Follows(c, s)'
      BY SMTT(60), <1>1, <1>3, <2>1, <2>2, <2>3, <2>4, FollowsKept DEF Steady
    <2> QED
      BY <2>2, <2>5
  <1> QED
    BY <1>2, <1>3 DEF DeliveryInv

\* A client that is attached to a handler is the one that handler serves.
LEMMA ClientAttached ==
    ASSUME DeliveryInv, NEW c \in Clients, NEW s \in Sockets, client[c].socket = s
    PROVE  /\ Follows(c, s) /\ handler[s].client = c /\ Attached(s)
           /\ handler[s].pc # "idle"
  <1>1. s # None /\ c # None
    BY EventLogAssumption
  <1>2. Follows(c, s)
    BY <1>1 DEF DeliveryInv
  <1> QED
    BY <1>1, <1>2 DEF Follows, Attached

\* Detached leaves nobody attached to s and touches nobody else.
LEMMA NobodyLeft ==
    ASSUME TypeOK, DeliveryInv, NEW s \in Sockets, client' = Detached(s)
    PROVE  \A c \in Clients :
             /\ client'[c].lastSequence = client[c].lastSequence
             /\ client'[c].seen = client[c].seen
             /\ client'[c].socket # None =>
                  client'[c].socket = client[c].socket /\ client[c].socket \in Sockets \ {s}
  <1> SUFFICES ASSUME NEW c \in Clients
               PROVE  /\ client'[c].lastSequence = client[c].lastSequence
                      /\ client'[c].seen = client[c].seen
                      /\ client'[c].socket # None =>
                           client'[c].socket = client[c].socket /\ client[c].socket \in Sockets \ {s}
    OBVIOUS
  <1>1. client \in [Clients -> Client] /\ client[c].socket \in Sockets \cup {None}
    BY DEF TypeOK, Client
  <1>2. CASE client[c].socket = s
    <2>1. Attached(s) /\ handler[s].client = c
      BY <1>2, ClientAttached
    <2>2. client' = [client EXCEPT ![c].socket = None]
      BY <2>1 DEF Detached
    <2> QED
      BY <1>1, <2>2 DEF Client
  <1>3. CASE client[c].socket # s
    <2>1. client'[c] = client[c]
      BY <1>1, <1>3 DEF Detached, Attached
    <2> QED
      BY <1>1, <1>3, <2>1
  <1> QED
    BY <1>2, <1>3

LEMMA SteadySame ==
    ASSUME TypeOK, NEW s \in Sockets, handler'[s] = handler[s], wire'[s] = wire[s],
           handler[s].pc # "idle"
    PROVE  Steady(s)
  BY DEF Steady, Replayed

\* The page is the rest of the log after the cursor, or its beginning.
LEMMA DeliveryReplayed ==
    ASSUME LogInv, TypeOK, DeliveryInv, NEW s \in Sockets, ReplayEvents(s)
    PROVE  DeliveryInv'
  <1> DEFINE last == lastEventSequence
  <1>1. PICK after : after = handler[s].after
    OBVIOUS
  <1>2. PICK page : page = Replay(after)
    OBVIOUS
  <1>3. /\ handler \in [Sockets -> Handler] /\ client \in [Clients -> Client]
        /\ last \in Nat /\ after \in Nat /\ DOMAIN handler = Sockets
    BY <1>1 DEF TypeOK, Handler
  <1>4. page \in Seq(Nat) /\ Len(page) \in Nat
    BY <1>2, <1>3, ReplayType
  <1>5. \A i \in 1..Len(page) : page[i] = after + i
    <2>1. CASE after >= last
      BY <1>2, <2>1 DEF Replay
    <2>2. CASE ~(after >= last)
      <3> DEFINE upTo == IF last - after <= ReplayLimit THEN last ELSE after + ReplayLimit
      <3>1. page = [i \in 1..(upTo - after) |-> after + i] /\ upTo - after \in Nat
        BY <1>2, <1>3, <2>2, EventLogAssumption DEF Replay
      <3>2. Len(page) = upTo - after
        BY <1>4, <3>1, LenProperties
      <3> QED
        BY <3>1, <3>2
    <2> QED
      BY <2>1, <2>2
  <1>6. Len(page) = IF after >= last THEN 0
                    ELSE IF last - after <= ReplayLimit THEN last - after ELSE ReplayLimit
    <2>1. CASE after >= last
      BY <1>2, <2>1 DEF Replay
    <2>2. CASE ~(after >= last)
      <3> DEFINE upTo == IF last - after <= ReplayLimit THEN last ELSE after + ReplayLimit
      <3>1. page = [i \in 1..(upTo - after) |-> after + i] /\ upTo - after \in Nat
        BY <1>2, <1>3, <2>2, EventLogAssumption DEF Replay
      <3>2. Len(page) = upTo - after
        BY <1>4, <3>1, LenProperties
      <3> QED
        BY <1>3, <2>2, <3>2, EventLogAssumption
    <2> QED
      BY <2>1, <2>2
  <1>7. after + Len(page) <= last \/ after > last
    BY <1>3, <1>6, EventLogAssumption
  <1>8. /\ handler'[s].pc = "state" /\ handler'[s].since = last
        /\ handler'[s].replayed = after + Len(page)
        /\ handler'[s].client = handler[s].client /\ handler'[s].after = after
        /\ \A t \in Sockets \ {s} : handler'[t] = handler[t]
    BY <1>1, <1>2, <1>3 DEF ReplayEvents, Handler
  <1>9. handler[s].pc = "replay" /\ Send(s, page) /\ UNCHANGED <<rows, lastEventSequence, client>>
    BY <1>1, <1>2 DEF ReplayEvents
  <1>10. /\ \A t \in Sockets \ {s} : wire'[t] = wire[t]
         /\ Attached(s) => wire'[s] = page
         /\ ~Attached(s) => wire'[s] = <<>>
    <2>1. wire[s] = <<>>
      BY <1>9 DEF DeliveryInv, Replayed
    <2>2. <<>> \o page = page
      BY <1>4, ConcatEmptySeq
    <2> QED
      BY <1>4, <1>9, <2>1, <2>2, Sent
  <1>11. ASSUME NEW c \in Clients, client[c].socket = s PROVE after <= last /\ client[c].lastSequence = after
    BY <1>1, <1>9, <1>11, ClientAttached DEF DeliveryInv, Follows, Replayed
  <1>12. ASSUME NEW t \in Sockets, NEW k \in 1..Len(wire'[t]) PROVE wire'[t][k] <= last
    <2>1. CASE t # s
      BY <1>10, <2>1 DEF DeliveryInv
    <2>2. CASE t = s /\ Attached(s)
      <3>1. k \in 1..Len(page) /\ wire'[t][k] = after + k
        BY <1>5, <1>10, <2>2
      <3>2. after <= last
        BY <1>11, <2>2 DEF Attached, TypeOK, Handler
      <3> QED
        BY <1>3, <1>4, <1>7, <3>1, <3>2
    <2>3. CASE t = s /\ ~Attached(s)
      BY <1>10, <2>3
    <2> QED
      BY <2>1, <2>2, <2>3
  <1>13. \A t \in Sockets : ~Replayed(t)' => wire'[t] = <<>>
    BY <1>8, <1>10 DEF DeliveryInv, Replayed
  <1>14. ASSUME NEW c \in Clients, client[c].socket # None
         PROVE  Follows(c, client[c].socket)'
    <2>1. PICK t \in Sockets : t = client[c].socket /\ Follows(c, t)
      BY <1>14 DEF DeliveryInv, TypeOK, Client
    <2>2. CASE t # s
      <3>1. Steady(t)
        BY <1>8, <1>10, <2>1, <2>2, SteadySame DEF Follows
      <3>2. handler[t].since \in Nat
        BY DEF TypeOK, Handler
      <3>3. \A n : Coming(t, n) => Coming(t, n)'
        BY <3>1 DEF Coming, Steady
      <3>4. Follows(c, t)'
        BY <1>3, <1>9, <2>1, <3>1, <3>2, <3>3, FollowsKept DEF Steady
      <3> QED
        BY <1>9, <2>1, <3>4
    <2>3. CASE t = s
      <3>1. /\ after <= last /\ client[c].lastSequence = after /\ Attached(s)
            /\ handler[s].client = c
        BY <1>11, <2>1, <2>3, ClientAttached
      <3>2. wire'[s] = page
        BY <1>10, <3>1
      <3>3. after + Len(page) <= last
        BY <1>3, <1>7, <3>1
      <3>4. ASSUME NEW r \in rows, Owed(s, r)'
            PROVE  client[c].lastSequence < r.sequence /\ Coming(s, r.sequence)'
        <4>1. r.sequence \in 1..last
          BY DEF LogInv, LogIsDense
        <4>2. r.sequence > after /\ r.sequence <= after + Len(page)
          BY <1>8, <1>3, <3>4, <4>1 DEF Owed
        <4>3. PICK k \in 1..Len(page) : r.sequence = after + k
          <5>1. r.sequence - after \in 1..Len(page) /\ r.sequence = after + (r.sequence - after)
            BY <1>3, <1>4, <4>1, <4>2
          <5> QED
            BY <5>1
        <4>4. page[k] = r.sequence
          BY <1>5, <4>3
        <4>5. \A j \in 1..(k - 1) : page[j] < r.sequence
          BY <1>3, <1>4, <1>5, <4>3
        <4> QED
          BY <3>1, <3>2, <4>2, <4>4, <4>5 DEF Coming
      <3>5. Follows(c, s)'
        BY <1>3, <1>8, <1>9, <3>1, <3>3, <3>4 DEF Follows, Replayed
      <3> QED
        BY <1>9, <2>1, <2>3, <3>5
    <2> QED
      BY <2>2, <2>3
  <1> QED
    BY <1>9, <1>12, <1>13, <1>14 DEF DeliveryInv

\* An answer that is stored already is sent back with its old sequence.
LEMMA DeliveryResent ==
    ASSUME LogInv, TypeOK, DeliveryInv, NEW s \in Sockets, Receive(s),
           RowsOf(handler[s].inbox) # {}
    PROVE  DeliveryInv'
  <1>1. PICK e : e = handler[s].inbox
    OBVIOUS
  <1>2. /\ Replayed(s) /\ Send(s, <<AppendedSequence(e)>>)
        /\ UNCHANGED <<rows, lastEventSequence, client>>
        /\ handler' = [handler EXCEPT ![s].inbox = None]
    BY <1>1 DEF Receive, Replayed
  <1>3. AppendEvent(s, "input.ack", e)
    BY <1>1, <1>2 DEF AppendEvent
  <1>4. /\ DOMAIN handler' = Sockets
        /\ \A t \in Sockets \ {s} : handler'[t] = handler[t]
        /\ handler'[s].client = handler[s].client /\ handler'[s].after = handler[s].after
        /\ handler'[s].replayed = handler[s].replayed /\ handler'[s].since = handler[s].since
        /\ handler'[s].pc = handler[s].pc
    BY <1>2 DEF TypeOK, Handler
  <1>5. Replayed(s)' /\ handler'[s].pc # "idle"
    BY <1>2, <1>4 DEF Replayed
  <1> QED
    BY <1>2, <1>3, <1>4, <1>5, DeliveryAppended

\* The events a handler stores.
LEMMA DeliveryStored ==
    ASSUME LogInv, TypeOK, DeliveryInv, NEW s \in Sockets,
           SendState(s) \/ Acknowledge(s) \/ PublishTurn(s)
    PROVE  DeliveryInv'
  <1>1. PICK type, e : AppendEvent(s, type, e) /\ Send(s, <<AppendedSequence(e)>>)
    BY DEF SendState, Acknowledge, PublishTurn
  <1>2. UNCHANGED client /\ Replayed(s)
    BY DEF SendState, Acknowledge, PublishTurn, Replayed
  <1>3. /\ DOMAIN handler' = Sockets
        /\ \A t \in Sockets \ {s} : handler'[t] = handler[t]
        /\ handler'[s].client = handler[s].client /\ handler'[s].after = handler[s].after
        /\ handler'[s].replayed = handler[s].replayed /\ handler'[s].since = handler[s].since
        /\ handler'[s].pc \in {"ready", "turn"}
    BY DEF SendState, Acknowledge, PublishTurn, Goto, TypeOK, Handler
  <1>4. Replayed(s)' /\ handler'[s].pc # "idle"
    BY <1>3 DEF Replayed
  <1> QED
    BY <1>1, <1>2, <1>3, <1>4, DeliveryAppended

LEMMA DeliveryHandler ==
    ASSUME LogInv, TypeOK, DeliveryInv, NEW s \in Sockets, HandlerStep(s)
    PROVE  DeliveryInv'
  <1>0. /\ handler \in [Sockets -> Handler] /\ client \in [Clients -> Client]
        /\ wire \in [Sockets -> Seq(Nat)]
    BY DEF TypeOK
  <1>1. CASE Connect(s) /\ AtCapacity
    <2>1. /\ handler' = [handler EXCEPT ![s] = IdleHandler] /\ client' = Detached(s)
          /\ UNCHANGED <<rows, lastEventSequence, wire>> /\ handler[s].pc = "connect"
      BY <1>1 DEF Connect
    <2>2. \A t \in Sockets : wire'[t] = wire[t] /\ (~Replayed(t)' => wire'[t] = <<>>)
      BY <1>0, <2>1 DEF DeliveryInv, Replayed
    <2>3. \A t \in Sockets \ {s} : handler'[t] = handler[t]
      BY <1>0, <2>1
    <2>4. ASSUME NEW c \in Clients, client'[c].socket # None
          PROVE  /\ client'[c].socket = client[c].socket
                 /\ client'[c].lastSequence = client[c].lastSequence
                 /\ client'[c].seen = client[c].seen
                 /\ Steady(client[c].socket)
      <3>1. /\ client'[c].socket = client[c].socket /\ client[c].socket \in Sockets \ {s}
            /\ client'[c].lastSequence = client[c].lastSequence
            /\ client'[c].seen = client[c].seen
        BY <2>1, <2>4, NobodyLeft
      <3> QED
        BY <2>2, <2>3, <3>1, ClientAttached, SteadySame
    <2>5. \A c \in Clients : client'[c].lastSequence <= lastEventSequence
      BY <2>1, NobodyLeft DEF DeliveryInv
    <2> QED
      BY <2>1, <2>2, <2>4, <2>5, DeliveryQuiet
  <1>2. CASE Connect(s) /\ ~AtCapacity
    <2>1. /\ UNCHANGED <<rows, lastEventSequence, wire, client>> /\ handler[s].pc = "connect"
          /\ \A t \in Sockets \ {s} : handler'[t] = handler[t]
          /\ handler'[s].pc = "replay" /\ handler'[s].client = handler[s].client
          /\ handler'[s].after = handler[s].after
          /\ handler'[s].replayed = handler[s].replayed /\ handler'[s].since = handler[s].since
      BY <1>0, <1>2 DEF Connect, Handler
    <2>2. \A t \in Sockets : wire'[t] = wire[t] /\ (~Replayed(t)' => wire'[t] = <<>>)
      BY <2>1 DEF DeliveryInv, Replayed
    <2>3. Steady(s)
      BY <2>1 DEF Steady, Replayed
    <2>4. ASSUME NEW c \in Clients, client[c].socket # None PROVE Steady(client[c].socket)
      <3>1. client[c].socket \in Sockets
        BY <1>0, <2>4 DEF Client
      <3> QED
        BY <2>1, <2>2, <2>3, <3>1, ClientAttached, SteadySame
    <2> QED
      BY <2>1, <2>2, <2>4, DeliveryQuiet DEF DeliveryInv
  <1>3. CASE Receive(s) /\ RowsOf(handler[s].inbox) = {}
    <2>1. /\ UNCHANGED <<rows, lastEventSequence, wire, client>> /\ handler[s].pc = "ready"
          /\ \A t \in Sockets \ {s} : handler'[t] = handler[t]
          /\ handler'[s].pc = "append" /\ handler'[s].client = handler[s].client
          /\ handler'[s].after = handler[s].after
          /\ handler'[s].replayed = handler[s].replayed /\ handler'[s].since = handler[s].since
      BY <1>0, <1>3 DEF Receive, Handler
    <2>2. \A t \in Sockets : wire'[t] = wire[t] /\ (~Replayed(t)' => wire'[t] = <<>>)
      BY <2>1 DEF DeliveryInv, Replayed
    <2>3. Steady(s)
      BY <2>1 DEF Steady, Replayed
    <2>4. ASSUME NEW c \in Clients, client[c].socket # None PROVE Steady(client[c].socket)
      <3>1. client[c].socket \in Sockets
        BY <1>0, <2>4 DEF Client
      <3> QED
        BY <2>1, <2>2, <2>3, <3>1, ClientAttached, SteadySame
    <2> QED
      BY <2>1, <2>2, <2>4, DeliveryQuiet DEF DeliveryInv
  <1>4. CASE HandlerEnds(s)
    <2>1. /\ handler' = [handler EXCEPT ![s] = IdleHandler] /\ client' = Detached(s)
          /\ UNCHANGED <<rows, lastEventSequence>> /\ wire' = [wire EXCEPT ![s] = <<>>]
      BY <1>4 DEF HandlerEnds
    <2>2. /\ \A t \in Sockets \ {s} : wire'[t] = wire[t] /\ handler'[t] = handler[t]
          /\ wire'[s] = <<>>
      BY <1>0, <2>1
    <2>3. \A t \in Sockets : ~Replayed(t)' => wire'[t] = <<>>
      BY <2>2 DEF DeliveryInv, Replayed
    <2>4. ASSUME NEW c \in Clients, client'[c].socket # None
          PROVE  /\ client'[c].socket = client[c].socket
                 /\ client'[c].lastSequence = client[c].lastSequence
                 /\ client'[c].seen = client[c].seen
                 /\ Steady(client[c].socket)
      <3>1. /\ client'[c].socket = client[c].socket /\ client[c].socket \in Sockets \ {s}
            /\ client'[c].lastSequence = client[c].lastSequence
            /\ client'[c].seen = client[c].seen
        BY <2>1, <2>4, NobodyLeft
      <3> QED
        BY <2>2, <3>1, ClientAttached, SteadySame
    <2>5. \A c \in Clients : client'[c].lastSequence <= lastEventSequence
      BY <2>1, NobodyLeft DEF DeliveryInv
    <2> QED
      BY <2>1, <2>2, <2>3, <2>4, <2>5, DeliveryQuiet
  <1> QED
    BY <1>1, <1>2, <1>3, <1>4, DeliveryReplayed, DeliveryStored, DeliveryResent DEF HandlerStep

\* A new socket starts where the cursor is.
LEMMA DeliveryOpened ==
    ASSUME LogInv, TypeOK, DeliveryInv, NEW c \in Clients, NEW s \in Sockets, Open(c, s)
    PROVE  DeliveryInv'
  <1> DEFINE opened == [IdleHandler EXCEPT !.pc = "connect", !.client = c,
                                           !.after = client[c].lastSequence]
  <1>0. /\ handler \in [Sockets -> Handler] /\ client \in [Clients -> Client]
        /\ wire \in [Sockets -> Seq(Nat)] /\ lastEventSequence \in Nat
    BY DEF TypeOK
  <1>1. opened.pc = "connect" /\ opened.client = c /\ opened.after = client[c].lastSequence
    BY DEF IdleHandler
  <1>2. /\ handler' = [handler EXCEPT ![s] = opened] /\ handler[s].pc = "idle"
        /\ client' = [client EXCEPT ![c].socket = s] /\ client[c].socket = None
        /\ UNCHANGED <<rows, lastEventSequence, wire>>
    BY DEF Open
  <1> HIDE DEF opened
  <1>3. /\ \A t \in Sockets \ {s} : handler'[t] = handler[t]
        /\ handler'[s].pc = "connect" /\ handler'[s].client = c
        /\ handler'[s].after = client[c].lastSequence
        /\ client'[c].socket = s /\ client'[c].lastSequence = client[c].lastSequence
        /\ \A d \in Clients \ {c} : client'[d] = client[d]
    BY <1>0, <1>1, <1>2 DEF Client
  <1>4. \A t \in Sockets : ~Replayed(t)' => wire'[t] = <<>>
    BY <1>2, <1>3 DEF DeliveryInv, Replayed
  <1>5. Follows(c, s)'
    BY <1>3 DEF Follows, Replayed
  <1>6. ASSUME NEW d \in Clients \ {c}, client[d].socket # None
        PROVE  Follows(d, client[d].socket)'
    <2>1. PICK t \in Sockets : t = client[d].socket /\ Follows(d, t)
      BY <1>6 DEF DeliveryInv, TypeOK, Client
    <2>2. t # s
      BY <1>2, <2>1 DEF Follows
    <2>3. Steady(t)
      BY <1>2, <1>3, <2>1, <2>2, SteadySame DEF Follows
    <2>4. handler[t].since \in Nat
      BY <1>0 DEF Handler
    <2>5. \A n : Coming(t, n) => Coming(t, n)'
      BY <2>3 DEF Coming, Steady
    <2>6. client'[d].lastSequence = client[d].lastSequence /\ client'[d].seen = client[d].seen
      BY <1>3
    <2>7. UNCHANGED <<rows, lastEventSequence>> /\ lastEventSequence \in Nat
      BY <1>0, <1>2
    <2>8. Follows(d, t)'
      BY <2>1, <2>3, <2>4, <2>5, <2>6, <2>7, FollowsKept DEF Steady
    <2> QED
      BY <1>3, <2>1, <2>8
  <1>7. \A d \in Clients : client'[d].socket # None => Follows(d, client[d].socket)'
    BY <1>3, <1>5, <1>6
  <1>8. \A d \in Clients : client'[d].lastSequence <= lastEventSequence
    BY <1>3 DEF DeliveryInv
  <1> QED
    BY <1>2, <1>4, <1>7, <1>8 DEF DeliveryInv

\* The cursor moves past a row only when the row itself has come.
LEMMA DeliveryDelivered ==
    ASSUME LogInv, TypeOK, DeliveryInv, NEW c \in Clients, Deliver(c)
    PROVE  DeliveryInv'
  <1>0. /\ handler \in [Sockets -> Handler] /\ client \in [Clients -> Client]
        /\ wire \in [Sockets -> Seq(Nat)] /\ lastEventSequence \in Nat
    BY DEF TypeOK
  <1>1. PICK s \in Sockets : s = client[c].socket /\ wire[s] # <<>>
    BY <1>0 DEF Deliver, Client
  <1>2. PICK x \in Nat, rest \in Seq(Nat) : x = Head(wire[s]) /\ rest = Tail(wire[s])
    BY <1>0, <1>1, HeadTailProperties
  <1>3. /\ x = wire[s][1] /\ Len(rest) + 1 = Len(wire[s]) /\ Len(rest) \in Nat
        /\ \A k \in 1..Len(rest) : rest[k] = wire[s][k + 1]
    BY <1>0, <1>1, <1>2, HeadTailProperties, LenProperties
  <1>4. /\ UNCHANGED <<rows, lastEventSequence, handler>>
        /\ wire' = [wire EXCEPT ![s] = rest]
    BY <1>1, <1>2 DEF Deliver
  <1>5. PICK cursor \in Nat :
          /\ cursor = IF x > client[c].lastSequence THEN x ELSE client[c].lastSequence
          /\ client'[c].lastSequence = cursor
          /\ client'[c].seen = client[c].seen \cup {x}
          /\ client'[c].socket = s
          /\ \A d \in Clients \ {c} : client'[d] = client[d]
    BY <1>0, <1>1, <1>2 DEF Deliver, Client
  <1>6. /\ wire'[s] = rest /\ \A t \in Sockets \ {s} : wire'[t] = wire[t]
    BY <1>0, <1>4
  <1>7. \A k \in 1..Len(wire[s]) : wire[s][k] <= lastEventSequence
    BY DEF DeliveryInv
  <1>8. x <= lastEventSequence /\ cursor <= lastEventSequence
    BY <1>3, <1>5, <1>7 DEF DeliveryInv
  <1>9. ASSUME NEW t \in Sockets, NEW k \in 1..Len(wire'[t])
        PROVE  wire'[t][k] <= lastEventSequence
    <2>1. CASE t = s
      <3>1. k \in 1..Len(rest) /\ k + 1 \in 1..Len(wire[s])
        BY <1>3, <1>6, <2>1
      <3> QED
        BY <1>3, <1>6, <1>7, <2>1, <3>1
    <2>2. CASE t # s
      BY <1>6, <2>2 DEF DeliveryInv
    <2> QED
      BY <2>1, <2>2
  <1>10. \A t \in Sockets : ~Replayed(t)' => wire'[t] = <<>>
    BY <1>1, <1>4, <1>6 DEF DeliveryInv, Replayed
  <1>11. Follows(c, s)'
    <2>1. Follows(c, s)
      BY <1>1, ClientAttached
    <2>2. Replayed(s)
      BY <1>1 DEF DeliveryInv
    <2>3. ASSUME NEW r \in rows, Owed(s, r), r.sequence \notin client'[c].seen
          PROVE  cursor < r.sequence /\ Coming(s, r.sequence)'
      <3>1. client[c].lastSequence < r.sequence /\ Coming(s, r.sequence) /\ x # r.sequence
        BY <1>5, <2>1, <2>2, <2>3 DEF Follows
      <3>2. PICK k \in 1..Len(wire[s]) :
              wire[s][k] = r.sequence /\ \A j \in 1..(k - 1) : wire[s][j] < r.sequence
        BY <3>1 DEF Coming
      <3>3. k # 1 /\ k - 1 \in 1..Len(rest)
        BY <1>3, <3>1, <3>2
      <3>4. x < r.sequence
        <4>1. 1 \in 1..(k - 1)
          BY <1>3, <3>3
        <4> QED
          BY <1>3, <3>2, <4>1
      <3>5. rest[k - 1] = r.sequence
        BY <1>3, <3>2, <3>3
      <3>6. \A j \in 1..((k - 1) - 1) : rest[j] < r.sequence
        <4> SUFFICES ASSUME NEW j \in 1..((k - 1) - 1) PROVE rest[j] < r.sequence
          OBVIOUS
        <4>1. j \in 1..Len(rest) /\ j + 1 \in 1..(k - 1)
          BY <1>3, <3>3
        <4> QED
          BY <1>3, <3>2, <4>1
      <3>7. Coming(s, r.sequence)'
        BY <1>4, <1>6, <3>3, <3>5, <3>6 DEF Coming
      <3> QED
        BY <1>5, <3>1, <3>4, <3>7
    <2>4. \A r \in rows' : Owed(s, r)' => r \in rows /\ Owed(s, r)
      BY <1>4 DEF Owed
    <2> QED
      BY <1>4, <1>5, <2>1, <2>2, <2>3, <2>4 DEF Follows, Replayed
  <1>12. ASSUME NEW d \in Clients \ {c}, client[d].socket # None
         PROVE  Follows(d, client[d].socket)'
    <2>1. PICK t \in Sockets : t = client[d].socket /\ Follows(d, t)
      BY <1>12 DEF DeliveryInv, TypeOK, Client
    <2>2. t # s
      <3>1. handler[s].client = c
        BY <1>1, ClientAttached
      <3> QED
        BY <2>1, <3>1 DEF Follows
    <2>3. Steady(t)
      BY <1>4, <1>6, <2>1, <2>2, SteadySame DEF Follows
    <2>4. handler[t].since \in Nat
      BY <1>0 DEF Handler
    <2>5. \A n : Coming(t, n) => Coming(t, n)'
      BY <2>3 DEF Coming, Steady
    <2>6. client'[d].lastSequence = client[d].lastSequence /\ client'[d].seen = client[d].seen
      BY <1>5
    <2>7. Follows(d, t)'
      BY <1>0, <1>4, <2>1, <2>3, <2>4, <2>5, <2>6, FollowsKept DEF Steady
    <2> QED
      BY <1>5, <2>1, <2>7
  <1>13. \A d \in Clients : client'[d].socket # None => Follows(d, client[d].socket)'
    BY <1>1, <1>5, <1>11, <1>12
  <1>14. \A d \in Clients : client'[d].lastSequence <= lastEventSequence
    BY <1>5, <1>8 DEF DeliveryInv
  <1> QED
    BY <1>4, <1>9, <1>10, <1>13, <1>14 DEF DeliveryInv

LEMMA DeliveryClient ==
    ASSUME LogInv, TypeOK, DeliveryInv, NEW c \in Clients, ClientStep(c)
    PROVE  DeliveryInv'
  <1>0. /\ handler \in [Sockets -> Handler] /\ client \in [Clients -> Client]
        /\ wire \in [Sockets -> Seq(Nat)] /\ lastEventSequence \in Nat
    BY DEF TypeOK
  <1>1. ASSUME NEW e \in ClientEvents, Submit(c, e) PROVE DeliveryInv'
    <2>1. PICK s \in Sockets : s = client[c].socket
      BY <1>1 DEF Submit, TypeOK
    <2>2. /\ UNCHANGED <<rows, lastEventSequence, wire>>
          /\ \A d \in Clients : /\ client'[d].socket = client[d].socket
                                /\ client'[d].lastSequence = client[d].lastSequence
                                /\ client'[d].seen = client[d].seen
          /\ \A t \in Sockets :
               /\ handler'[t].pc = handler[t].pc /\ handler'[t].client = handler[t].client
               /\ handler'[t].after = handler[t].after
               /\ handler'[t].replayed = handler[t].replayed
               /\ handler'[t].since = handler[t].since
      BY <1>0, <1>1, <2>1 DEF Submit, Handler, Client
    <2>3. \A t \in Sockets : handler[t].pc # "idle" => Steady(t)
      BY <2>2 DEF Steady, Replayed
    <2>4. \A t \in Sockets : wire'[t] = wire[t] /\ (~Replayed(t)' => wire'[t] = <<>>)
      BY <2>2 DEF DeliveryInv, Replayed
    <2>5. ASSUME NEW d \in Clients, client[d].socket # None PROVE Steady(client[d].socket)
      <3>1. client[d].socket \in Sockets
        BY <1>0, <2>5 DEF Client
      <3> QED
        BY <2>3, <3>1, ClientAttached
    <2> QED
      BY <2>2, <2>4, <2>5, DeliveryQuiet DEF DeliveryInv
  <1>2. CASE Lose(c)
    <2>1. PICK s \in Sockets : s = client[c].socket
      BY <1>0, <1>2 DEF Lose, Client
    <2>2. /\ UNCHANGED <<rows, lastEventSequence>>
          /\ client'[c].socket = None /\ client'[c].lastSequence = client[c].lastSequence
          /\ \A d \in Clients \ {c} : client'[d] = client[d]
          /\ wire'[s] = <<>> /\ \A t \in Sockets \ {s} : wire'[t] = wire[t]
          /\ handler'[s].pc = handler[s].pc
          /\ \A t \in Sockets \ {s} : handler'[t] = handler[t]
      BY <1>0, <1>2, <2>1 DEF Lose, Handler, Client
    <2>3. \A t \in Sockets : wire'[t] \in {<<>>, wire[t]} /\ (~Replayed(t)' => wire'[t] = <<>>)
      BY <2>2 DEF DeliveryInv, Replayed
    <2>4. ASSUME NEW d \in Clients, client'[d].socket # None
          PROVE  client'[d] = client[d] /\ Steady(client[d].socket)
      <3>1. client'[d] = client[d] /\ client[d].socket \in Sockets /\ d # c
        BY <1>0, <2>2, <2>4 DEF Client
      <3>2. client[d].socket # s
        BY <2>1, <3>1, ClientAttached
      <3> QED
        BY <2>2, <3>1, <3>2, ClientAttached, SteadySame
    <2>5. \A d \in Clients : client'[d].lastSequence <= lastEventSequence
      BY <2>2 DEF DeliveryInv
    <2> QED
      BY <2>2, <2>3, <2>4, <2>5, DeliveryQuiet
  <1>3. CASE Reload(c)
    <2>1. /\ UNCHANGED <<rows, lastEventSequence, handler, wire>>
          /\ client'[c].socket = None /\ client'[c].lastSequence = lastEventSequence
          /\ \A d \in Clients \ {c} : client'[d] = client[d]
      BY <1>0, <1>3 DEF Reload
    <2>2. \A t \in Sockets : wire'[t] = wire[t] /\ (~Replayed(t)' => wire'[t] = <<>>)
      BY <2>1 DEF DeliveryInv, Replayed
    <2>3. ASSUME NEW d \in Clients, client'[d].socket # None
          PROVE  client'[d] = client[d] /\ Steady(client[d].socket)
      <3>1. client'[d] = client[d] /\ client[d].socket \in Sockets
        BY <1>0, <2>1, <2>3 DEF Client
      <3> QED
        BY <2>1, <3>1, ClientAttached, SteadySame
    <2>4. \A d \in Clients : client'[d].lastSequence <= lastEventSequence
      BY <1>0, <2>1 DEF DeliveryInv
    <2> QED
      BY <2>1, <2>2, <2>3, <2>4, DeliveryQuiet
  <1> QED
    BY <1>1, <1>2, <1>3, DeliveryOpened, DeliveryDelivered DEF ClientStep

LEMMA DeliveryStep == LogInv /\ TableInv /\ DeliveryInv /\ [Next]_vars => DeliveryInv'
  <1> SUFFICES ASSUME LogInv, TypeOK, DeliveryInv, [Next]_vars PROVE DeliveryInv'
    BY DEF TableInv
  <1>1. CASE Restart
    <2>1. /\ UNCHANGED <<rows, lastEventSequence>>
          /\ \A s \in Sockets : wire'[s] = <<>>
          /\ \A c \in Clients : /\ client'[c].socket = None
                                /\ client'[c].lastSequence = client[c].lastSequence
      BY <1>1 DEF Restart, TypeOK, Client
    <2> QED
      BY <2>1, DeliveryQuiet DEF DeliveryInv
  <1>2. CASE UNCHANGED vars
    <2>1. /\ UNCHANGED <<rows, lastEventSequence, wire, handler, client>>
      BY <1>2 DEF vars
    <2>2. \A t \in Sockets : wire'[t] = wire[t] /\ (~Replayed(t)' => wire'[t] = <<>>)
      BY <2>1 DEF DeliveryInv, Replayed
    <2>3. ASSUME NEW d \in Clients, client[d].socket # None PROVE Steady(client[d].socket)
      <3>1. client[d].socket \in Sockets
        BY <2>3 DEF Client, TypeOK
      <3> QED
        BY <2>1, <3>1, ClientAttached, SteadySame
    <2> QED
      BY <2>1, <2>2, <2>3, DeliveryQuiet DEF DeliveryInv
  <1> QED
    BY <1>1, <1>2, DeliveryHandler, DeliveryClient DEF Next

LEMMA DeliveryInvariance == Spec => []DeliveryInv
  <1>1. Init => DeliveryInv
    BY DEF Init, DeliveryInv
  <1> QED
    BY <1>1, DeliveryStep, LogInvariance, TableInvariance, PTL DEF Spec

-----------------------------------------------------------------------------
(* The theorems *)

\* Every variable of the event log and its connections keeps its type.
THEOREM EventLogTypeOK == Spec => []TypeOK
  <1>1. TableInv => TypeOK
    BY DEF TableInv
  <1> QED
    BY <1>1, TableInvariance, PTL

\* However many handlers store events, the rows of a session are numbered
\* 1, 2, 3, ... without a gap or a repeat (event_store.append_event).
THEOREM LogAlwaysDense == Spec => []LogIsDense
  <1>1. LogInv => LogIsDense
    BY DEF LogInv
  <1> QED
    BY <1>1, LogInvariance, PTL

\* However often and over however many handlers an answer is resent, its event
\* id is stored once (the lookup under the row lock of append_event).
THEOREM ClientEventsOnce == Spec => []ClientEventStoredOnce
  <1>1. LogInv => ClientEventStoredOnce
    BY DEF LogInv
  <1> QED
    BY <1>1, LogInvariance, PTL

\* For every cap, the connection table is the set of running handlers and stays
\* within the cap (ConnectionManager.connect and disconnect).
THEOREM ConnectionsAlwaysTracked == Spec => []ConnectionsTracked
  <1>1. TableInv => ConnectionsTracked
    BY DEF TableInv
  <1> QED
    BY <1>1, TableInvariance, PTL

\* Whatever a connection makes its client miss was stored by another handler after
\* the page of the replay was read: what its own handler stores and what the page
\* held reach the client before its cursor passes them, for every replay limit and
\* however sockets are lost and handlers end (replay_events, the handler of
\* interview_live.py and the cursor of InterviewSocket).
THEOREM OwnEventsAlwaysDelivered == Spec => []OwnEventsAreDelivered
  <1>1. LogInv /\ TableInv /\ DeliveryInv => OwnEventsAreDelivered
    <2> SUFFICES ASSUME LogInv, TypeOK, DeliveryInv, NEW c \in Clients,
                        NEW s \in Sockets, s = client[c].socket,
                        NEW r \in Missed(c), r.sequence > handler[s].after
                 PROVE  /\ r.sequence > handler[s].replayed
                        /\ r.by # s \/ r.sequence <= handler[s].since
      BY DEF OwnEventsAreDelivered, TableInv, TypeOK, Client
    <2>1. /\ r \in rows /\ r.sequence <= client[c].lastSequence
          /\ r.sequence \notin client[c].seen
      BY DEF Missed
    <2>2. r.sequence \in Nat /\ client[c].lastSequence \in Nat /\ handler[s].replayed \in Nat
          /\ handler[s].since \in Nat
      BY <2>1 DEF TypeOK, Client, Handler, Row
    <2>3. Follows(c, s)
      BY ClientAttached
    <2>4. Replayed(s)
      BY <2>1, <2>2, <2>3 DEF Follows
    <2>5. ~Owed(s, r)
      BY <2>1, <2>2, <2>3, <2>4 DEF Follows
    <2> QED
      BY <2>2, <2>5 DEF Owed
  <1> QED
    BY <1>1, LogInvariance, TableInvariance, DeliveryInvariance, PTL

-----------------------------------------------------------------------------
(* The browser's end of the connection *)

CONSTANTS MaxAnswers, MaxLosses, OtherTabs, StatusChanges
VARIABLES link, attempt, answers, pending, stored, uplink, downlink, accepting,
          turnElsewhere, losses

Browser == INSTANCE ClientSocket

\* Both ends against the wire: what travels is about the pending answer, one way
\* at a time and on an open socket only, and an acknowledgement on its way is of
\* an answer that has its row.
SocketInv ==
    /\ link \in {"connecting", "open", "waiting"}
    /\ pending \in BOOLEAN /\ stored \in BOOLEAN
    /\ uplink \in BOOLEAN
    /\ downlink \in {"none", "ack", "answer_pending"}
    /\ uplink => pending /\ downlink = "none"
    /\ downlink # "none" => pending
    /\ downlink = "ack" => stored
    /\ link # "open" => ~uplink /\ downlink = "none"

\* Whatever sockets are lost and whatever else runs in the session, InterviewSocket
\* drops its pendingAnswer only when the server has its row, for any number of
\* answers and losses.
THEOREM BrowserForgetsOnlyStored == Browser!Spec => Browser!ForgetsOnlyStoredAnswers
  <1>1. Browser!Init => SocketInv
    BY DEF Browser!Init, SocketInv
  <1>2. SocketInv /\ [Browser!Next]_Browser!vars => SocketInv'
    <2> SUFFICES ASSUME SocketInv, [Browser!Next]_Browser!vars
                 PROVE  SocketInv'
      OBVIOUS
    <2> USE DEF SocketInv, Browser!clientVars, Browser!wireVars, Browser!serverVars
    <2>1. CASE Browser!Opened
      BY <2>1 DEF Browser!Opened
    <2>2. CASE Browser!Reconnect
      BY <2>2 DEF Browser!Reconnect
    <2>3. CASE Browser!Submit
      BY <2>3 DEF Browser!Submit
    <2>4. CASE Browser!Receive
      BY <2>4 DEF Browser!Receive, Browser!StaysPending
    <2>5. CASE Browser!HandleAnswer
      <3>1. /\ uplink /\ downlink = "none" /\ link = "open" /\ ~uplink'
            /\ uplink' = FALSE /\ pending' = pending
        BY <2>5 DEF Browser!HandleAnswer, Browser!Reply, Browser!Closed
      <3>2. \/ downlink' = "ack" /\ stored /\ stored' = stored /\ link' = link
            \/ downlink' = "answer_pending" /\ stored' = stored /\ link' = link
            \/ downlink' = "none" /\ stored' = stored /\ link' = "waiting"
            \/ downlink' = "ack" /\ stored' = TRUE /\ link' = link
        BY <2>5 DEF Browser!HandleAnswer, Browser!Reply, Browser!Closed
      <3> QED
        BY <3>1, <3>2
    <2>6. CASE Browser!Lose
      BY <2>6 DEF Browser!Lose, Browser!Closed
    <2>7. CASE \/ Browser!TurnStartsElsewhere \/ Browser!TurnEndsElsewhere
               \/ Browser!SessionStops \/ Browser!SessionResumes
      <3>1. UNCHANGED <<link, pending, stored, uplink, downlink>>
        BY <2>7 DEF Browser!TurnStartsElsewhere, Browser!TurnEndsElsewhere,
           Browser!SessionStops, Browser!SessionResumes, Browser!StatusBecomes
      <3> QED
        BY <3>1
    <2>8. CASE UNCHANGED Browser!vars
      BY <2>8 DEF Browser!vars
    <2> QED
      BY <2>1, <2>2, <2>3, <2>4, <2>5, <2>6, <2>7, <2>8 DEF Browser!Next
  <1>3. SocketInv /\ [Browser!Next]_Browser!vars
          => [pending /\ ~pending' => stored]_Browser!vars
    <2> SUFFICES ASSUME SocketInv, Browser!Next, pending, ~pending' PROVE stored
      OBVIOUS
    <2>1. Browser!Receive
      BY DEF Browser!Next, Browser!Opened, Browser!Reconnect, Browser!Submit,
         Browser!HandleAnswer, Browser!Reply, Browser!Closed, Browser!Lose, Browser!TurnStartsElsewhere,
         Browser!TurnEndsElsewhere, Browser!SessionStops, Browser!SessionResumes, Browser!StatusBecomes,
         Browser!clientVars
    <2> QED
      BY <2>1 DEF SocketInv, Browser!Receive, Browser!StaysPending
  <1> QED
    BY <1>1, <1>2, <1>3, PTL DEF Browser!Spec, Browser!ForgetsOnlyStoredAnswers
=============================================================================
