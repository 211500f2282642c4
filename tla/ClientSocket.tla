----------------------------- MODULE ClientSocket -----------------------------
(***************************************************************************)
(* InterviewSocket (frontend/src/lib/realtime/interviewSocket.ts), the     *)
(* candidate's end of the connection, against the answers the WebSocket    *)
(* handler of api/routes/interview_live.py gives to one submission.        *)
(*                                                                         *)
(* The socket holds at most one unacknowledged answer, sends it again on   *)
(* every reconnect, forgets it only when its own acknowledgement arrives,  *)
(* and reconnects after every close, whatever the close code.              *)
(***************************************************************************)
EXTENDS Naturals

CONSTANTS
    MaxAnswers,      \* bound: answers submitted
    MaxLosses,       \* bound: sockets lost by the network
    OtherTabs,       \* whether another connection runs turns of its own
    StatusChanges    \* whether the session is paused and resumed elsewhere

ASSUME ClientSocketAssumption ==
    /\ MaxAnswers \in Nat
    /\ MaxLosses \in Nat
    /\ OtherTabs \in BOOLEAN
    /\ StatusChanges \in BOOLEAN

\* delay = min(800 * 2^(attempt - 1), 8000): from the fifth attempt on the delay
\* is the same, so the counter is capped there.
LastBackoff == 5

VARIABLES
    link,          \* the browser's socket: connecting, open, or waiting to reconnect
    attempt,       \* reconnectAttempt, which sets the delay: 0..LastBackoff
    answers,       \* answers submitted so far; the last one is the pending one
    pending,       \* whether pendingAnswer is set
    stored,        \* whether the last answer has its row in the event store
    uplink,        \* whether the answer is on its way to the server
    downlink,      \* the server's reply on its way back: ack, answer_pending or none
    accepting,     \* interview.status = INTERVIEWING
    turnElsewhere, \* in_flight_answers is held by another connection's turn
    losses         \* sockets lost so far

clientVars == <<link, attempt, answers, pending>>
wireVars == <<uplink, downlink>>
serverVars == <<stored, accepting, turnElsewhere>>
vars == <<clientVars, wireVars, serverVars, losses>>

Init ==
    /\ link = "connecting"
    /\ attempt = 0
    /\ answers = 0
    /\ pending = FALSE
    /\ stored = FALSE
    /\ uplink = FALSE
    /\ downlink = "none"
    /\ accepting = TRUE
    /\ turnElsewhere = FALSE
    /\ losses = 0

-----------------------------------------------------------------------------
(* The browser *)

\* Bug: the pending answer is not sent again.
Bug_NoResend ==
    /\ link = "connecting"
    /\ link' = "open"
    /\ attempt' = 0
    /\ uplink' = FALSE
    /\ UNCHANGED <<answers, pending, downlink, serverVars, losses>>

\* onopen: the delay starts over and a pending answer is sent again.
Opened ==
    /\ link = "connecting"
    /\ link' = "open"
    /\ attempt' = 0
    /\ uplink' = pending
    /\ UNCHANGED <<answers, pending, downlink, serverVars, losses>>

\* onclose: wait and reconnect, for every close code.
Closed ==
    /\ link' = "waiting"
    /\ attempt' = IF attempt < LastBackoff THEN attempt + 1 ELSE attempt
    /\ uplink' = FALSE
    /\ downlink' = "none"
    /\ UNCHANGED <<answers, pending>>

\* The reconnect timer fires.
Reconnect ==
    /\ link = "waiting"
    /\ link' = "connecting"
    /\ UNCHANGED <<attempt, answers, pending, wireVars, serverVars, losses>>

\* send: refused unless the socket is open and no answer is pending.
Submit ==
    /\ link = "open"
    /\ ~pending
    /\ answers < MaxAnswers
    /\ answers' = answers + 1
    /\ pending' = TRUE
    /\ stored' = FALSE
    /\ uplink' = TRUE
    /\ UNCHANGED <<link, attempt, downlink, accepting, turnElsewhere, losses>>

\* Bug: any event about the answer clears it.
Bug_ClearsOnAnyReply == pending /\ downlink = "none"

StaysPending == pending /\ downlink # "ack"

\* onmessage: only the answer's own input.ack clears pendingAnswer.
Receive ==
    /\ link = "open"
    /\ downlink # "none"
    /\ downlink' = "none"
    /\ pending' = StaysPending
    /\ UNCHANGED <<link, attempt, answers, uplink, serverVars, losses>>

-----------------------------------------------------------------------------
(* The server *)

Reply(event) ==
    /\ downlink' = event
    /\ UNCHANGED clientVars

\* A stored event is sent back; a submission that finds another turn in flight
\* gets the transient answer_pending error; one that finds the session not
\* INTERVIEWING raises an AppError, which closes the socket with code 1008;
\* everything else is stored and acknowledged.
HandleAnswer ==
    /\ link = "open"
    /\ uplink
    /\ downlink = "none"
    /\ uplink' = FALSE
    /\ \/ stored /\ Reply("ack") /\ UNCHANGED stored
       \/ ~stored /\ turnElsewhere /\ Reply("answer_pending") /\ UNCHANGED stored
       \/ ~stored /\ ~turnElsewhere /\ ~accepting /\ Closed /\ UNCHANGED stored
       \/ ~stored /\ ~turnElsewhere /\ accepting /\ Reply("ack") /\ stored' = TRUE
    /\ UNCHANGED <<accepting, turnElsewhere, losses>>

-----------------------------------------------------------------------------
(* The environment *)

\* The network, the idle timeout or a server restart ends the connection, or
\* it is refused: over the connection cap or the connection rate.
Lose ==
    /\ losses < MaxLosses
    /\ link \in {"connecting", "open"}
    /\ losses' = losses + 1
    /\ Closed
    /\ UNCHANGED serverVars

TurnStartsElsewhere ==
    /\ OtherTabs
    /\ accepting
    /\ ~turnElsewhere
    /\ turnElsewhere' = TRUE
    /\ UNCHANGED <<clientVars, wireVars, stored, accepting, losses>>

TurnEndsElsewhere ==
    /\ turnElsewhere
    /\ turnElsewhere' = FALSE
    /\ UNCHANGED <<clientVars, wireVars, stored, accepting, losses>>

\* The session is paused, finished or resumed by somebody else.
StatusBecomes(now) ==
    /\ StatusChanges
    /\ accepting # now
    /\ accepting' = now
    /\ UNCHANGED <<clientVars, wireVars, stored, turnElsewhere, losses>>

SessionStops == StatusBecomes(FALSE)
SessionResumes == StatusBecomes(TRUE)

-----------------------------------------------------------------------------

Next ==
    \/ Opened
    \/ Reconnect
    \/ Submit
    \/ Receive
    \/ HandleAnswer
    \/ Lose
    \/ TurnStartsElsewhere
    \/ TurnEndsElsewhere
    \/ SessionStops
    \/ SessionResumes

Spec == Init /\ [][Next]_vars

\* Timers fire, the server accepts and handles what it is sent, what it sends
\* arrives unless the socket is lost (at most MaxLosses times), turns end.
\* Nobody has to submit an answer or to change the session's status.
Fairness ==
    /\ WF_vars(Opened)
    /\ WF_vars(Reconnect)
    /\ WF_vars(Receive)
    /\ WF_vars(HandleAnswer)
    /\ WF_vars(TurnEndsElsewhere)

FairSpec == Spec /\ Fairness

-----------------------------------------------------------------------------
(***************************************************************************)
(* Properties                                                              *)
(***************************************************************************)

\* The browser forgets an answer only when the server has stored it: whatever
\* is lost in between, an answer is on one side or the other.
ForgetsOnlyStoredAnswers == [][pending /\ ~pending' => stored]_vars

\* Nobody else changes the session or runs turns in it.
Undisturbed == accepting /\ ~turnElsewhere

\* A submitted answer is acknowledged some time, over any number of lost
\* sockets, so that the candidate may submit the next one -- in an interview
\* that only this browser drives.
PendingAnswerSettles == []Undisturbed => (pending ~> ~pending)
=============================================================================
