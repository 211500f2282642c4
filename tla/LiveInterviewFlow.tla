-------------------------- MODULE LiveInterviewFlow --------------------------
(***************************************************************************)
(* The live interview implements InterviewFlow: without faults and without *)
(* status changes from elsewhere, however many sockets submit and retry at *)
(* once, the transcript grows exactly as the sequential interview would    *)
(* let it grow.                                                            *)
(***************************************************************************)
EXTENDS LiveInterview

IsTurn(m) == m.kind \in {"main_question", "follow_up", "closing"}
TurnRows == {i \in DOMAIN messages : IsTurn(messages[i])}

\* The position of a row among the turns, and what was said at the k-th turn.
Rank(i) == Cardinality({t \in TurnRows : t <= i})
RowsAt(k) == {i \in TurnRows : Rank(i) = k}
Said(k) == {<<messages[i].kind, messages[i].question>> : i \in RowsAt(k)}

\* The member of a set that has one.
Only(S) == CHOOSE x \in S : TRUE

InterviewerTurns ==
    IF TurnRows = {} THEN << <<"main_question", 1>> >>
    ELSE [k \in 1..Cardinality(TurnRows) |-> Only(Said(k))]

\* The abstract position is that of the last turn spoken: the context row runs
\* ahead of the transcript between the commits of an advance.
LastTurn == InterviewerTurns[Len(InterviewerTurns)]
LastQuestion == LastTurn[2]

FollowUpsSpoken == Cardinality(FollowUpsOf(LastQuestion))

InPhase(pcs) == {h \in Handlers : Generating(h) /\ handlers[h].pc \in pcs}
Decided == InPhase({"prepare"})
Prepared == InPhase({"advance", "reply", "commit"})

ActionOfKind == [main_question |-> "advance", follow_up |-> "follow_up", closing |-> "finish"]

Phase ==
    IF Decided # {} THEN "decided" ELSE IF Prepared # {} THEN "prepared" ELSE "listening"

Decision ==
    IF Decided # {} THEN handlers[Only(Decided)].action
    ELSE IF Prepared # {} THEN ActionOfKind[handlers[Only(Prepared)].turn.kind]
    ELSE "none"

Flow == INSTANCE InterviewFlow WITH
    question <- LastQuestion,
    followUps <- FollowUpsSpoken,
    phase <- Phase,
    decision <- Decision,
    turns <- InterviewerTurns

\* The sequential interview, as a property of the concurrent server.
ImplementsFlow == Flow!Spec
=============================================================================
