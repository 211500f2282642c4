---------------------------- MODULE InterviewFlow ----------------------------
(***************************************************************************)
(* What a mock interview promises its candidate, with no connection, no    *)
(* concurrency and no failure: after every answer the policy picks the     *)
(* next action from the controller's proposal (or from the fallback when   *)
(* the controller times out or answers badly), the guard is applied once   *)
(* in decide_turn and again in prepare_turn -- the clock runs between the  *)
(* two -- and exactly one interviewer turn follows.  LiveInterview is the  *)
(* concurrent implementation and is shown to refine this module.           *)
(***************************************************************************)
EXTENDS TurnGuard, Sequences

CONSTANT TimePoints    \* the seconds-left values the clock may show

ASSUME TimeAssumption == TimePoints \subseteq Nat

VARIABLES
    question,    \* context.current_plan_question_id, as a plan sequence
    followUps,   \* context.current_follow_up_index
    phase,       \* where the turn is: "listening", "decided" or "prepared"
    decision,    \* the guarded decision of this turn, "none" while listening
    remaining,   \* _remaining_seconds of the plan's time budget
    turns        \* the interviewer's turns so far: <<kind, question>>

vars == <<question, followUps, phase, decision, remaining, turns>>

Phases == {"listening", "decided", "prepared"}
Kinds == {"main_question", "follow_up", "closing"}

TypeOK ==
    /\ question \in Questions
    /\ followUps \in Nat
    /\ phase \in Phases
    /\ decision \in Actions \cup {"none"}
    /\ remaining \in TimePoints
    /\ turns \in Seq(Kinds \X Questions)

\* start_session writes the first main question together with the segment.
Init ==
    /\ question = 1
    /\ followUps = 0
    /\ phase = "listening"
    /\ decision = "none"
    /\ remaining \in TimePoints
    /\ turns = << <<"main_question", 1>> >>

Closed == turns[Len(turns)][1] = "closing"

\* decide_turn: the proposal of the controller, guarded.
Decide(proposal) ==
    /\ ~Closed
    /\ phase = "listening"
    /\ phase' = "decided"
    /\ decision' = Guard(proposal, question, followUps, remaining)
    /\ UNCHANGED <<question, followUps, remaining, turns>>

DecideByController == \E p \in Actions : Decide(p)

\* The controller timed out, failed or answered outside its schema.
DecideByFallback == Decide(StableAction(question))

\* prepare_turn guards the decision again, on a clock that has moved on.
Reguard ==
    /\ phase = "decided"
    /\ phase' = "prepared"
    /\ decision' = Guard(decision, question, followUps, remaining)
    /\ UNCHANGED <<question, followUps, remaining, turns>>

AskFollowUp ==
    /\ decision = "follow_up"
    /\ followUps' = followUps + 1
    /\ turns' = Append(turns, <<"follow_up", question>>)
    /\ UNCHANGED question

\* Bug: the question that was just answered is asked again.
Bug_AsksSameQuestion ==
    /\ decision = "advance"
    /\ question' = question + 1
    /\ followUps' = 0
    /\ turns' = Append(turns, <<"main_question", question>>)

Advance ==
    /\ decision = "advance"
    /\ question' = question + 1
    /\ followUps' = 0
    /\ turns' = Append(turns, <<"main_question", question + 1>>)

\* Bug: no closing message is stored.
Bug_ClosesSilently ==
    /\ decision = "finish"
    /\ UNCHANGED <<question, followUps, turns>>

Close ==
    /\ decision = "finish"
    /\ turns' = Append(turns, <<"closing", question>>)
    /\ UNCHANGED <<question, followUps>>

\* The turn becomes a message of the transcript.
Speak ==
    /\ phase = "prepared"
    /\ phase' = "listening"
    /\ decision' = "none"
    /\ AskFollowUp \/ Advance \/ Close
    /\ UNCHANGED remaining

\* The interviewer model fails while writing a follow-up: the answer stays
\* saved and the candidate may have the turn generated again.
ProviderFails ==
    /\ phase = "prepared"
    /\ decision = "follow_up"
    /\ phase' = "listening"
    /\ decision' = "none"
    /\ UNCHANGED <<question, followUps, remaining, turns>>

Tick ==
    /\ \E t \in TimePoints : t < remaining /\ remaining' = t
    /\ UNCHANGED <<question, followUps, phase, decision, turns>>

Next ==
    \/ DecideByController
    \/ DecideByFallback
    \/ Reguard
    \/ Speak
    \/ ProviderFails
    \/ Tick

Spec == Init /\ [][Next]_vars

\* The candidate answers and the server works on the answer; a provider that
\* is asked again and again answers some time.  The clock need not move.
Fairness ==
    /\ WF_vars(DecideByFallback)
    /\ WF_vars(Reguard)
    /\ SF_vars(Speak)

FairSpec == Spec /\ Fairness

-----------------------------------------------------------------------------
(***************************************************************************)
(* Properties                                                              *)
(***************************************************************************)

\* A question never gets more follow-ups than its budget, although the index
\* is tested in decide_turn and prepare_turn and only incremented when the
\* generated question is saved.
FollowUpsWithinBudget == followUps <= FollowUpBudget[question]

\* The transcript shows the plan: main questions 1..question in order, each
\* exactly once, and a follow-up or closing only for the question asked last.
AsksPlanInOrder ==
    \A i \in 2..Len(turns) :
        LET asked == turns[i - 1][2]
        IN  turns[i][2] = IF turns[i][1] = "main_question" THEN asked + 1 ELSE asked

\* "Coverage wins over an early model-driven finish": planned questions are
\* given up only when the seconds left do not allow asking the next one.
CoverageBeforeEarlyFinish ==
    (Closed /\ HasNext(question)) => remaining < CoverageSeconds(question)

\* Guarding a decision a second time only ever shortens the interview: what
\* decide_turn announced as a finish stays a finish, and an advance never
\* turns back into another follow-up.
ReguardOnlyShortens ==
    [][ phase = "decided" /\ phase' = "prepared" =>
          /\ decision = "finish" => decision' = "finish"
          /\ decision = "advance" => decision' # "follow_up" ]_vars

\* The interview ends, even on a clock that never moves and a controller that
\* always asks for more: budgets bound the number of turns.
EventuallyCloses == <>Closed
=============================================================================
