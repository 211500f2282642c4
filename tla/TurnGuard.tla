------------------------------ MODULE TurnGuard ------------------------------
(***************************************************************************)
(* The turn policy of services/interview_orchestrator.py: which of the     *)
(* three actions ("follow_up", "advance", "finish") an answered question   *)
(* is followed by.  A model controller may propose any action; the stable  *)
(* policy is the fallback when it fails, and the guard has the last word.  *)
(* Everything here is a pure function of the plan, the position in it and  *)
(* the seconds left.                                                       *)
(***************************************************************************)
EXTENDS Naturals

CONSTANTS
    NumQuestions,      \* questions of the frozen plan, sequence 1..NumQuestions
    FollowUpBudget,    \* PlanQuestion.follow_up_budget, per question
    AllocatedSeconds   \* PlanQuestion.allocated_seconds, per question

Questions == 1..NumQuestions

ASSUME PlanAssumption ==
    /\ NumQuestions \in Nat \ {0}
    /\ FollowUpBudget \in [Questions -> Nat]
    /\ AllocatedSeconds \in [Questions -> Nat]

Actions == {"follow_up", "advance", "finish"}

MinFollowUpSeconds == 60
MinNextQuestionSeconds == 45

\* _next_plan_question returns a row: sequences are contiguous from 1.
HasNext(q) == q < NumQuestions

\* Seconds that must remain before an early finish is turned into an advance.
CoverageSeconds(q) ==
    LET third == AllocatedSeconds[q + 1] \div 3
    IN  IF third > MinNextQuestionSeconds THEN third ELSE MinNextQuestionSeconds

\* _stable_decision: the deterministic progression used as the fail-safe.
StableAction(q) ==
    IF FollowUpBudget[q] > 0 THEN "follow_up"
    ELSE IF HasNext(q) THEN "advance" ELSE "finish"

\* Bug: the coverage rule asks for the whole allocation of the next question.
Bug_CoversWholeAllocation(q, remaining) ==
    HasNext(q) /\ remaining >= AllocatedSeconds[q + 1]

CanFollowUp(q, index, remaining) ==
    index < FollowUpBudget[q] /\ remaining >= MinFollowUpSeconds

CanAdvance(q, remaining) ==
    HasNext(q) /\ remaining >= MinNextQuestionSeconds

MustCover(q, remaining) ==
    HasNext(q) /\ remaining >= CoverageSeconds(q)

\* _guard_decision: time, follow-up and coverage constraints on a candidate.
Guard(candidate, q, index, remaining) ==
    IF remaining = 0 THEN "finish"
    ELSE CASE candidate = "follow_up" ->
                IF CanFollowUp(q, index, remaining) THEN "follow_up"
                ELSE IF CanAdvance(q, remaining) THEN "advance" ELSE "finish"
           [] candidate = "advance" ->
                IF CanAdvance(q, remaining) THEN "advance" ELSE "finish"
           [] candidate = "finish" ->
                IF MustCover(q, remaining) THEN "advance" ELSE "finish"
=============================================================================
