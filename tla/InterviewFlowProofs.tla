-------------------------- MODULE InterviewFlowProofs --------------------------
(***************************************************************************)
(* InterviewFlow for every plan, every set of clock values and every       *)
(* controller: the follow-up budget, the order of the questions and the    *)
(* coverage rule are invariants, and guarding twice only shortens.         *)
(***************************************************************************)
EXTENDS InterviewFlow, TLAPS

-----------------------------------------------------------------------------
(* The policy *)

LEMMA GuardType ==
    ASSUME NEW a \in Actions, NEW q \in Questions, NEW i \in Nat, NEW r \in Nat
    PROVE  Guard(a, q, i, r) \in Actions
  BY DEF Guard, Actions

LEMMA StableType ==
    ASSUME NEW q \in Questions
    PROVE  StableAction(q) \in Actions
  BY DEF StableAction, Actions

\* The guard admits a follow-up only below the budget...
LEMMA GuardedFollowUp ==
    ASSUME NEW a \in Actions, NEW q \in Questions, NEW i \in Nat, NEW r \in Nat,
           Guard(a, q, i, r) = "follow_up"
    PROVE  i < FollowUpBudget[q]
  BY DEF Guard, Actions, CanFollowUp

\* ...an advance only when there is a next question...
LEMMA GuardedAdvance ==
    ASSUME NEW a \in Actions, NEW q \in Questions, NEW i \in Nat, NEW r \in Nat,
           Guard(a, q, i, r) = "advance"
    PROVE  HasNext(q)
  BY DEF Guard, Actions, CanAdvance, MustCover

LEMMA NextQuestion ==
    ASSUME NEW q \in Questions, HasNext(q)
    PROVE  q + 1 \in Questions
  BY PlanAssumption DEF HasNext, Questions

LEMMA CoverageType ==
    ASSUME NEW q \in Questions, HasNext(q)
    PROVE  CoverageSeconds(q) \in Nat /\ MinNextQuestionSeconds <= CoverageSeconds(q)
  <1>1. AllocatedSeconds[q + 1] \in Nat
    BY NextQuestion, PlanAssumption
  <1>2. AllocatedSeconds[q + 1] \div 3 \in Nat
    BY <1>1
  <1> QED
    BY <1>2 DEF CoverageSeconds, MinNextQuestionSeconds

\* ...and a finish only when the next question no longer has to be covered.
LEMMA GuardedFinish ==
    ASSUME NEW a \in Actions, NEW q \in Questions, NEW i \in Nat, NEW r \in Nat,
           Guard(a, q, i, r) = "finish"
    PROVE  ~MustCover(q, r)
  <1>1. CASE ~HasNext(q)
    BY <1>1 DEF MustCover
  <1>2. CASE HasNext(q)
    <2>1. CoverageSeconds(q) \in Nat /\ 45 <= CoverageSeconds(q)
      BY <1>2, CoverageType DEF MinNextQuestionSeconds
    <2>2. \/ r = 0
          \/ ~CanAdvance(q, r)
          \/ ~MustCover(q, r)
      BY DEF Guard, Actions
    <2> QED
      BY <1>2, <2>1, <2>2 DEF MustCover, CanAdvance, MinNextQuestionSeconds
  <1> QED
    BY <1>1, <1>2

\* A guarded action that has lost its time is never lengthened.
LEMMA GuardOfFinish ==
    ASSUME NEW q \in Questions, NEW i \in Nat, NEW r \in Nat, ~MustCover(q, r)
    PROVE  Guard("finish", q, i, r) = "finish"
  BY DEF Guard

LEMMA GuardOfAdvance ==
    ASSUME NEW q \in Questions, NEW i \in Nat, NEW r \in Nat
    PROVE  Guard("advance", q, i, r) # "follow_up"
  BY DEF Guard

LEMMA MustCoverLater ==
    ASSUME NEW q \in Questions, NEW r \in Nat, NEW t \in Nat, t < r, ~MustCover(q, r)
    PROVE  ~MustCover(q, t)
  <1>1. CASE HasNext(q)
    BY <1>1, CoverageType DEF MustCover
  <1>2. CASE ~HasNext(q)
    BY <1>2 DEF MustCover
  <1> QED
    BY <1>1, <1>2

-----------------------------------------------------------------------------
(* The inductive invariant *)

\* The turn policy has been applied to every decision, and still holds of it:
\* the follow-up index and the question have not moved, and time only passes.
DecisionGuarded ==
    /\ phase = "listening" => decision = "none"
    /\ phase # "listening" =>
         /\ decision \in Actions
         /\ decision = "follow_up" => followUps < FollowUpBudget[question]
         /\ decision = "advance" => HasNext(question)
         /\ decision = "finish" => ~MustCover(question, remaining)

\* The interview is at the question its last turn is about.
AtLastTurn ==
    /\ turns # <<>>
    /\ turns[Len(turns)][2] = question

IInv ==
    /\ TypeOK
    /\ DecisionGuarded
    /\ AtLastTurn
    /\ FollowUpsWithinBudget
    /\ AsksPlanInOrder
    /\ CoverageBeforeEarlyFinish

LEMMA InvInit == Init => IInv
  <1> SUFFICES ASSUME Init PROVE IInv
    OBVIOUS
  <1> USE DEF Init
  <1>1. 1 \in Questions
    BY PlanAssumption DEF Questions
  <1>2. turns = << <<"main_question", 1>> >> /\ Len(turns) = 1 /\ turns[1][2] = 1
    OBVIOUS
  <1>3. TypeOK
    BY <1>1 DEF TypeOK, Phases, Actions, Kinds
  <1>4. DecisionGuarded /\ AtLastTurn
    BY <1>2 DEF DecisionGuarded, AtLastTurn
  <1>5. FollowUpsWithinBudget
    BY <1>1, PlanAssumption DEF FollowUpsWithinBudget
  <1>6. AsksPlanInOrder
    BY <1>2 DEF AsksPlanInOrder
  <1>7. CoverageBeforeEarlyFinish
    BY <1>2 DEF CoverageBeforeEarlyFinish, Closed
  <1> QED
    BY <1>3, <1>4, <1>5, <1>6, <1>7 DEF IInv

\* What both steps that write a decision have in common: they store a guarded
\* action and touch nothing else.
LEMMA InvDecision ==
    ASSUME IInv, NEW a \in Actions,
           phase' \in {"decided", "prepared"},
           decision' = Guard(a, question, followUps, remaining),
           UNCHANGED <<question, followUps, remaining, turns>>
    PROVE  IInv'
  <1> USE DEF IInv
  <1>1. question \in Questions /\ followUps \in Nat /\ remaining \in Nat
    BY TimeAssumption DEF TypeOK
  <1>2. decision' \in Actions
    BY <1>1, GuardType
  <1>3. TypeOK'
    BY <1>2 DEF TypeOK, Phases
  <1>4. DecisionGuarded'
    BY <1>1, <1>2, GuardedFollowUp, GuardedAdvance, GuardedFinish DEF DecisionGuarded
  <1>5. (AtLastTurn /\ FollowUpsWithinBudget /\ AsksPlanInOrder /\ CoverageBeforeEarlyFinish)'
    BY DEF AtLastTurn, FollowUpsWithinBudget, AsksPlanInOrder, CoverageBeforeEarlyFinish, Closed
  <1> QED
    BY <1>3, <1>4, <1>5

\* A turn is appended about the question the interview is at afterwards.
LEMMA InvSpeak == ASSUME IInv, Speak PROVE IInv'
  <1> USE DEF IInv
  <1>1. /\ question \in Questions /\ followUps \in Nat /\ remaining \in Nat
        /\ turns \in Seq(Kinds \X Questions) /\ Len(turns) \in Nat \ {0}
        /\ turns[Len(turns)][2] = question
    BY TimeAssumption DEF TypeOK, AtLastTurn
  <1>2. phase' = "listening" /\ decision' = "none" /\ remaining' = remaining /\ phase = "prepared"
    BY DEF Speak
  <1>3. DecisionGuarded'
    BY <1>2 DEF DecisionGuarded
  <1>4. ASSUME NEW kind \in Kinds, NEW q \in Questions,
               question' = q, turns' = Append(turns, <<kind, q>>),
               q = IF kind = "main_question" THEN question + 1 ELSE question
        PROVE  /\ turns' \in Seq(Kinds \X Questions)
               /\ AtLastTurn'
               /\ AsksPlanInOrder'
               /\ Closed' <=> kind = "closing"
    <2>1. /\ turns' \in Seq(Kinds \X Questions)
          /\ Len(turns') = Len(turns) + 1
          /\ turns'[Len(turns')] = <<kind, q>>
          /\ \A i \in 1..Len(turns) : turns'[i] = turns[i]
      BY <1>1, <1>4
    <2>2. AtLastTurn'
      BY <1>1, <1>4, <2>1 DEF AtLastTurn
    <2>3. Closed' <=> kind = "closing"
      BY <1>1, <2>1 DEF Closed
    <2>4. ASSUME NEW i \in 2..Len(turns')
          PROVE  turns'[i][2] = IF turns'[i][1] = "main_question"
                                THEN turns'[i - 1][2] + 1 ELSE turns'[i - 1][2]
      <3>1. CASE i \in 2..Len(turns)
        <4>1. i \in 1..Len(turns) /\ i - 1 \in 1..Len(turns)
          BY <1>1, <3>1
        <4>2. turns'[i] = turns[i] /\ turns'[i - 1] = turns[i - 1]
          BY <2>1, <4>1
        <4>3. turns[i][2] = IF turns[i][1] = "main_question"
                            THEN turns[i - 1][2] + 1 ELSE turns[i - 1][2]
          BY <3>1 DEF AsksPlanInOrder
        <4> QED
          BY <4>2, <4>3
      <3>2. CASE i = Len(turns')
        BY <1>1, <1>4, <2>1, <3>2
      <3> QED
        BY <1>1, <2>1, <3>1, <3>2
    <2> QED
      BY <2>1, <2>2, <2>3, <2>4 DEF AsksPlanInOrder
  <1>5. CASE AskFollowUp
    <2>1. followUps < FollowUpBudget[question] /\ FollowUpBudget[question] \in Nat
      BY <1>1, <1>2, <1>5, PlanAssumption DEF AskFollowUp, DecisionGuarded
    <2>2. /\ turns' \in Seq(Kinds \X Questions) /\ AtLastTurn' /\ AsksPlanInOrder' /\ ~Closed'
      BY <1>1, <1>4, <1>5 DEF AskFollowUp, Kinds
    <2>3. TypeOK'
      BY <1>1, <1>2, <1>5, <2>2 DEF AskFollowUp, TypeOK, Phases
    <2>4. FollowUpsWithinBudget'
      BY <1>1, <1>5, <2>1 DEF AskFollowUp, FollowUpsWithinBudget
    <2> QED
      BY <1>3, <2>2, <2>3, <2>4 DEF CoverageBeforeEarlyFinish
  <1>6. CASE Advance
    <2>1. question + 1 \in Questions
      BY <1>1, <1>2, <1>6, NextQuestion DEF Advance, DecisionGuarded
    <2>2. /\ turns' \in Seq(Kinds \X Questions) /\ AtLastTurn' /\ AsksPlanInOrder' /\ ~Closed'
      BY <1>1, <1>4, <1>6, <2>1 DEF Advance, Kinds
    <2>3. TypeOK'
      BY <1>1, <1>2, <1>6, <2>1, <2>2 DEF Advance, TypeOK, Phases
    <2>4. FollowUpsWithinBudget'
      BY <1>6, <2>1, PlanAssumption DEF Advance, FollowUpsWithinBudget
    <2> QED
      BY <1>3, <2>2, <2>3, <2>4 DEF CoverageBeforeEarlyFinish
  <1>7. CASE Close
    <2>1. ~MustCover(question, remaining)
      BY <1>2, <1>7 DEF Close, DecisionGuarded
    <2>2. /\ turns' \in Seq(Kinds \X Questions) /\ AtLastTurn' /\ AsksPlanInOrder'
      BY <1>1, <1>4, <1>7 DEF Close, Kinds
    <2>3. TypeOK'
      BY <1>1, <1>2, <1>7, <2>2 DEF Close, TypeOK, Phases
    <2>4. FollowUpsWithinBudget'
      BY <1>7 DEF Close, FollowUpsWithinBudget
    <2>5. HasNext(question) => remaining < CoverageSeconds(question)
      BY <1>1, <2>1, CoverageType DEF MustCover
    <2>6. CoverageBeforeEarlyFinish'
      BY <1>2, <1>7, <2>5 DEF Close, CoverageBeforeEarlyFinish
    <2> QED
      BY <1>3, <2>2, <2>3, <2>4, <2>6
  <1> QED
    BY <1>5, <1>6, <1>7 DEF Speak

\* The invariant is inductive: one step per action.
LEMMA InvStep == IInv /\ [Next]_vars => IInv'
  <1> SUFFICES ASSUME IInv, [Next]_vars PROVE IInv'
    OBVIOUS
  <1>1. question \in Questions /\ remaining \in Nat
    BY TimeAssumption DEF IInv, TypeOK
  <1>2. CASE DecideByController
    <2>1. PICK p \in Actions : Decide(p)
      BY <1>2 DEF DecideByController
    <2> QED
      BY <2>1, InvDecision DEF Decide
  <1>3. CASE DecideByFallback
    BY <1>1, <1>3, StableType, InvDecision DEF DecideByFallback, Decide
  <1>4. CASE Reguard
    <2>1. decision \in Actions
      BY <1>4 DEF Reguard, IInv, DecisionGuarded
    <2> QED
      BY <1>4, <2>1, InvDecision DEF Reguard
  <1>5. CASE Speak
    BY <1>5, InvSpeak
  <1>6. CASE ProviderFails
    BY <1>6 DEF ProviderFails, IInv, TypeOK, DecisionGuarded, AtLastTurn, FollowUpsWithinBudget,
                AsksPlanInOrder, CoverageBeforeEarlyFinish, Closed, Phases
  <1>7. CASE Tick
    <2>1. PICK t \in TimePoints : t < remaining /\ remaining' = t
      BY <1>7 DEF Tick
    <2>2. t \in Nat /\ (~MustCover(question, remaining) => ~MustCover(question, t))
      BY <1>1, <2>1, TimeAssumption, MustCoverLater
    <2>3. DecisionGuarded'
      BY <1>7, <2>1, <2>2 DEF Tick, IInv, DecisionGuarded
    <2>4. CoverageBeforeEarlyFinish'
      BY <1>1, <1>7, <2>1, <2>2, CoverageType
         DEF Tick, IInv, CoverageBeforeEarlyFinish, Closed
    <2> QED
      BY <1>7, <2>1, <2>3, <2>4
         DEF Tick, IInv, TypeOK, AtLastTurn, FollowUpsWithinBudget, AsksPlanInOrder
  <1>8. CASE UNCHANGED vars
    BY <1>8 DEF vars, IInv, TypeOK, DecisionGuarded, AtLastTurn, FollowUpsWithinBudget,
                AsksPlanInOrder, CoverageBeforeEarlyFinish, Closed
  <1> QED
    BY <1>2, <1>3, <1>4, <1>5, <1>6, <1>7, <1>8 DEF Next

LEMMA Invariance == Spec => []IInv
  BY InvInit, InvStep, PTL DEF Spec

-----------------------------------------------------------------------------
(* The theorems *)

\* Every variable of the interview keeps its type (InterviewFlow's state is the
\* interview context of services/interview_orchestrator.py).
THEOREM FlowTypeOK == Spec => []TypeOK
  <1>1. IInv => TypeOK
    BY DEF IInv
  <1> QED
    BY <1>1, Invariance, PTL

\* For every plan and clock, no question gets more follow-ups than its budget,
\* although prepare_turn only tests the index that save_assistant_message moves.
THEOREM FlowFollowUpsWithinBudget == Spec => []FollowUpsWithinBudget
  <1>1. IInv => FollowUpsWithinBudget
    BY DEF IInv
  <1> QED
    BY <1>1, Invariance, PTL

\* For every plan and every controller, the transcript asks the plan's questions
\* in order, without repeating or passing over one.
THEOREM FlowAsksPlanInOrder == Spec => []AsksPlanInOrder
  <1>1. IInv => AsksPlanInOrder
    BY DEF IInv
  <1> QED
    BY <1>1, Invariance, PTL

\* For every plan, an interview closed with questions left had no time for the
\* next one: the coverage rule of _guard_decision, over both applications.
THEOREM FlowCoverageBeforeEarlyFinish == Spec => []CoverageBeforeEarlyFinish
  <1>1. IInv => CoverageBeforeEarlyFinish
    BY DEF IInv
  <1> QED
    BY <1>1, Invariance, PTL

\* Guarding again in prepare_turn, on a later clock, never lengthens the
\* interview that decide_turn announced.
THEOREM FlowReguardOnlyShortens == Spec => ReguardOnlyShortens
  <1> DEFINE Shortens == phase = "decided" /\ phase' = "prepared" =>
                           /\ decision = "finish" => decision' = "finish"
                           /\ decision = "advance" => decision' # "follow_up"
  <1>1. ASSUME IInv, Next PROVE Shortens
    <2>1. question \in Questions /\ followUps \in Nat /\ remaining \in Nat
      BY <1>1, TimeAssumption DEF IInv, TypeOK
    <2>2. CASE Reguard
      <3>1. decision = "finish" => ~MustCover(question, remaining)
        BY <1>1, <2>2 DEF Reguard, IInv, DecisionGuarded
      <3> QED
        BY <2>1, <2>2, <3>1, GuardOfFinish, GuardOfAdvance DEF Reguard
    <2>3. CASE ~Reguard
      BY <1>1, <2>3 DEF Next, DecideByController, DecideByFallback, Decide, Speak,
                        ProviderFails, Tick
    <2> QED
      BY <2>2, <2>3
  <1>2. IInv /\ [Next]_vars => [Shortens]_vars
    BY <1>1
  <1> QED
    BY <1>2, Invariance, PTL DEF Spec, ReguardOnlyShortens

=============================================================================
