---------------------------- MODULE PlanSelection -----------------------------
(***************************************************************************)
(* Which questions an interview gets, and how its time is shared out       *)
(* (services/question_retrieval.py, agents/planner.py and the fallback in  *)
(* services/interview_planning.py).                                        *)
(*                                                                         *)
(* A candidate is a record of its key, source, rank for the company and    *)
(* round, number of uses, and follow-up budget.  Weights are hundredths.   *)
(***************************************************************************)
EXTENDS Integers, Sequences, SequencesExt, FiniteSetsExt

MinQuestionSeconds == 30
MaxQuestionSeconds == 7200

\* _PLANNABLE_SOURCE_ORDER
Sources == <<"manual", "link_import", "resume", "generated">>
SourceSet == {Sources[i] : i \in DOMAIN Sources}
Position(source) == CHOOSE i \in DOMAIN Sources : Sources[i] = source

-----------------------------------------------------------------------------
(* Candidates *)

\* Exact round, company, general, and last what names another target.
MatchRank(question, company, round) ==
    CASE /\ <<company, round>> \in question.rounds
         /\ question.companies = {} \/ company \in question.companies -> 0
      [] company \in question.companies /\ question.rounds = {} -> 1
      [] question.companies = {} /\ question.rounds = {} -> 2
      [] OTHER -> 3

SortKey(c) == <<c.rank, c.used, Position(c.source), c.key>>

Before(c, d) ==
    \E i \in 1..4 : /\ SortKey(c)[i] < SortKey(d)[i]
                    /\ \A j \in 1..(i - 1) : SortKey(c)[j] = SortKey(d)[j]

\* Candidates in this order, by the number of those before each.
InOrder(candidates) ==
    [i \in 1..Cardinality(candidates) |->
        CHOOSE c \in candidates : Cardinality({d \in candidates : Before(d, c)}) = i - 1]

FromQuestion(question, company, round) ==
    [key |-> question.key, source |-> question.source, used |-> question.used,
     rank |-> MatchRank(question, company, round),
     followUps |-> Min({3, Max({1, question.suggestions})})]

FromClaim(claim) ==
    [key |-> claim, source |-> "resume", rank |-> 0, used |-> 0, followUps |-> 2]

FromTemplate(template) == [FromClaim(template) EXCEPT !.source = "generated"]

\* build_candidate_pool
Pool(questions, claims, templates, company, round) ==
    {FromQuestion(q, company, round) : q \in questions}
        \cup {FromClaim(c) : c \in claims}
        \cup {FromTemplate(t) : t \in templates}

-----------------------------------------------------------------------------
(* Selection *)

TotalWeight(weights) == SumFunctionOnSet(weights, SourceSet)

\* What a source is due of the target, in floating point: a part of a place is cut off,
\* and of a whole number of places the last may be lost to rounding.
Exact(source, target, weights) == (target * weights[source]) \div TotalWeight(weights)

LeastShare(source, target, weights) ==
    LET exact == Exact(source, target, weights)
    IN  IF exact > 0 /\ exact * TotalWeight(weights) = target * weights[source]
        THEN exact - 1 ELSE exact

Shares(source, target, weights) ==
    LeastShare(source, target, weights)..Exact(source, target, weights)

\* The source that is furthest below its weight.  The order of the sources decides
\* between equal ones; differences that only calculate to the same may round either way.
Hungriest(quotas, target, weights) ==
    {s \in SourceSet : \A t \in SourceSet \ {s} :
        LET gap == (weights[s] - weights[t]) * target - 100 * (quotas[s] - quotas[t])
        IN  \/ gap > 0
            \/ gap = 0 /\ (weights[s] # weights[t] \/ Position(s) < Position(t))}

Due(target, weights) ==
    {due \in [SourceSet -> 0..target] : \A s \in SourceSet : due[s] \in Shares(s, target, weights)}

\* One more place is given out, unless all are.
WithPlace(quotas, target, weights) ==
    IF SumFunctionOnSet(quotas, SourceSet) < target
    THEN {[quotas EXCEPT ![s] = @ + 1] : s \in Hungriest(quotas, target, weights)}
    ELSE {quotas}

\* The places that rounding leaves are given out one at a time.
Quotas(target, weights) ==
    LET given[n \in 0..target] ==
            IF n = 0 THEN Due(target, weights)
            ELSE UNION {WithPlace(quotas, target, weights) : quotas \in given[n - 1]}
    IN  given[target]

FirstOf(seq, n) == SubSeq(seq, 1, Min({n, Len(seq)}))

\* Every source up to its quota.
FirstBlocks(pool, quotas) ==
    FlattenSeq([i \in DOMAIN Sources |->
        FirstOf(InOrder({c \in pool : c.source = Sources[i]}), quotas[Sources[i]])])

\* Bug: places that a source cannot fill stay empty.
Bug_LeavesPlaces(pool, target, quotas) == FirstBlocks(pool, quotas)

\* Then the best of the rest.
Select(pool, target, quotas) ==
    LET first == FirstBlocks(pool, quotas)
        rest == InOrder(pool \ ToSet(first))
    IN  FirstOf(first \o rest, target)

\* select_candidates, over the ways in which its numbers may round.
SelectCandidates(pool, target, weights) ==
    {Select(pool, target, quotas) : quotas \in Quotas(target, weights)}

-----------------------------------------------------------------------------
(* The shares of time *)

PlanQuestion(candidate, seconds, followUps) ==
    [key |-> candidate.key, source |-> candidate.source, seconds |-> seconds,
     followUps |-> followUps]

Seconds(questions) == SumFunction([i \in DOMAIN questions |-> questions[i].seconds])

\* PlannerQuestionDraft, which no question with another share of time is made into.
FitsSchema(questions) ==
    \A i \in DOMAIN questions :
        questions[i].seconds \in MinQuestionSeconds..MaxQuestionSeconds

\* _deterministic_questions, before the schema sees them.
DeterministicQuestions(selected, total) ==
    LET n == Len(selected)
    IN  [i \in 1..n |->
            PlanQuestion(selected[i],
                         Max({MinQuestionSeconds,
                              (total \div n) + IF i <= total % n THEN 1 ELSE 0}),
                         selected[i].followUps)]

\* The schema and validate_planner_draft: the model may only order what was selected,
\* share out the time and lower the follow-up budgets.
ValidDraft(draft, selected, total) ==
    /\ FitsSchema(draft)
    /\ Len(draft) = Len(selected)
    /\ {draft[i].key : i \in DOMAIN draft} = {selected[i].key : i \in DOMAIN selected}
    /\ Seconds(draft) = total
    /\ \A i \in DOMAIN draft : \E c \in ToSet(selected) :
         c.key = draft[i].key /\ draft[i].followUps \in 0..c.followUps

\* run_planner needs the time to give every question its minimum.
EnoughTime(selected, total) == total >= Len(selected) * MinQuestionSeconds
=============================================================================
