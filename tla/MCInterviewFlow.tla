--------------------------- MODULE MCInterviewFlow ---------------------------
(* Three questions: no budget, one and two follow-ups, and allocations on   *)
(* both sides of the 45 second floor of the coverage rule (300 \div 3 = 100,*)
(* 90 \div 3 = 30).                                                         *)
EXTENDS InterviewFlow

MCNumQuestions == 3
MCFollowUpBudget == <<2, 0, 1>>
MCAllocatedSeconds == <<300, 300, 90>>

\* Every threshold of the guard and its neighbour below.
MCTimePoints == {0, 30, 44, 45, 59, 60, 99, 100, 600}
=============================================================================
