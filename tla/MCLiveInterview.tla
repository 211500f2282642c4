--------------------------- MODULE MCLiveInterview ---------------------------
(* Two questions, the first with one follow-up, so that every action of the *)
(* policy is reachable.  The clock of the runs without faults shows plenty, *)
(* too little for a follow-up, and nothing; with faults it stands at 70     *)
(* seconds, where a follow-up, an advance and an early finish are allowed.  *)
EXTENDS LiveInterviewFlow, TLC

MCNumQuestions == 2
MCFollowUpBudget == <<1, 0>>
MCAllocatedSeconds == <<300, 300>>

\* A longer plan for the runs without faults.
MCLongNumQuestions == 3
MCLongFollowUpBudget == <<1, 0, 1>>
MCLongAllocatedSeconds == <<300, 300, 90>>

MCSymmetry == Permutations(Sockets) \cup Permutations(Answers)
=============================================================================
