SPECIFICATION FairSpec
CONSTANTS
    NumQuestions <- MCNumQuestions
    FollowUpBudget <- MCFollowUpBudget
    AllocatedSeconds <- MCAllocatedSeconds
    TimePoints <- MCTimePoints
INVARIANTS
    AsksPlanInOrder
    CoverageBeforeEarlyFinish
PROPERTIES
    EventuallyCloses
CHECK_DEADLOCK FALSE
