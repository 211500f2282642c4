SPECIFICATION FairSpec
CONSTANTS
    MaxAnswers = 3
    MaxLosses = 6
    OtherTabs = TRUE
    StatusChanges = TRUE
PROPERTIES
    PendingAnswerSettles
    ForgetsOnlyStoredAnswers
CHECK_DEADLOCK FALSE
