SPECIFICATION Spec
CONSTANTS
    NumQuestions <- MCNumQuestions
    FollowUpBudget <- MCFollowUpBudget
    AllocatedSeconds <- MCAllocatedSeconds
    TimePoints = {70}
    None = None
    Sockets = {s1, s2}
    Requests = {}
    Answers = {e1}
    SocketOps = {"start", "submit", "retry", "restate", "pause", "resume", "finish"}
    RequestOps = {}
    MaxRestatements = 1
    Faults = TRUE
SYMMETRY MCSymmetry
INVARIANTS
    OneTurnAtATime
    RetriesRepeatNothing
    AnswersStoredOnce
    ContextMatchesTranscript
    StalledTurnIsRetryable
    OneOpenSegment
CHECK_DEADLOCK FALSE
