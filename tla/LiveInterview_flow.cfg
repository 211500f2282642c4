SPECIFICATION Spec
CONSTANTS
    NumQuestions <- MCLongNumQuestions
    FollowUpBudget <- MCLongFollowUpBudget
    AllocatedSeconds <- MCLongAllocatedSeconds
    TimePoints = {0, 50, 600}
    None = None
    Sockets = {s1, s2}
    Requests = {r1}
    Answers = {e1, e2, e3, e4, e5}
    SocketOps = {"submit", "retry"}
    RequestOps = {"start"}
    MaxRestatements = 0
    Faults = FALSE
INVARIANTS
    QuestionsAreAsked
    RecordIsComplete
PROPERTIES
    ImplementsFlow
CHECK_DEADLOCK FALSE
