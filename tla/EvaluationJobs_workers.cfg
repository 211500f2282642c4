SPECIFICATION FairSpec
CONSTANTS
    Workers = {w1, w2, w3}
    Retriers = {r1, r2}
    MaxAttempts = 3
    MaxRetries = 4
    MaxCrashes = 2
    LateWrites = TRUE
INVARIANTS
    AttemptsBounded
    OneEvaluatorAtATime
    JobAndReportAgree
PROPERTIES
    EvaluationSettles
CHECK_DEADLOCK FALSE
