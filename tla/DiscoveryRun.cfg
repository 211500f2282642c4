SPECIFICATION FairSpec
CONSTANTS
    Runs = {r1, r2}
    Workers = {w1, w2}
    MaxConcurrent = 1
    MaxCrashes = 1
    NoRun = NoRun
INVARIANTS
    ActiveWithinCap
    JobAndRunAgree
PROPERTIES
    TerminalIsFinal
    RunsEnd
CHECK_DEADLOCK FALSE
