SPECIFICATION Spec
CONSTANTS
    Workers = {w1, w2}
    Memories = {1, 2}
    Questions = {3}
    Targets = {t1, t2}
    Unbound = Unbound
    Dimensions = {384, 1024}
    Existing = {2}
    BatchSize = 2
    MaxReconciliationPasses = 1
    MaxAttempts = 2
    MaxRebuilds = 2
    MaxEvents = 2
INVARIANTS
    IndexRowIsTrue
    PromotesCovered
    OneRequestPerInterview
PROPERTIES
    KeepsAnActiveIndex
    RebuildsEnd
CHECK_DEADLOCK FALSE
