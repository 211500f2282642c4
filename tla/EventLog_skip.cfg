SPECIFICATION Spec
CONSTANTS
    None = None
    Clients = {c1}
    Sockets = {s1, s2}
    ClientEvents = {e1}
    MaxConnections = 3
    ReplayLimit = 6
    MaxSequence = 6
INVARIANTS
    NoMessageIsSkipped
CHECK_DEADLOCK FALSE
