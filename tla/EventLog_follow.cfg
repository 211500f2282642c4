SPECIFICATION Spec
CONSTANTS
    None = None
    Clients = {c1}
    Sockets = {s1, s2, s3}
    ClientEvents = {e1}
    MaxConnections = 2
    ReplayLimit = 4
    MaxSequence = 4
SYMMETRY MCSymmetry
INVARIANTS
    OwnEventsAreDelivered
    ClientEventStoredOnce
    ConnectionsTracked
CHECK_DEADLOCK FALSE
