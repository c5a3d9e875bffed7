SPECIFICATION FairSpec
CONSTANTS
    s1 = s1
    c2 = c2
    s2 = s2
    c1 = c1
    w1 = w1
    w2 = w2
    Stale = Stale
    File = File
    None = None
    Servers = {s1, s2}
    Clients = {c1, c2}
    Workers = {w1, w2}
    QueueDepth = 1
    MaxConnections = 1
CHECK_DEADLOCK FALSE
INVARIANTS
    PathLeadsToServer
    EndedLeavesNothing
PROPERTIES
    ShutdownEnds
