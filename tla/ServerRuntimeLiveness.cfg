SPECIFICATION FairSpec
CONSTANTS
    Conns = {c1}
    Workers = {w1}
    Ids = {a, b}
    Loads <- LivenessLoads
    MaxRequests = 2
    QueueDepth = 1
    OutputChunks = 1
CHECK_DEADLOCK FALSE
PROPERTIES
    JobsEnd
    ConnectionsEnd
