SPECIFICATION Spec
CONSTANTS
    Conns = {c1, c2}
    Workers = {w1}
    Ids = {a, b}
    Loads <- SafetyLoads
    MaxRequests = 3
    QueueDepth = 1
    OutputChunks = 1
SYMMETRY IdAndConnSymmetry
CHECK_DEADLOCK FALSE
INVARIANTS
    RegistryExact
    ResponsesLegal
    WriterOutlivesSenders
PROPERTIES
    StoppedStaysSilent
