SPECIFICATION Spec
CHECK_DEADLOCK FALSE
CONSTANTS
    RowSizes = {1, 10, 16, 17}
    UnarySizes = {4, 20, 40}
    MaxVisited = 7
    ChunkRows = 5
    MaxRows = 6
    BeginBytes = 6
    ChunkBytes = 3
    EndBytes = 2
    ErrorBytes = 14
    LongErrors = {19, 30}
    FrameLimit = 20
    ResponseLimits = {18, 24, 36, 48, 120}
    Reserve = 17
    MaxSeq = 5
    Powers = {3, 9, 27, 81}
INVARIANTS
    LimitIsReported
