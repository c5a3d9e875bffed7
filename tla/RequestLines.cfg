SPECIFICATION Spec
CONSTANTS
    Nesting = 5
    U64Max = 19
    Reserve = 2
    LongIds = {"long"}
    Newline = "n"
    NotUtf8 = "u"
    BufferBytes = 6
    MaxLine = 3
    MaxActive = 2
    MaxTimeout = 4
    Config <- SomeConfig
    Inputs <- SomeInputs
CHECK_DEADLOCK FALSE
INVARIANTS
    LinesInOrder
    RequestsConform
