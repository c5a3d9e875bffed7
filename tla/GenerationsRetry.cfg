SPECIFICATION Spec
CONSTANTS
    None = None
    i1 = i1
    i2 = i2
    r1 = r1
    r2 = r2
    Inodes = {i1, i2}
    Requests = {r1, r2}
    Scenarios <- SomeScenarios
CHECK_DEADLOCK FALSE
INVARIANT
    StaleIsRetryable
