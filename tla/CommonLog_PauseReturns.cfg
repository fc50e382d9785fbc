SPECIFICATION Spec
CONSTANTS
    f1 = f1
    f2 = f2
    Files <- MCFiles
    None = None
    Capacity = 2
    MaxCalls = 4
    AnyPause = TRUE
PROPERTY
    PauseReturns
CHECK_DEADLOCK FALSE
