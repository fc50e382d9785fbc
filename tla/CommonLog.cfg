SPECIFICATION Spec
CONSTANTS
    f1 = f1
    f2 = f2
    Files <- MCFiles
    None = None
    Capacity = 2
    MaxCalls = 4
    AnyPause = FALSE
INVARIANTS
    TypeOK
    OneEndMark
PROPERTIES
    ImplementsQueue
    PauseReturns
CHECK_DEADLOCK FALSE
