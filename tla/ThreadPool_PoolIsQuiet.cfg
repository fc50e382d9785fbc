SPECIFICATION Spec
CONSTANTS
    NThreads = 3
    Kinds <- MCKinds
    Chunks = 12
    Counts <- MCCounts
    MayVary = TRUE
    MaxGraphs = 2
INVARIANT
    PoolIsQuiet
CHECK_DEADLOCK FALSE
