SPECIFICATION Spec
CONSTANTS
    NThreads = 3
    Kinds <- MCKinds
    Chunks = 12
    Counts <- MCCounts
    MayVary = FALSE
    MaxGraphs = 2
INVARIANTS
    TypeOK
    PoolIsQuiet
    BarrierInStep
PROPERTIES
    ComputesGraph
    FreeReturns
CHECK_DEADLOCK FALSE
