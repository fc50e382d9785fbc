SPECIFICATION Spec
CONSTANTS
    Sizes = {1, 2}
    MaxNodes = 3
    MaxOutputs = 1
    Limit = 16
    MaxGraphs = 2
INVARIANTS
    TypeOK
    BlocksApart
    MemoryPartition
    SourcesIntact
    OutputsKept
    FitsBuffer
CHECK_DEADLOCK FALSE
