SPECIFICATION Spec
CONSTANTS
    Size = 7
    MaxMoves = {1, 2, 4}
INVARIANTS
    TypeOK
    ScanSucceeds
    ImplementsPlan
    RowsFollowCells
CHECK_DEADLOCK FALSE
