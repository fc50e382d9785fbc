SPECIFICATION Spec
CONSTANTS
    s0 = s0
    s1 = s1
    KvSize = 4
    Seqs <- MCSeqs
    DefaultSeq = s0
    AnySeq = AnySeq
    MaxPos = 1
    Bounds <- MCBounds
    Batches <- MCBatches
    MaxAuto = 1
    Blobs <- MCBlobs
    NUbatch = 2
    Pad = 2
    DefragMin = 4
    DefragThold = 10
    MaxMoves = 2
    Deltas <- MCDeltas
    UpdateStatuses <- MCOk
    CallerUpdates = TRUE
PROPERTY
    DecodeErrorRestores
