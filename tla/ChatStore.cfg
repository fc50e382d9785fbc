SPECIFICATION Spec
CONSTANTS
    None = None
    MaxSends = 2
    MaxConvs = 2
    MaxEvents = 3
    MaxUnread = 1
    MaxParts = 1
INVARIANTS
    TypeOK
    FlagsMatchSends
    AnswersArrive
PROPERTY
    SendEnds
CHECK_DEADLOCK FALSE
