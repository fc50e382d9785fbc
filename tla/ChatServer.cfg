SPECIFICATION Spec
CONSTANTS
    c1 = c1
    c2 = c2
    Conns <- MCConns
    Requests <- MCRequests
    None = None
    NCtx = 6
    PlainMax = 1
    Backlog = 2
INVARIANTS
    TypeOK
    KvInOrder
    KvComplete
    ReplyIsRemembered
PROPERTIES
    EventsGoToRequester
    ImplementsStream
    Served
CHECK_DEADLOCK FALSE
