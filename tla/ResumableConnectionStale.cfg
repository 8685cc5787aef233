SPECIFICATION Spec
CONSTANTS
    Client = client
    Server = server
    StreamIds = {0, 1}
    Capacity = 2
    SizeMod = 64
    MaxWrites = 2
    MaxTransports = 2
    Deferred = TRUE
    Drained = FALSE
    InOrder = TRUE
    PositionInResume = FALSE
    CallbackSites = {}
INVARIANT
    ExactlyOnceInOrder
CHECK_DEADLOCK FALSE
