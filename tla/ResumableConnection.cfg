SPECIFICATION Spec
CONSTANTS
    Client = client
    Server = server
    StreamIds = {0, 1}
    Capacity = 1
    SizeMod = 64
    MaxWrites = 2
    MaxTransports = 3
    Deferred = TRUE
    Drained = TRUE
    InOrder = FALSE
    PositionInResume = FALSE
    CallbackSites = {"resumeOk"}
INVARIANTS
    TypeOK
    ExactlyOnceInOrder
    NoStreamFrameWhileResuming
    NoGapAfterResume
    RetainsUndelivered
PROPERTY
    ClosesOnlyWhenForced
CHECK_DEADLOCK FALSE
