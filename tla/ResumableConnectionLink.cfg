SPECIFICATION Spec
CONSTANTS
    Client = client
    Server = server
    StreamIds = {0, 1}
    Capacity = 1
    SizeMod = 64
    MaxWrites = 2
    MaxTransports = 2
    Deferred = FALSE
    Drained = FALSE
    InOrder = TRUE
    PositionInResume = TRUE
    CallbackSites = {"resumeOk"}
PROPERTY
    ImplementsReliableLink
CHECK_DEADLOCK FALSE
