SPECIFICATION Spec
CONSTANTS
    SizeMax = 5
    FirstKinds = {"SETUP", "SETUP_VERSION", "SETUP_INVALID", "RESUME", "RESUME_VERSION", "REQUEST", "UNKNOWN"}
    LaterKinds = {"REQUEST", "SETUP"}
    HandlerChoices = {"connect", "later", "refuse"}
    InlineExecutor = FALSE
    RequestSizes = {1, 5}
    MaxFrames = 3
    MaxWrites = 2
    MaxRequests = 2
INVARIANTS
    ReadInOrder
    WrittenInOrder
    HandedOverOnce
PROPERTIES
    EndReachesSocket
CHECK_DEADLOCK FALSE
