SPECIFICATION Spec
CONSTANTS
    Capacity = 3
    SizeMod = 64
    Types = {"PAYLOAD", "KEEPALIVE"}
    Lengths = {1, 2, 5}
    StreamIds = {1, 3}
    MaxPosition = 10
    MaxReceived = 1
INVARIANTS
    TypeOK
    ReplayIsExactSuffix
    RetainsWhatFits
    StreamMapMatchesCache
    SizeIsBytesCached
CHECK_DEADLOCK FALSE
