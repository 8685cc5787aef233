SPECIFICATION Spec
CONSTANTS
    MaxStreamId = 4
    MaxMore = 1
    RegistersIds = TRUE
INVARIANTS
    OnlyOvertakenDropped
    LateFramesHarmless
    NoStreamTwice
CHECK_DEADLOCK FALSE
