SPECIFICATION Spec
CONSTANTS
    SizeMax = 15
    MaxRequestN = 2
    RequestSizes = {0, 1, 3}
    MaxRequests = 3
    MaxPayloads = 3
    MaxChannelRequests = 1
    MaxChannelPayloads = 2
    FailingProducers = {"responder"}
    SubscribedFirst = TRUE
INVARIANTS
    TypeOK
    CreditConserved
    NoSurplus
    OneTerminalSignal
    CompleteIsWhole
    NoCheckFails
PROPERTY
    EndsAtBothEnds
CHECK_DEADLOCK FALSE
