SPECIFICATION Spec
CONSTANTS
    MaxSignals = 3
    MaxRequests = 2
INVARIANT
    NoSignalAfterCancel
PROPERTY
    UpstreamReleased
CHECK_DEADLOCK FALSE
