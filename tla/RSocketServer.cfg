SPECIFICATION Spec
CONSTANTS
    Clients = {c1, c2, c3}
    Workers = {w1, w2}
    Refusing = {c3}
INVARIANTS
    QuietAfterShutdown
    NothingDangles
PROPERTIES
    ShutdownEnds
CHECK_DEADLOCK FALSE
