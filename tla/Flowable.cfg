SPECIFICATION Spec
CONSTANTS
    Chains <- MCChains
    Lengths = {0, 1, 2, 6}
    Ends = {"onComplete", "onError"}
    Limit = 2
    Batches = {0, 2, 3, 5}
    RequestSizes = {1, 3, 5}
    MaxRequests = 3
    Infinite = 5
    Threads = {t1, t2}
INVARIANTS
    NoMoreThanAsked
    EndsOnce
    UpstreamIsThere
PROPERTIES
    Served
CHECK_DEADLOCK FALSE
