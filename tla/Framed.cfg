SPECIFICATION Spec
CONSTANTS
    SizeMax = 15
    Versions <- MCVersions
    FirstFrames <- MCFirstFrames
    Frames <- MCFrames
    MaxFrames = 2
    MaxFrameLength = 70
    ChunkSizes = {7}
    RequestSizes = {1}
    MaxRequests = 2
INVARIANTS
    FramesArriveIntact
    NothingStuck
    
CHECK_DEADLOCK FALSE
