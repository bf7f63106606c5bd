SPECIFICATION Spec
CONSTANTS
    NTime = 3
    NSat = 2
    NCell = 3
    Ks <- MCKs
    PlaneUid <- MCPlaneUid
    Req <- MCReq
    Views <- MCViews
    Chunks <- MCChunks
    Workers <- MCWorkers
    MayFail = FALSE
PROPERTIES
    ShardedIsMonolithic
CHECK_DEADLOCK FALSE
