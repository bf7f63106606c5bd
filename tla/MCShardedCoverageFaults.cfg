SPECIFICATION Spec
CONSTANTS
    NTime = 3
    NSat = 2
    NCell = 3
    Ks <- MCKs
    PlaneUid <- MCPlaneUid
    Req <- MCReq
    Views <- MCOneView
    Chunks <- MCOddChunks
    Workers <- MCAllWorkers
    MayFail = TRUE
INVARIANTS
    ContextOutlivesTasks
PROPERTIES
    RunEnds
CHECK_DEADLOCK FALSE
