\* Bounds: 5 samples, 3 satellites, overlaps 0 (floored to 1) and 2.
SPECIFICATION MCSpec
CONSTANTS
    NTime = 5
    NSat = 3
    PlaneUids <- MCPlanes
    Requests <- MCRequests
INVARIANTS
    IntervalsAreMaximalRuns
    FeasibleIffServingPath
    WorstOverlapIsBestBottleneck
    HandoversOfReportedPath
    FormsAgree
CHECK_DEADLOCK FALSE
