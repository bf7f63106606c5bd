\* Bounds: two instances, one of them protected, one with a predictor; one Walker
\* shape and two epochs; four runs (a tab closed from the middle, and one after
\* it); every subset of eight segments.
SPECIFICATION MCSpec
CONSTANTS
    None = None
    Part = Part
    WalkerShapes = {"s"}
    PROVISION_EPOCH_S = 2
    Instances = {"a", "b"}
    Protected = {"b"}
    Predictors = {"a"}
    Epochs = {1}
    Dump <- DumpedModel
    MaxRuns = 4
    WritesFail = TRUE
    KernelDies = TRUE
    Segments <- MCSegments
    KValues = {1, 2}
    ValueError = ValueError
    p1 = p1
    p2 = p2
    s1 = s1
    s2 = s2
INVARIANTS
    CacheIsTheInstance
    ProvisionKeepsConstellation
    DeltaOfThisRun
    TitlesMatchTabs
    SavedRunsKeepTheirFile
    ResultIsUnion
