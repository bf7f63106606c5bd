\* Bounds: two platforms, one intent and one change of the store, which returns
\* dictionaries or messages; up to three satellites and two sites, and Walker shells
\* of up to four; three models to concatenate; panels of up to four planes of three
\* satellites and a second shell, in units of 5 degrees.
SPECIFICATION MCSpec
CONSTANTS
    None = None
    Circle <- MCCircle
    MeanAnomaly <- MCMeanAnomaly
    MeanMotion <- MCMeanMotion
    Ids = {"satellite-1", "satellite-2"}
    Motions <- MCMotions
    AntennaId = "antenna-1"
    INSTALLED = INSTALLED
    WITHDRAWN = WITHDRAWN
    IntentStates = {INSTALLED, WITHDRAWN}
    Torn = Torn
    StateNumber <- MCStateNumber
    MaxChanges = 1
    Templates <- MCTemplates
    Sites = {0, 2}
    RefEpochs = {1}
    SEMIMAJOR_AXIS = 1
    PHASING_F = 1
    Constellations <- MCConstellations
    NModels = 3
    NSatOf <- MCNSatOf
    Uids <- MCUids
    Turn = 72
    Panels <- MCPanels
    Presets <- MCPresets
    CUSTOM = "Custom (Walker)"
INVARIANTS
    EpochsReconciled
    ReplayIsLive
    ModelIsConsistent
    TransformAgrees
    CircularComesBack
    PlanesArePreserved
    GeneratorsAgree
