\* The violated run of the recording; bounds as in MCConstellation.cfg.  One platform
\* the store serves, returned as a message, is enough.
SPECIFICATION MCSpec
CONSTANTS
    None = None
    Circle <- MCCircle
    MeanAnomaly <- MCMeanAnomaly
    MeanMotion <- MCMeanMotion
    Ids = {"satellite-1", "satellite-2"}
    Motions <- MCMotions
    AntennaId = "antenna-1"
    INSTALLED = INSTALLED
    WITHDRAWN = WITHDRAWN
    IntentStates = {INSTALLED, WITHDRAWN}
    Torn = Torn
    StateNumber <- MCStateNumber
    MaxChanges = 1
    Templates <- MCTemplates
    Sites = {0, 2}
    RefEpochs = {1}
    SEMIMAJOR_AXIS = 1
    PHASING_F = 1
    Constellations <- MCConstellations
    NModels = 3
    NSatOf <- MCNSatOf
    Uids <- MCUids
    Turn = 72
    Panels <- MCPanels
    Presets <- MCPresets
    CUSTOM = "Custom (Walker)"
INVARIANT
    ReplayIsIdentical
