\* Bounds: one root of AUTH and STORAGE, two of MODEL; two stores and two file
\* names; presets of two and three satellites, four runs, two failing calls.
SPECIFICATION MCSpec
CONSTANTS
    NRoots <- MCNRoots
    Stores = {s1, s2}
    Paths = {p1, p2}
    NoFile = NoFile
    None = None
    Absent = Absent
    Garbage = Garbage
    Sizes = {2, 3}
    MaxRuns = 4
    MaxFaults = 2
INVARIANTS
    ReprobePicksUp
    OpenStoreHasItsKey
    EveryKeyFileIsRemoved
    LoadedIsOneLoad
PROPERTIES
    RerunLoads
