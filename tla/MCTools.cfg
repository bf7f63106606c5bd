\* Bounds: two dumps of four rows; byte positions up to two behind the end of a
\* file of two; a window of two units after a dump of at most two, and a slack
\* that lets a chunk arrive two units after the window.  The mirror with a wildcard
\* pair and without one.  Archives of up to three buckets, merged by up to two
\* programs.  The scenario with three gateways, three planes of four satellites,
\* and as many terminals as the real one.
SPECIFICATION MCSpec
CONSTANTS
    Rows <- MCRows
    Contains = 1
    MaxDumps = 2
    None = None
    Torn = Torn
    f000 = f000
    f003 = f003
    Paths <- MCPaths
    Wildcard = Wildcard
    Length <- MCLength
    MaxByte = 3
    Window = 2
    DumpTimeout = 2
    Slack = 3
    MaxChunk = 2
    MaxSent = 3
    Windows <- MCWindows
    Engines <- MCEngines
    CellMaps <- MCCellMaps
    N_ARCHIVE_BUCKETS = 3
    N_BUCKETS = 2
    MaxStarts = 2
    N_PLANES = 3
    SATS_PER_PLANE = 4
    NGateways = 3
    NUts = 251
INVARIANTS
    LabelsAreUnique
    DemandsCanBeServed
    DumpIsWhole
    OffsetsMatchGrib
    SampleIsOfTheStream
    ReportIsOfOneWindow
PROPERTIES
    SampleEnds
