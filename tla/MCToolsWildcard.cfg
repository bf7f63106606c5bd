\* The violated run of the mirror; bounds as in MCTools.cfg.  One cycle published
\* beside the wildcard pair, between the inventory and a range, is enough.
SPECIFICATION MCSpec
CONSTANTS
    Rows <- MCRows
    Contains = 1
    MaxDumps = 2
    None = None
    Torn = Torn
    f000 = f000
    f003 = f003
    Paths <- MCPaths
    Wildcard = Wildcard
    Length <- MCLength
    MaxByte = 3
    Window = 2
    DumpTimeout = 2
    Slack = 3
    MaxChunk = 2
    MaxSent = 3
    Windows <- MCWindows
    Engines <- MCEngines
    CellMaps <- MCCellMaps
    N_ARCHIVE_BUCKETS = 3
    N_BUCKETS = 2
    MaxStarts = 2
    N_PLANES = 3
    SATS_PER_PLANE = 4
    NGateways = 3
    NUts = 251
INVARIANT
    OffsetsAlwaysMatch
