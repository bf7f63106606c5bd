\* Bounds: two cells, one sample, two levels, grids of up to four candidates; 16
\* ticks, up to 3 crossings, 7 brackets.
SPECIFICATION MCSpec
CONSTANTS
    Cells = {c1, c2}
    Samples = 1
    Ks = {1, 2}
    PlanesRanges <- MCPlanesRanges
    InclinationRanges <- MCInclinationRanges
    SppValues <- MCSppValues
    Target = 1
    Grade = 1
    MaxGridCells = 4
    None = None
    Horizon = 16
    Elevations <- MCElevations
    Brackets <- MCBrackets
INVARIANTS
    HarderNeedsMore
    OneSmallestWinner
    SignChangeIsKept
    FoundWithinTolerance
