CONSTANTS
    ASNs = {1, 2, 3, 4, 5}
    NoAnn = NoAnn
    ASes = {1, 2, 3, 4}
    NonStubs = {1, 2, 3, 4}
    Topologies <- MCGraphs
    Rows <- MCRows
    MaxRows = 1
    Options <- MCOptions
    NoRow = NoRow
    Attacks <- MCAttacks
    NumBetween = {0, 1}
SPECIFICATION EZFairSpec
CHECK_DEADLOCK FALSE
PROPERTY
    RoundsEnd
