\* The default options, and the multihomed modes 2 (with seeds at the origin
\* only) and 3; every graph of four ASes.
SPECIFICATION Spec
CONSTANTS
    ASNs = {1, 2, 3, 4, 9}
    NoAnn = NoAnn
    NoRow = NoRow
    ASes = {1, 2, 3, 4}
    NonStubs = {1, 2, 3, 4}
    Topologies <- AllGraphs
    Rows <- MCRows
    MCPaths <- PathsOfFour
    MCTimes = {1}
    MaxRows = 2
    Options <- MCOptions
INVARIANTS
    MultihomedHeard
    RoutesCurrent
