\* Every graph of three ASes, the multihomed modes 0 (none) and 1 (automatic),
\* with and without the random tie-break.
SPECIFICATION FairSpec
CONSTANTS
    ASNs = {1, 2, 3, 9}
    NoAnn = NoAnn
    NoRow = NoRow
    ASes = {1, 2, 3}
    NonStubs = {1, 2, 3}
    Topologies <- AllGraphs
    Rows <- MCRows
    MCPaths <- PathsOfThree
    MCTimes = {1, 2}
    MaxRows = 3
    Options <- PlainOptions
INVARIANTS
    TypeOK
    RelationshipHonest
    ValleyFree
    InverseSound
    DeprefNotBetter
    PathsTraced
PROPERTIES
    SeedsKept
    BlockEnds
    ImplementsGaoRexford
