\* Four ASes, with cycles of two, three and four and up to two supernodes, or
\* with peers.
SPECIFICATION FairSpec
CONSTANTS
    ASNs = {1, 2, 3, 4}
    Inputs <- MCInputs
INVARIANTS
    ComponentsAreStrong
    NeighboursExist
    EveryAsnResolves
    RelationsKept
    LevelsMatchRanks
PROPERTIES
    GraphEnds
