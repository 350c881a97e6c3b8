\* Two workers, whatever is stored, and a database that may refuse a file.
SPECIFICATION FairSpec
CONSTANTS
    MaxWorkers = 2
    NumASes = 3
    NumPairs = 2
    NumFullPath = 1
    Stores = {{"depref"}, {"inverse", "depref"},
              {"results", "inverse", "depref"}}
    DbMayFail = TRUE
    MaxBlocks = 2
\* Main ends and no thread is left to run.
CHECK_DEADLOCK FALSE
INVARIANTS
    StreamsUndisturbed
    RowsOfOwnBlock
    ResultsSaved
PROPERTIES
    RunEnds
