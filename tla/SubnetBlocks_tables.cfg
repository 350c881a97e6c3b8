\* Three bits of address, up to three prefixes with up to three rows; a host
\* may have as many rows as a block must not have, and the stack overflows.
SPECIFICATION FairSpec
CONSTANTS
    Width = 3
    iteration_size = 3
    StackSize = 6
    Tables <- AllTables
    MCPrefixes = 3
    MCRows = 3
INVARIANTS
    ExtrapolatedOnce
    BlocksManageable
PROPERTIES
    PopulateEnds
\* Main ends, or the process does.
CHECK_DEADLOCK FALSE
