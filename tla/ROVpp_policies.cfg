CONSTANTS
    NoAnn = NoAnn
    MaxCycles = 3
    MCPolicies <- Mixed
    Inputs <- MCInputs
SPECIFICATION Spec
CHECK_DEADLOCK FALSE
INVARIANTS
    StableRouting
    Converges
    NoHijackAdopted
    HolesGoDown
