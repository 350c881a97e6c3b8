\* A block of three prefixes, two announcements, two timestamps.
SPECIFICATION Spec
CONSTANTS
    Capacity = 3
    Contents = {x, y}
    Tstamps = {0, 1}
    NotWalking = NotWalking
INVARIANTS
    IterationComplete
PROPERTIES
    ImplementsStore
