\* Random tie-break, at an AS whose hash keeps the announcement in use (1) and
\* at one whose hash gives every tie to the newcomer (2), as without --random.
SPECIFICATION Spec
CONSTANTS
    ASNs = {1, 2, 3, 4}
    NoAnn = NoAnn
    Selves = {1, 2}
    RandomTiebraking = TRUE
    Seeds <- MCSeeds
    Received <- MCReceived
    MCLengths = {1, 255}
    MaxQueue = 2
    MaxLog = 3
INVARIANTS
    BestIsWinner
