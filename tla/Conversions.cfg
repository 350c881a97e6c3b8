CONSTANTS
    GroupBits = 2
    Groups = 4
    V4Texts <- MCV4Texts
    V6Texts <- MCV6Texts
    PathTexts <- MCPathTexts
    ComparedPrefixes <- MCComparedPrefixes
SPECIFICATION Spec
INVARIANTS
    IPv4Exact
    IPv6Exact
    CidrRoundTrips
    ContainedAndGreater
    LoopsFound
