SPECIFICATION Spec
CONSTANTS
    Format = "single"
    Size = 3
    Versions = {v1, v2, v3}
    FirstVersion = v1
    NoTeam <- MCNoTeam
    NoMatch <- MCNoMatch
    Teams <- MCTeams
    Matches <- MCMatches
    Feeds <- MCFeeds
    Direct <- MCDirect
    GF1 <- MCGF1
    GF2 <- MCGF2
INVARIANTS
    ClosedFeedsTarget
    OnePublishedVersion
PROPERTIES
    ArchivedIsFrozen
    ResultsAreFinal
CHECK_DEADLOCK FALSE
