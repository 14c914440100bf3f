SPECIFICATION Spec
CONSTANTS
    Format = "double"
    Size = 4
    Versions = {v1}
    FirstVersion = v1
    NoTeam <- MCNoTeam
    NoMatch <- MCNoMatch
    Teams <- MCTeams
    Matches <- MCMatches
    Feeds <- MCFeeds
    Direct <- MCDirect
    GF1 <- MCGF1
    GF2 <- MCGF2
INVARIANTS
    TypeOK
    ResetOnlyIfNeeded
    EndsWithOneChampion
    NeverStuck
CHECK_DEADLOCK FALSE
