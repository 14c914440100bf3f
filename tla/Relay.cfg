SPECIFICATION FairSpec
CONSTANTS
    MaxId = 4
    MaxLen = 2
    BatchMax = 2
    MaxRuns = 1
    MaxFaults = 2
    Malformed = {3}
    Envs <- MCEnvs
INVARIANTS
    TypeOK
    NoSilentGapIfChecked
PROPERTIES
    RepeatsAtMostTheLast
    Served
CHECK_DEADLOCK FALSE
