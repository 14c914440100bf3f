SPECIFICATION Spec
CONSTANTS
    MaxId = 4
    MaxLen = 2
    BatchMax = 2
    MaxRuns = 2
    MaxFaults = 2
    Malformed = {3}
    Envs = {{"raise_in_reset"}}
INVARIANTS
    NoSilentGap
CHECK_DEADLOCK FALSE
