SPECIFICATION FairSpec
CONSTANTS
    Events = {1, 2}
    Workers = {w1, w2}
    NoEvent = NoEvent
    BatchLimit = 2
    MaxAttempts = 2
    MaxCrashes = 1
    MaxRequeues = 1
INVARIANTS
    TypeOK
    ProcessedWasPublished
    FreshClaimIsExclusive
PROPERTIES
    ProcessedIsFinal
    ImplementsAtLeastOnce
    EverythingSettles
CHECK_DEADLOCK FALSE
