SPECIFICATION Spec
CONSTANTS
    MaxHeight = 6
    Earliest = 1
    TipSkew = 0
    StartHeight = 0
    Inherited <- EmptyOnly
    StopHeight = 0
    OneShot = FALSE
    AllowReplay = FALSE
    BatchSize = 2
    BulkEnabled = TRUE
    BulkWindow = 3
    BulkLagThreshold = 3
    BulkAsyncCommit = TRUE
    BulkDeferProjections = TRUE
    SyncingLag = 2
    Activation = 8
    Faults <- LostAnswerAndCursor
    MaxFaults = 2
    MaxCopies = 3
INVARIANTS
    AppliedOnce
CHECK_DEADLOCK FALSE
