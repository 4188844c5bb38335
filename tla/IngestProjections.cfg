SPECIFICATION Spec
CONSTANTS
    MaxHeight = 8
    Earliest = 1
    TipSkew = 0
    StartHeight = 0
    Inherited <- EmptyOrOlder
    StopHeight = 0
    OneShot = FALSE
    AllowReplay = FALSE
    BatchSize = 2
    BulkEnabled = TRUE
    BulkWindow = 3
    BulkLagThreshold = 3
    BulkAsyncCommit = TRUE
    BulkDeferProjections = TRUE
    SyncingLag = 2
    Activation = 4
    Faults <- Answered
    MaxFaults = 3
    MaxCopies = 3
INVARIANTS
    ReadyMeansFresh
    CoverageHasNoHole
    AppliedOnce
PROPERTIES
    ImplementsIndexedChain
