SPECIFICATION FairSpec
CONSTANTS
    MaxHeight = 8
    Earliest = 1
    TipSkew = 0
    StartHeight = 0
    Inherited <- EmptyOrOlder
    StopHeight = 7
    OneShot = FALSE
    AllowReplay = FALSE
    BatchSize = 2
    BulkEnabled = TRUE
    BulkWindow = 3
    BulkLagThreshold = 3
    BulkAsyncCommit = TRUE
    BulkDeferProjections = TRUE
    SyncingLag = 2
    Activation = 6
    Faults <- Passing
    MaxFaults = 2
    MaxCopies = 3
INVARIANTS
    DoneMeansReady
PROPERTIES
    CatchesUp
    ProjectionsReturn
CHECK_DEADLOCK FALSE
