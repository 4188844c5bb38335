SPECIFICATION Spec
CONSTANTS
    MaxHeight = 8
    Earliest = 1
    TipSkew = 1
    StartHeight = 0
    Inherited <- EmptyOnly
    StopHeight = 0
    OneShot = FALSE
    AllowReplay = FALSE
    BatchSize = 2
    BulkEnabled = TRUE
    BulkWindow = 3
    BulkLagThreshold = 3
    BulkAsyncCommit = TRUE
    BulkDeferProjections = TRUE
    SyncingLag = 3
    Activation = 4
    Faults <- Survivable
    MaxFaults = 3
    MaxCopies = 3
INVARIANTS
    TypeOK
    IndexedExactlyOnce
PROPERTIES
    CursorNeverRewinds
