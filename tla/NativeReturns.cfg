SPECIFICATION FairSpec
CONSTANTS
    Addr <- Two
    Validators = {v1}
    MaxHeight = 3
    MaxLag = 2
    BatchLimit = 2
    Kinds <- Some
    Inherited <- One
    Legacy <- One
    Open = {}
    Owned <- Two
    Broken <- One
    Bulk = TRUE
    Defer = TRUE
    AsyncCommit = TRUE
    Activation = 3
    Faults <- Interruptions
    MaxFaults = 1
PROPERTIES
    EvidenceReturns
CHECK_DEADLOCK FALSE
