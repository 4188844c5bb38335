SPECIFICATION Spec
CONSTANTS
    Addr <- One
    Validators = {v1, v2}
    MaxHeight = 3
    MaxLag = 2
    BatchLimit = 1
    Kinds <- Both
    Inherited <- One
    Legacy <- One
    Open <- One
    Owned <- One
    Broken = {}
    Bulk = TRUE
    Defer = TRUE
    AsyncCommit = TRUE
    Activation = 2
    Faults <- AllFaults
    MaxFaults = 2
INVARIANTS
    TypeOK
    EvidenceIsCurrent
    ShownIsCurrent
    EvidenceNeverAhead
    ReceiptsAreRequested
    RetiredMeansGone
    OpenMeansHeld
PROPERTIES
    ReplayKeepsNewerEvidence
CHECK_DEADLOCK FALSE
