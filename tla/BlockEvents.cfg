SPECIFICATION Spec
CONSTANTS
    Micro = 3
    Pool = "pool"
    MaxCoin = 9
    MaxHeight = 3
    Chains <- BothChains
    Inherits <- Inheritances
    MaxWindow = 2
    RawEventLimit = 12
    StrictUnknown = FALSE
    Faults <- AllFaults
    MaxFaults = 1
    MaxRepairs = 2
INVARIANTS
    TypeOK
    LedgerMatchesChain
    InventoryIsLedger
    InfusionIsNewest
    EconomyIsNewest
    SequencesAreDense
    TimelineComplete
    ResolvedTookEffect
    RawMirrorWhole
CHECK_DEADLOCK FALSE
