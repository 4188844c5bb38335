SPECIFICATION FairSpec
CONSTANTS
    Endpoints = 2
    MaxHead = 2
    Parallelism = 2
    Window = 2
    Faults <- AllFaults
    MaxFaults = 1
INVARIANTS
    TypeOK
    DeliveredInOrder
    WindowAccounted
PROPERTIES
    CatchesUp
