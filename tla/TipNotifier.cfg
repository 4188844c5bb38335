SPECIFICATION Spec
CONSTANTS
    Endpoints = 2
    MaxHead = 3
    MaxFaults = 2
INVARIANTS
    TypeOK
    NoLostWakeup
PROPERTIES
    AnnouncedIsAsked
    NotifierFindsSeed
