SPECIFICATION FairSpec
CONSTANTS
    MaxFaults = 4
    MaxSilence = 5
    MaxId = 5
INVARIANTS
    TypeOK
    NothingLeftOpen
PROPERTIES
    IdentityKept
    ConnectionKept
    EventuallyServed
    StopEnds
CHECK_DEADLOCK FALSE
