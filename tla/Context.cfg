SPECIFICATION FairSpec
CONSTANTS
    MaxPackets = 3
INVARIANTS
    TypeOK
    NullOnlyInTransit
    NoPacketAsleep
PROPERTIES
    DestroyReturns
CHECK_DEADLOCK FALSE
