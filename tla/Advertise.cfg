SPECIFICATION FairSpec
CONSTANTS
    Rates = {5, 12}
    MaxPosts = 3
    MaxFaults = 1
    MaxWire = 0
    Retunes = FALSE
INVARIANTS
    TypeOK
    ListedUnderOwnId
    JoinersPlayAtHostsRate
PROPERTIES
    JoinersKept
    BoardKept
    EventuallyUnlisted
