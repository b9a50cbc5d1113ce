SPECIFICATION FairSpec
CONSTANTS
    Peers = {a}
    Nobody = Nobody
    PingEvery = 2
    MaxBacklog = 2
INVARIANTS
    TypeOK
    SentIfLinked
    NoLostWakeUp
PROPERTIES
    EveryCallReturns
    AnswersMoveOn
    PacketsRevive
    JoinEnds
CHECK_DEADLOCK FALSE
