SPECIFICATION FairSpec
CONSTANTS
    MaxPackets = 3
INVARIANTS
    CallbacksSurvive
CHECK_DEADLOCK FALSE
