CONSTANTS
    HashPeriod = 6
    MaxHashDelay = 7
    MaxHeartbeats = 2
SPECIFICATION FairSpec
INVARIANTS NoFalseReject NoFalseTimeout
PROPERTIES HeartbeatsGoOn
CHECK_DEADLOCK FALSE
