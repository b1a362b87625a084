CONSTANTS
    a1 = a1
    a2 = a2
    a3 = a3
    NoEntry = NoEntry
    Addrs = {a1, a2}
    Knocker = a1
    Limit = 1
    SweepEvery = 2
    Idle = 1
    MaxTime = 3
    MaxIds = 3
    MaxStreams = 1
SPECIFICATION FairSpec
PROPERTY IdleIsReleased
CHECK_DEADLOCK FALSE
