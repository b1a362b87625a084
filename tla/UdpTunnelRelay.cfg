CONSTANTS
    a1 = a1
    a2 = a2
    a3 = a3
    NoEntry = NoEntry
    Addrs = {a1, a2, a3}
    Knocker = a1
    Limit = 2
    SweepEvery = 2
    Idle = 0
    MaxTime = 2
    MaxIds = 4
    MaxStreams = 2
SPECIFICATION FairSpec
INVARIANT OneStream
PROPERTIES TunnelIsService KnownReleaseIdle
CHECK_DEADLOCK FALSE
