CONSTANTS
    ip1 = ip1
    p1 = p1
    p2 = p2
    none = none
    q1 = q1
    q2 = q2
    NoFail = NoFail
    IPs = {ip1}
    Loopback = {}
    HostAddrs = {}
    Passwords = {p1, p2, none}
    NoPassword = none
    Lists <- AnyList
    Imports <- TwoImports
    Reqs = {q1, q2}
    Admin = q1
    AdminIP = ip1
    MaxFails = 2
    LockTime = 2
    TTL = 1
    MaxCrashes = 1
SPECIFICATION FairSpec
INVARIANTS FewGuessesWhileLocked SettingsDurable
PROPERTY RightPasswordGetsIn
CHECK_DEADLOCK FALSE
