CONSTANTS
    n1 = n1
    t1 = t1
    t2 = t2
    ext = ext
    lo = lo
    NoToken = NoToken
    NoConn = NoConn
    NoFail = NoFail
    Names = {n1}
    Tokens = {t1, t2}
    Hosts = {ext, lo}
    Loopback = {lo}
    Blacklists = {{ext, lo}}
    Imports <- SomeImports
    FirstUsers <- OneUser
    MaxFails = 2
    BlockFor = 1
    MaxConns = 3
    MaxTime = 2
    MaxOps = 2
SPECIFICATION Spec
INVARIANT RegistryAgrees
PROPERTIES LocksLast RemovalKicks
CHECK_DEADLOCK FALSE
