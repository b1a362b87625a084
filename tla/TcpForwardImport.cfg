CONSTANTS
    ext = ext
    out = out
    lo = lo
    v1 = v1
    v2 = v2
    NoVisitor = NoVisitor
    Visitors = {v1}
    Hosts = {ext, lo}
    Loopback = {lo}
    AllowFrom = {ext, lo}
    Limit = 1
    Blacklists <- Lists
    Imported <- Lists
    MaxOps = 1
SPECIFICATION Spec
INVARIANT BlacklistEnforced
CHECK_DEADLOCK FALSE
