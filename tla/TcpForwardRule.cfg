CONSTANTS
    ext = ext
    out = out
    lo = lo
    v1 = v1
    v2 = v2
    NoVisitor = NoVisitor
    Visitors = {v1, v2}
    Hosts = {ext, out, lo}
    Loopback = {lo}
    AllowFrom = {ext, lo}
    Limit = 1
    Blacklists <- Lists
    Imported = {{}}
    MaxOps = 2
SPECIFICATION FairSpec
INVARIANTS BlacklistEnforced ConnsExact WithinLimit
PROPERTY QueuedAreDecided
CHECK_DEADLOCK FALSE
