CONSTANTS
    v1 = v1
    v2 = v2
    v3 = v3
    Addrs = {v1, v2, v3}
    Ids <- ConnIds
    MaxSocks = 2
    MaxConns = 2
    SweepEvery = 1
    MaxQueue = 1
SPECIFICATION ReverseSpec
INVARIANTS TableIsOpen ConnsExact NoLeftovers
PROPERTY ReverseIsService
CHECK_DEADLOCK FALSE
SYMMETRY Symmetry
