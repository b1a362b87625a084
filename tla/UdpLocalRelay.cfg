CONSTANTS
    a1 = a1
    a2 = a2
    a3 = a3
    Addrs = {a1, a2, a3}
    Limit = 2
    MaxSocks = 3
SPECIFICATION FairSpec
INVARIANTS TableBounded EntryIsOwn ConnsExact
PROPERTY StopReleasesAll
CHECK_DEADLOCK FALSE
