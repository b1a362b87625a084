CONSTANTS
    Slots = {1, 2, 3}
    UserConns = {c1, c2}
    DialTimeout = 1
    ReplyTimeout = 1
    BackoffMax = 2
    KeepAlive = 1
    MaxVisitors = 1
    MaxEvents = 2
SPECIFICATION ClientFairSpec
INVARIANTS RecoversWithin SocksReopens VisitorsExact
PROPERTIES CancelEnds SessionReleased
