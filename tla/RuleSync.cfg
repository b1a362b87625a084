CONSTANTS
    r1 = r1
    p1 = p1
    NoSpec = NoSpec
    Header = Header
    Ids = {r1}
    Specs <- AllSpecs
    RuleSets <- OneRuleMoves
    Panels = {p1}
    TakenPorts <- Busy
    Timings = {TRUE, FALSE}
    MaxSess = 2
    MaxChanges = 1
    MaxStarts = 4
    RacingSets <- OneRule
    MaxRacing = 2
SPECIFICATION FairSpec
INVARIANTS NoPushMissed ListenersAgree 
PROPERTY Converges
CHECK_DEADLOCK FALSE
