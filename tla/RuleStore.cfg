CONSTANTS
    r1 = r1
    r2 = r2
    c1 = c1
    c2 = c2
    NoRule = NoRule
    NoRunner = NoRunner
    NoClient = NoClient
    Ids = {r1, r2}
    ClientNames = {c1, c2}
    FirstClients = {c1}
    Forms <- SomeForms
    Taken <- TakenSockets
    Imports <- SomeImports
    MaxOps = 5
    MaxStops = 2
SPECIFICATION FairSpec
INVARIANTS EnabledRulesRun PortsUnique RunnersMatchConfig RefsValid LiveRulesDurable StuckOnlyInShutdown
PROPERTY RulesComeBack
CHECK_DEADLOCK FALSE
