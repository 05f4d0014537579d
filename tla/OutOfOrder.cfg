CONSTANTS
    Members <- Three
    Weights <- Heavy3
    LastView = 6
    Node <- MCNode
    WeightOf <- MCWeightOf
    RoundRobin <- MCRoundRobin
    Accumulator <- MCAccumulator
    Payload = {p}
    Refusable = {}
    FailingBuilders = {}
    FailingApps = {}
    MinBlockInterval = FALSE
    MaxView = 5
    MaxRestarts = 0
    MaxCommits = 9
    MaxTimeouts = 99
    Schedule <- OutOfOrder
SPECIFICATION ScheduleSpec
CHECK_DEADLOCK FALSE
INVARIANT LockDurableBeforeVote
