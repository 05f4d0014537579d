CONSTANTS
    Members <- Two
    Weights <- Equal2
    LastView = 7
    Node <- MCNode
    WeightOf <- MCWeightOf
    RoundRobin <- MCRoundRobin
    Accumulator <- MCAccumulator
    Payload = {p}
    Refusable = {}
    FailingBuilders = {}
    FailingApps = {}
    MinBlockInterval = FALSE
    MaxView = 6
    MaxRestarts = 1
    MaxCommits = 9
    MaxTimeouts = 99
    Schedule <- Redelivery
SPECIFICATION ScheduleSpec
CHECK_DEADLOCK FALSE
INVARIANT LastCommittedConsistent
