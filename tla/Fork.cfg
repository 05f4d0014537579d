CONSTANTS
    Members <- Four
    Weights <- Equal4
    LastView = 12
    Node <- MCNode
    WeightOf <- MCWeightOf
    RoundRobin <- MCRoundRobin
    Accumulator <- MCAccumulator
    Payload = {p}
    Refusable = {}
    FailingBuilders = {}
    FailingApps = {}
    MinBlockInterval = FALSE
    MaxView = 11
    MaxRestarts = 0
    MaxCommits = 9
    MaxTimeouts = 99
    Schedule <- Fork
SPECIFICATION ScheduleSpec
CHECK_DEADLOCK FALSE
INVARIANT Agreement
