CONSTANTS
    Members <- Four
    Weights <- Equal4
    LastView = 8
    Node <- MCNode
    WeightOf <- MCWeightOf
    RoundRobin <- MCRoundRobin
    Accumulator <- MCAccumulator
    Payload = {p}
    Refusable = {}
    FailingBuilders = {}
    FailingApps = {}
    MinBlockInterval = FALSE
    MaxView = 7
    MaxRestarts = 1
    MaxCommits = 9
    MaxTimeouts = 99
    Schedule <- Nested
SPECIFICATION ScheduleSpec
CHECK_DEADLOCK FALSE
INVARIANT SentVotesDurable
