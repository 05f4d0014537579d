CONSTANTS
    Members <- Four
    Weights <- Equal4
    LastView = 9
    Node <- MCNode
    WeightOf <- MCWeightOf
    RoundRobin <- MCRoundRobin
    Accumulator <- MCAccumulator
    Payload = {p, q}
    Refusable = {}
    FailingBuilders = {}
    FailingApps = {}
    MinBlockInterval = FALSE
    MaxView = 8
    MaxRestarts = 0
    MaxCommits = 9
    MaxTimeouts = 99
    Schedule <- Reproposal
SPECIFICATION ScheduleSpec
CHECK_DEADLOCK FALSE
INVARIANT OneProposalPerView
