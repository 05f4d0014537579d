CONSTANTS
    Members <- One
    Weights <- Equal1
    LastView = 7
    Node <- MCNode
    WeightOf <- MCWeightOf
    RoundRobin <- MCRoundRobin
    Accumulator <- MCAccumulator
    Payload = {p}
    Refusable = {}
    FailingBuilders <- MCNode
    FailingApps = {}
    MinBlockInterval = FALSE
    MaxView = 6
    MaxRestarts = 0
    MaxCommits = 7
    MaxTimeouts = 6
CONSTRAINT MCBound
SPECIFICATION MCSpec
INVARIANTS
    NoCommitGap
