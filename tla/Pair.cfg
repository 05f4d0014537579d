CONSTANTS
    Members <- Two
    Weights <- Uneven2
    LastView = 3
    Node <- MCNode
    WeightOf <- MCWeightOf
    RoundRobin <- MCRoundRobin
    Accumulator <- MCAccumulator
    Payload = {p}
    Refusable = {}
    FailingBuilders = {}
    FailingApps = {}
    MinBlockInterval = FALSE
    MaxView = 2
    MaxRestarts = 1
    MaxCommits = 2
    MaxTimeouts = 1
CONSTRAINT MCBound
SPECIFICATION MCSpec
INVARIANTS
    OneVotePerView
    CertifiedUnique
    QcBacked
