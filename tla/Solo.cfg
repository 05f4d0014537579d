CONSTANTS
    Members <- One
    Weights <- Equal1
    LastView = 5
    Node <- MCNode
    WeightOf <- MCWeightOf
    RoundRobin <- MCRoundRobin
    Accumulator <- MCAccumulator
    Payload = {p, q}
    Refusable = {p}
    FailingBuilders <- MCNode
    FailingApps <- MCNode
    MinBlockInterval = TRUE
    MaxView = 4
    MaxRestarts = 1
    MaxCommits = 4
    MaxTimeouts = 3
CONSTRAINT MCBound
SPECIFICATION MCSpec
INVARIANTS
    TypeOK
    RecordedIsPresented
PROPERTIES
    PersistBeforeSend
