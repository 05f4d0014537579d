\* Two peers that propose; one may leave and serves damaged chunks.  Snapshots
\* at heights 2 and 4, of which one is kept; the limits of the code, scaled to
\* two chunks.
SPECIFICATION Spec
CONSTANTS
    Gone = Gone
    PeerOrder <- Peers2
    Proposers = {"p", "q"}
    Damaged = {"q"}
    Leavers = {"q"}
    ChunkCount = 2
    IntervalBlocks = 2
    RetentionCount = 1
    MaxConcurrentChunkRequests = 2
    PerPeerChunkConcurrency = 1
    PerChunkRetryBudget = 2
    Chains <- TwoChains
    StartHeight = {0}
    CommitLag = 1
    MaxHeight = 4
    MaxCrashes = 1
    MaxCopies = 1
PROPERTIES
    RestoredOperators
CHECK_DEADLOCK FALSE
