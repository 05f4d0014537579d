SPECIFICATION Spec
CONSTANTS
    Genesis <- MCGenesis
    Menu <- ReboundMenu
    Proofs = {}
    Signers <- MCSigners
    U64Max = 5
    UNBONDING_DELAY = 2
    Window = 3
    MAX_WEIGHT_PROOF_ANCHOR_LAG = 8
    SYSTEM_TX_LIMIT = 16
    MAX_EVIDENCE_AGE = 2
    min_v_eff_delay = 0
    MaxEndpoints = 1
    LogBlocks = 6
    Uncached = {3}
    Failing = {9}
    pending_blocks_capacity = 16
    LastBlock = 11
    LiveGap = 2
    Retention = 0
    MaxFaults = 0
INVARIANTS
    WeightsOutliveViews
CHECK_DEADLOCK FALSE
