\* No fault at all: two blocks with logs, and the proposals that record weights.
SPECIFICATION Spec
CONSTANTS
    Genesis <- MCGenesis
    Menu <- MCMenu
    Proofs <- MCProofs
    Signers <- MCSigners
    U64Max = 5
    UNBONDING_DELAY = 2
    Window = 3
    MAX_WEIGHT_PROOF_ANCHOR_LAG = 8
    SYSTEM_TX_LIMIT = 16
    MAX_EVIDENCE_AGE = 2
    min_v_eff_delay = 0
    MaxEndpoints = 1
    LogBlocks = 2
    Uncached = {3}
    Failing = {}
    pending_blocks_capacity = 16
    LastBlock = 8
    LiveGap = 2
    Retention = 0
    MaxFaults = 0
INVARIANTS
    HonestProposalAccepted
CHECK_DEADLOCK FALSE
