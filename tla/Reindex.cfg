\* A key that a cancelled rotation would have brought back, and a restart.
SPECIFICATION Spec
CONSTANTS
    Genesis <- MCGenesis
    GenesisBls <- MCGenesisBls
    GenesisOps <- MCGenesisOps
    GenesisInterval = 1
    Menu <- ReindexMenu
    CommandBlocks = 4
    Retention = 1
    MaxCrashes = 1
    min_v_eff_delay = 0
    MaxEndpoints = 2
INVARIANTS
    RecordsComplete
CHECK_DEADLOCK FALSE
