\* No write is ever lost: the only crash comes between two commits.
SPECIFICATION Spec
CONSTANTS
    Genesis <- MCGenesis
    GenesisBls <- MCGenesisBls
    GenesisOps <- MCGenesisOps
    GenesisInterval = 1
    Menu <- MCMenu
    CommandBlocks = 3
    Retention = 0
    MaxCrashes = 1
    min_v_eff_delay = 0
    MaxEndpoints = 2
INVARIANTS
    RestartAccepted
CHECK_DEADLOCK FALSE
