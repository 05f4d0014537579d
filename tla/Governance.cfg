\* Three blocks with commands, every put of a commit may be the last one.
SPECIFICATION Spec
CONSTANTS
    Genesis <- MCGenesis
    GenesisBls <- MCGenesisBls
    GenesisOps <- MCGenesisOps
    GenesisInterval = 1
    Menu <- MCMenu
    CommandBlocks = 3
    Retention = 0
    MaxCrashes = 2
    min_v_eff_delay = 0
    MaxEndpoints = 2
INVARIANTS
    TypeOK
    SetsMatchChain
    BlsInStep
    RecordsComplete
    CertificatesVerifiable
PROPERTIES
    ScheduleRefined
CHECK_DEADLOCK FALSE
