SPECIFICATION FairSpec
CONSTANTS
    Start = 2
    LastHeight = 9
    CalmBlocks = 6
    Peers <- MCPeers
    StoredFrom <- MCStoredFrom
    Ranges = 2
    PendingCap = 6
    ParkedCap = 2
    PerPeer = 1
    MaxAttempts = 3
    InitialBackoff = 1
    MaxBackoff = 2
    NetCap = 2
    TickQueue = 1
    MaxFaults = 1
INVARIANTS
    TypeOK
    ParkedIsRequested
PROPERTIES
    Recovers
