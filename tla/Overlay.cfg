SPECIFICATION FairSpec
CONSTANTS
    Peers = {"b", "q"}
    Bootstraps = {"b"}
    Talkers = {"b"}
    Kinds = {"vote"}
    KindRate <- MCKindRate
    BytesRate = 1
    OutboundRate = 1
    Burst = 1
    ViolationWindow = 1
    MaxViolations = 1
    Sizes = {1, 2}
    OutSizes = {1}
    SwarmCap = 1
    EventCap = 1
    CmdCap = 1
    DiscoCap = 1
    MaxIncoming = 1
    MaxReplies = 1
    MaxCalls = 1
    MaxMessages = 2
    MaxFaults = 1
    MaxTime = 1
INVARIANTS
    TypeOK
    PeersConverge
    AdmissionBounded
PROPERTIES
    Reconnects
CHECK_DEADLOCK FALSE
