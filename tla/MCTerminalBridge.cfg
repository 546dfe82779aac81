SPECIFICATION FairBridgeSpec
CONSTANTS
    Ids = {s1, s2}
    Pids = {p1}
    NoPid = NoPid
    MaxSessions = 2
    MaxSessionAge = 1
    IdleGrace = 1
    MaxKillFaults = 1
    Socks = {k1, k2}
    NoSock = NoSock
    NoId = NoId
    MaxPendingAuth = 1
CHECK_DEADLOCK FALSE
INVARIANTS
    PendingAuthExact
    OneActiveView
PROPERTIES
    OnlyActiveViewWrites
    AuthSlotsRecovered
