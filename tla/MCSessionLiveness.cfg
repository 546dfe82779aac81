SPECIFICATION FairSpec
CONSTANTS
    Ids = {s1, s2}
    Pids = {p1, p2}
    NoPid = NoPid
    MaxSessions = 1
    MaxSessionAge = 2
    IdleGrace = 1
    MaxKillFaults = 2
CHECK_DEADLOCK FALSE
PROPERTIES
    EverySessionEnds
INVARIANTS
    ProcessesBounded
