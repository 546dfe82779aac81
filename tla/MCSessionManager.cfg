SPECIFICATION Spec
CONSTANTS
    Ids = {s1, s2, s3}
    Pids = {p1, p2}
    NoPid = NoPid
    MaxSessions = 2
    MaxSessionAge = 2
    IdleGrace = 1
    MaxKillFaults = 2
SYMMETRY Symmetry
INVARIANTS
    NoOrphanProcess
    ShutdownLeavesNothingUsable
    DrainedBeforeExit
PROPERTIES
    OnePtyPerSession
    ImplementsLifecycle
CHECK_DEADLOCK FALSE
