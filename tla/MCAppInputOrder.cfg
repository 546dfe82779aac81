SPECIFICATION Spec
CONSTANTS
    MaxGenerations = 2
    s1 = s1
    s2 = s2
    Sockets = {s1, s2}
    NoSocket = NoSocket
    MaxInputs = 2
    MaxPending = 2
    MaxChunks = 2
    MaxCombined = 2
    RetryLimit = 2
INVARIANT InputOrderKept
CHECK_DEADLOCK FALSE
