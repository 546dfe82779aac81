SPECIFICATION FairSpec
CONSTANTS
    MaxGenerations = 2
    s1 = s1
    s2 = s2
    Sockets = {s1, s2}
    NoSocket = NoSocket
    MaxInputs = 3
    MaxPending = 2
    MaxChunks = 2
    MaxCombined = 2
    RetryLimit = 2
INVARIANTS
    SingleTransport
    InputAccounted
    OrderKeptOutsideHandoff
PROPERTY ViewComesBack
CHECK_DEADLOCK FALSE
