SPECIFICATION FairSpec
CONSTANTS
    MaxEvents = 1
    Window = 2
    MaxSuppressed = 2
    NoTimer = NoTimer
    MaxRecords = 6
    BindWindow = 2
    BindInterval = 1
INVARIANTS
    NothingLeftBehind
    SuppressionIsAnnounced
    EveryRecordAccounted
PROPERTIES
    
    SuppressionIsSummarised
CHECK_DEADLOCK FALSE
