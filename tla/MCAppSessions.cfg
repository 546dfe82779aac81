SPECIFICATION FairSpec
CONSTANTS
    MaxResults = 3
    MaxCloses = 1
    MaxSends = 1
INVARIANTS
    NoSessionAbandoned
    ShownSessionIsCurrent
    ConfirmationBoundToSession
PROPERTY ResultsHandled
CHECK_DEADLOCK FALSE
