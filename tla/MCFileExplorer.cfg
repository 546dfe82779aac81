CONSTANTS
    Top = Top
    Sub = Sub
    Names = {n1, n2}
    MaxLoads = 3
    MaxActions = 1
    MaxVersion = 2
SPECIFICATION FairSpec
INVARIANTS ListingIsCurrent DoneIsRefreshed
PROPERTY OnlyConfirmedIsDestroyed EveryLoadEnds
CHECK_DEADLOCK FALSE
