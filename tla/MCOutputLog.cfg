SPECIFICATION FairSpec
CONSTANTS
    MaxScrollbackBytes = 4
    MaxOutputChunks = 3
    MaxCodePoint = 3
    MaxOutput = 7
    MaxLosses = 1
    NoPoll = NoPoll
INVARIANTS
    ScrollbackIsLongestSuffix
    PollIsGapless
PROPERTIES
    GapsAreAnnounced
    ViewCatchesUp
