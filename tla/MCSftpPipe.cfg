CONSTANTS
    u1 = u1
    u2 = u2
    d1 = d1
    d2 = d2
    Uploads = {u1, u2}
    Downloads = {d1, d2}
    Requests = {r1}
    MaxPending = 2
    BodyBytes = 2
    NoOp = NoOp
SPECIFICATION FairSpec
INVARIANTS UploadsIntact DownloadsIntact AnswersMatch
PROPERTY EveryCallSettles
CONSTRAINT CalledInTurn
CHECK_DEADLOCK FALSE
