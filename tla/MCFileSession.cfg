SPECIFICATION FairSpec
CONSTANTS
    t1 = t1
    t2 = t2
    Transfers = {t1, t2}
    l1 = l1
    Lists = {l1}
    p1 = p1
    Prepares = {p1}
    m1 = m1
    Mutations = {m1}
    h1 = h1
    h2 = h2
    Helpers = {h1, h2}
    MaxLeases = 1
    NoOp = NoOp
    NoHelper = NoHelper
    Rejected = Rejected
INVARIANTS
    NoHelperLeak
    DisposedIsFinal
PROPERTIES
    CleanTransfersOnly
    EveryTransferEnds
