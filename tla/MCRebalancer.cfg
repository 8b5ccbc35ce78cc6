SPECIFICATION Spec
CONSTANTS
    b1 = b1
    b2 = b2
    Users = {u1}
    Branches = {b1, b2}
    None = None
    Runners = {r1}
    Movers = {m1}
    Completers = {k1, k2}
    NCopies = 4
    isbn <- Pairs
    Where <- OneShelf
    Dist <- Km
    Cap = 1
    SurgeWeek = 1
    SurgeMonth = 2
    ModerateWeek = 1
    ModerateMonth = 1
    Wanted = {1}
    MaxDemand = 1
    MaxTransfers = 2
SYMMETRY SameThreads
INVARIANTS
    BackpressureBounded
    OpenTransfersMove
PROPERTY
    PlanLeavesStock
CHECK_DEADLOCK FALSE
