SPECIFICATION Spec
CONSTANTS
    u1 = u1
    u2 = u2
    Users = {u1, u2}
    Branches = {b1}
    None = None
    Clerks = {k1, k2}
    NCopies = 2
    MaxBorrow = 1
    Profile <- TwoStudents
    Visitors = {u1}
    Applicants <- NearFarNear
    MaxReturns = 1
    MaxWaiting = 1
SYMMETRY SameClerks
INVARIANTS
    LoansAgree
    OvershootBounded
    RequestServedOnce
    OneQueuePerThread
PROPERTY
    UrgentFirst
CHECK_DEADLOCK FALSE
