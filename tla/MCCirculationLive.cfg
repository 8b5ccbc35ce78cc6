SPECIFICATION FairSpec
CONSTANTS
    Users = {u1}
    Branches = {b1}
    None = None
    Copies = {c1, c2}
    Titles = {t1}
    isbn <- OneTitle
    Issues = {i1, i2}
    Returns = {r1}
    Reserves = {w1, w2}
    MaxBorrow = 2
    FineLimit = 1
    Balances = {0}
INVARIANT
    ReservationKept
PROPERTY
    EveryRequestAnswered
