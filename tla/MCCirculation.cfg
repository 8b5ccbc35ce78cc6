SPECIFICATION Spec
CONSTANTS
    Users = {u1, u2}
    Branches = {b1}
    None = None
    Copies = {c1, c2}
    Titles = {t1}
    isbn <- OneTitle
    Issues = {i1, i2, i3}
    Returns = {r1, r2}
    Reserves = {w1}
    MaxBorrow = 1
    FineLimit = 1
    Balances = {0, 2}
SYMMETRY Symmetry
INVARIANTS
    NoDoubleCheckout
    HolderAgrees
    HeldForReserver
    AssignedOnce
    LimitUntilReturn
PROPERTY
    ImplementsLedger
