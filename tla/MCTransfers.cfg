SPECIFICATION Spec
CONSTANTS
    Users = {u1}
    Branches = {b1, b2}
    None = None
    Copies = {c1, c2}
    Moves = {m1, m2}
    Arrivals = {a1}
    Adds = {n1}
    MaxLoans = 1
SYMMETRY Symmetry
INVARIANTS
    LoanKept
    TransitTracked
PROPERTY
    TransitEndsAtTarget
CHECK_DEADLOCK FALSE
