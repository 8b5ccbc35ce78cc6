SPECIFICATION Spec
CONSTANTS
    Users = {u1, u2}
    Branches = {b1, b2}
    None = None
    Copies = {c1}
    Moves = {m1}
    Arrivals = {a1}
    Adds = {}
    MaxLoans = 2
PROPERTY
    NoDoubleLoan
CHECK_DEADLOCK FALSE
