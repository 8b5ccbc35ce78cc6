SPECIFICATION Spec
CONSTANTS
    Copies = {c1}
    Payments = {p1, p2}
    Charges = {g1}
    Amounts = {0, 5000}
    Debts = {3000}
    Overdue = {0, 11}
    Waiting = {1}
    Ratings = {40}
    Metadata <- SomeMetadata
    None = None
SYMMETRY Symmetry
INVARIANTS
    AccountBalances
    TakenAsAsked
PROPERTY
    FinesFollowPolicy
CHECK_DEADLOCK FALSE
