SPECIFICATION FairBreaker
CONSTANTS
    Threads = {t1, t2, t3}
    Threshold = 2
    CountCap = 3
INVARIANTS
    CountMatchesState
    OpenAdmitsNobody
PROPERTY
    Recovers
