SPECIFICATION FairSpec
CONSTANTS
    Requests = {q1, q2, q3}
    Keys = {k1}
    key <- OneKey
    Processes = {p1, p2}
    None = None
    MaxOverruns = 1
    MaxLate = 1
    MaxRestarts = 1
INVARIANTS
    OncePerProcess
    ReplayIsGenuine
PROPERTY
    KeyReleased
CHECK_DEADLOCK FALSE
