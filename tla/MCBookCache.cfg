SPECIFICATION FairSpec
CONSTANTS
    Books = {b1, b2}
    Readers = {r1, r2}
    Editors = {e1}
    Desks = {d1}
    Backends = {"memory", "redis"}
    Capacity = 1
    MaxVersion = 2
    None = None
INVARIANTS
    TypeOK
    StaleOnlyByRace
PROPERTY
    StaleEnds
CHECK_DEADLOCK FALSE
