SPECIFICATION DSpec
CONSTANTS
    Events = {e1, e2}
    Relays = {w1, w2}
    Consumers = {c1}
    Limit = 2
    MaxRetry = 2
    MaxCrashes = 1
    MaxDbErrors = 1
    Count = 2
    MaxFaults = 1
INVARIANTS
    OneOwner
    PublishedWasDelivered
    DuplicatesAreCounted
    HandledAsOftenAsCounted
    OrphansAreLosses
PROPERTY
    EveryEventHandled
CHECK_DEADLOCK FALSE
