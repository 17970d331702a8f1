SPECIFICATION FairSpec
CONSTANTS
    o1 = o1
    a1 = a1
    w1 = w1
    w2 = w2
    Observations = {o1}
    Allocations = {}
    Workers = {w1, w2}
    MaxAttempts = 2
    Lease = 1
    BaseDelay = 1
    MaxDelay = 1
    ClaimTries = 2
    MaxRevision <- MCOneWorkload
INVARIANTS
    OutboxTypeOK
    CheckpointIsHighest
PROPERTIES
    LeaseIsExclusive
    EventsSettle
CHECK_DEADLOCK FALSE
