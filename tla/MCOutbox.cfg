SPECIFICATION Spec
CONSTANTS
    o1 = o1
    a1 = a1
    w1 = w1
    w2 = w2
    Observations = {o1}
    Allocations = {a1}
    Workers = {w1}
    MaxAttempts = 2
    Lease = 1
    BaseDelay = 1
    MaxDelay = 1
    ClaimTries = 2
    MaxRevision <- MCBothMove
INVARIANTS
    LagIsOwed
PROPERTIES
    ImplementsProjection
CHECK_DEADLOCK FALSE
