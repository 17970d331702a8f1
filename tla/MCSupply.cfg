SPECIFICATION MCSpec
CONSTANTS
    Sources = {"a", "b"}
    ProviderOf <- MCProviderOf
    Namespaces = {"n"}
    Names = {1, 2}
    CandidateLease = 2
    MaxRevision = 3
    MaxTime = 3
    Requests = {"r1", "r2", "r3", "r4"}
    KeyOf <- MCKeyOf
    BodyOf <- MCBodyOf
    Retention = 1
    Tenants = {"t"}
INVARIANTS
    AllocationTypeOK
    ScopesUnderActive
    CountIsAllocatable
    EvidenceFollows
    OneOwner
    OccupantsDisjoint
    CreatedOnce
PROPERTIES
    ResumeIsExplicit
    StaleOnlyLapsed
CHECK_DEADLOCK FALSE
