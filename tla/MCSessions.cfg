SPECIFICATION MCSessionsSpec
CONSTANTS
    s1 = s1
    s2 = s2
    d1 = d1
    d2 = d2
    c1 = c1
    c2 = c2
    t1 = t1
    t2 = t2
    agent1 = agent1
    agent2 = agent2
    None = None
    Targets <- MCTargets
    Sources <- MCSources
    AccessOf <- MCAccessOf
    Never = 9
    Sessions = {s1, s2}
    Devices = {d1}
    Callers = {c1}
    Grants = {1}
    DirectGrants = {1}
    SnapshotTTL = 1
    DeviceTTL = 4
    MaxTime = 1
    Starts = {0}
    Deadlines = {}
    Lifetimes = {3}
    Chains <- MCOneChain
    Memberships = {}
    Reports <- MCAllReports
    MaxRevision = 1
INVARIANTS
    TypeOK
    EndingIsCommanded
    StatusFollowsLog
    SequenceTakenOnce
PROPERTIES
    ImplementsLifecycle
SYMMETRY
    MCSymmetry
CHECK_DEADLOCK FALSE
