SPECIFICATION MCGrantsSpec
CONSTANTS
    s1 = s1
    s2 = s2
    d1 = d1
    d2 = d2
    c1 = c1
    c2 = c2
    t1 = t1
    t2 = t2
    agent1 = agent1
    agent2 = agent2
    None = None
    Targets <- MCTargets
    Sources <- MCSources
    AccessOf <- MCAccessOf
    Never = 9
    Sessions = {s1}
    Devices = {d1}
    Callers = {}
    Grants = {1}
    DirectGrants = {}
    SnapshotTTL = 2
    DeviceTTL = 2
    MaxTime = 3
    Starts = {0}
    Deadlines = {2}
    Lifetimes = {3}
    Chains <- MCChains
    Memberships <- MCMembers
    Reports <- MCOneReport
    MaxRevision = 3
INVARIANTS
    LiveSessionsCovered
    LeaseBounded
PROPERTIES
    RenewalFollowsOn
    ExpiryIsDue
CHECK_DEADLOCK FALSE
