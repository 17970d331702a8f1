SPECIFICATION MCSpec
CONSTANTS
    s1 = s1
    s2 = s2
    d1 = d1
    t1 = t1
    agent1 = agent1
    h1 = h1
    h2 = h2
    None = None
    Nobody = Nobody
    Sessions = {s1}
    Grants = {1}
    DirectGrants = {1}
    Devices = {d1}
    Targets = {t1}
    Sources = {agent1}
    AccessOf <- MCAccessOf
    Callers = {}
    SnapshotTTL = 1
    DeviceTTL = 9
    Never = 9
    MaxTime = 2
    Starts = {0}
    Deadlines = {}
    Lifetimes = {9}
    Chains <- MCChain
    Memberships = {}
    Reports = {}
    MaxRevision = 1
    Agent = agent1
    ReuseMargin = 0
    MaxIssued = 2
    InFlight = 1
    Handlers = {h1}
    Routes = {d1}
    SSH = TRUE
    Outcomes = {"ok"}
    Revisions = {}
    MaxEvents = 2
INVARIANTS
    WithdrawnWithinTTL
PROPERTIES
    LoggedBeforeForgotten
CHECK_DEADLOCK FALSE
