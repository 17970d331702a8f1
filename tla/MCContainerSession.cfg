SPECIFICATION MCSpec
CONSTANTS
    s1 = s1
    s2 = s2
    h1 = h1
    h2 = h2
    Nobody = Nobody
    Sessions = {s1}
    Handlers = {h1, h2}
    Routes = {s1, s2}
    SSH = FALSE
    Outcomes = {"ok", "failed", "unsynced"}
    Revisions = {1, 2}
    MaxEvents = 3
    SnapshotTTL = 2
    MaxTime = 2
INVARIANTS
    AgentTypeOK
    RunsOnlyDurably
    RunsUnderLease
    AckMeansSaved
    OneRunner
    EventsOrderly
PROPERTIES
    ExpiryCancelsOnlyLapsed
CHECK_DEADLOCK FALSE
