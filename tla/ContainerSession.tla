--------------------------- MODULE ContainerSession ---------------------------
(***************************************************************************)
(* The Agent's side of resource sessions: the authorization cache filled   *)
(* by Server snapshots, the connection handlers that start and end         *)
(* sessions under a captured permission, the expiry timers, and the        *)
(* session manager with the events and acknowledgements it keeps on disk.  *)
(*                                                                         *)
(* Handlers, timer callbacks and the heartbeat receiver are goroutines; an *)
(* action is what one of them does while it holds the manager's or the     *)
(* cache's mutex.                                                          *)
(***************************************************************************)
EXTENDS SessionClock

CONSTANTS
    Handlers,       \* connection handlers of the SSH and the Service proxy
    Routes,         \* SSH route identities: port, user and device
    SSH,            \* the resource is reached by SSH (else it is a Service)
    Outcomes,       \* how saving the state file may turn out
    Revisions,      \* bound: snapshot revisions of the stand-alone server
    MaxEvents,      \* bound: events made of one session by the handlers
    Nobody          \* the absence of a snapshot, or of a session in a handler

ASSUME AgentAssumption ==
    /\ SSH \in BOOLEAN
    /\ Outcomes \subseteq {"ok", "failed", "unsynced"} /\ "ok" \in Outcomes
    /\ Revisions \subseteq Nat \ {0} /\ MaxEvents \in Nat
    /\ Nobody \notin Sessions

VARIABLES
    cache,      \* SessionAuthorizationCache
    handler,    \* where each handler stands, and the permission it captured
    active,     \* ContainerSessionManager.active
    timers,     \* armed expiry timers
    fired,      \* expiry callbacks that wait for the manager's mutex
    events,     \* resourceEvents: what the Server has not acknowledged
    nextSeq,    \* nextSequence (0 when absent)
    acks,       \* terminationAcks
    disk,       \* the state file
    made,       \* events made of each session: the source of fresh event ids
    receiver    \* the heartbeat response being handled

managerVars == <<active, timers, fired, events, nextSeq, acks, disk, made>>
agentVars   == <<cache, handler, managerVars, receiver>>
agentState  == <<now, agentVars>>

EmptyCache == [revision |-> 0, validUntil |-> 0, permits |-> {}, commands |-> {}, ackRevision |-> 0]
Inactive   == [on |-> FALSE, until |-> 0, revoked |-> FALSE]
Idle       == [at |-> "idle", session |-> Nobody, until |-> 0]
Listening  == [step |-> "listen", snapshot |-> Nobody, asOf |-> 0]

StateFile(E, seq, A) == [events |-> E, nextSeq |-> seq, acks |-> A]

AgentInit ==
    /\ cache = EmptyCache
    /\ handler = [h \in Handlers |-> Idle]
    /\ active = [s \in Sessions |-> Inactive]
    /\ timers = {} /\ fired = {}
    /\ events = {}
    /\ nextSeq = [s \in Sessions |-> 0]
    /\ acks = {}
    /\ disk = StateFile({}, [s \in Sessions |-> 0], {})
    /\ made = [s \in Sessions |-> 0]
    /\ receiver = Listening

-----------------------------------------------------------------------------
(* SessionAuthorizationCache.Permission at instant t. *)
PermitsAt(s, t) ==
    {p \in cache.permits : p.session = s /\ p.until > t /\ cache.revision > 0 /\ cache.validUntil > t}

(* persistLocked: the file is replaced, or it is not, or it is but the      *)
(* directory could not be synced, which is an error although it is new.     *)
Persist(outcome, E, seq, A) ==
    disk' = IF outcome = "failed" THEN disk ELSE StateFile(E, seq, A)

(* queueResourceEventLocked: a durable event that could not be saved is     *)
(* taken back; any other stays in memory.                                   *)
NewEvent(s, type) ==
    [id |-> <<s, made[s] + 1>>, session |-> s, seq |-> nextSeq[s] + 1, type |-> type]

(* Mutant: the sequence number is taken back once too often. *)
QueueTwiceBack(s, type, outcome, durable) ==
    LET E   == events \union {NewEvent(s, type)}
        seq == [nextSeq EXCEPT ![s] = @ + 1]
    IN  /\ made' = [made EXCEPT ![s] = @ + 1]
        /\ Persist(outcome, E, seq, acks)
        /\ IF outcome # "ok" /\ durable
           THEN events' = events /\ nextSeq' = [nextSeq EXCEPT ![s] = @ - 1]
           ELSE events' = E /\ nextSeq' = seq

Queue(s, type, outcome, durable) ==
    LET E   == events \union {NewEvent(s, type)}
        seq == [nextSeq EXCEPT ![s] = @ + 1]
    IN  /\ made' = [made EXCEPT ![s] = @ + 1]
        /\ Persist(outcome, E, seq, acks)
        /\ IF outcome # "ok" /\ durable
           THEN UNCHANGED <<events, nextSeq>>
           ELSE events' = E /\ nextSeq' = seq

Free(h) == handler' = [handler EXCEPT ![h] = Idle]

-----------------------------------------------------------------------------
(* Connection handlers. *)

(* A connection arrives and the handler captures the permission it finds. *)
Resolve(h, s) ==
    /\ handler[h].at = "idle"
    /\ \E p \in PermitsAt(s, now) :
           handler' = [handler EXCEPT ![h] = [at |-> "resolved", session |-> s, until |-> p.until]]
    /\ UNCHANGED <<now, cache, managerVars, receiver>>

(* The SSH handshake fails, or the client leaves before a session channel. *)
GiveUp(h) ==
    /\ SSH
    /\ handler[h].at = "resolved"
    /\ Free(h)
    /\ UNCHANGED <<now, cache, managerVars, receiver>>

(* The Service is gone or cannot be dialled: FailV2. *)
Fail(h, outcome) ==
    LET s == handler[h].session
    IN  /\ ~SSH
        /\ handler[h].at = "resolved"
        /\ made[s] < MaxEvents
        /\ IF active[s].on \/ nextSeq[s] > 0
           THEN UNCHANGED <<events, nextSeq, disk, made>>
           ELSE Queue(s, "failed", outcome, TRUE)
        /\ Free(h)
        /\ UNCHANGED <<now, cache, active, timers, fired, acks, receiver>>

(* Mutants: the captured permission is not compared with the clock; a       *)
(* session may be begun while it runs.                                      *)
AtAnyTime(h) == TRUE

MayBeginBeside(h) == LET s == handler[h].session IN active[s].on \/ nextSeq[s] = 0

(* BeginV2 compares the captured permission with the clock, and then waits  *)
(* for the manager's mutex.                                                 *)
InTime(h)   == handler[h].until > now
MayBegin(h) == LET s == handler[h].session IN ~active[s].on /\ nextSeq[s] = 0

Admit(h) ==
    /\ handler[h].at = "resolved"
    /\ InTime(h)
    /\ handler' = [handler EXCEPT ![h].at = "admitted"]
    /\ UNCHANGED <<now, cache, managerVars, receiver>>

BeginRefused(h) ==
    /\ \/ handler[h].at = "resolved" /\ ~InTime(h)
       \/ handler[h].at = "admitted" /\ ~MayBegin(h)
    /\ Free(h)
    /\ UNCHANGED <<now, cache, managerVars, receiver>>

Timer(s, deadline) == [session |-> s, deadline |-> deadline]
OfOthers(T, s) == {t \in T : t.session # s}

(* Mutant: the caller starts although the connected event was not saved. *)
BeginUnsaved(h, outcome) ==
    LET s == handler[h].session
    IN  /\ handler[h].at = "admitted"
        /\ MayBegin(h)
        /\ made[s] < MaxEvents
        /\ Queue(s, "connected", outcome, TRUE)
        /\ active' = [active EXCEPT ![s] = [on |-> TRUE, until |-> handler[h].until, revoked |-> FALSE]]
        /\ timers' = timers \union {Timer(s, handler[h].until)}
        /\ handler' = [handler EXCEPT ![h].at = "running"]
        /\ UNCHANGED <<now, cache, fired, acks, receiver>>

(* BeginV2 under the mutex and the permission captured earlier. *)
Begin(h, outcome) ==
    LET s == handler[h].session
    IN  /\ handler[h].at = "admitted"
        /\ MayBegin(h)
        /\ made[s] < MaxEvents
        /\ Queue(s, "connected", outcome, TRUE)
        /\ IF outcome = "ok"
           THEN /\ active' = [active EXCEPT ![s] =
                       [on |-> TRUE, until |-> handler[h].until, revoked |-> FALSE]]
                /\ timers' = timers \union {Timer(s, handler[h].until)}
                /\ handler' = [handler EXCEPT ![h].at = "running"]
           ELSE Free(h) /\ UNCHANGED <<active, timers>>
        /\ UNCHANGED <<now, cache, fired, acks, receiver>>

(* EndV2: the connection closed, failed, or saw its context cancelled.  An  *)
(* expiry callback still waiting finds another session or none: it is gone. *)
End(h, result, outcome) ==
    LET s == handler[h].session
    IN  /\ handler[h].at = "running"
        /\ active' = [active EXCEPT ![s] = Inactive]
        /\ timers' = OfOthers(timers, s) /\ fired' = OfOthers(fired, s)
        /\ Queue(s, IF active[s].revoked THEN "terminated" ELSE result, outcome, FALSE)
        /\ Free(h)
        /\ UNCHANGED <<now, cache, acks, receiver>>

-----------------------------------------------------------------------------
(* Expiry timers: a fired callback takes the mutex later, and finds the     *)
(* lease it was armed for or a newer one.                                   *)

TimerFires(t) ==
    /\ t \in timers
    /\ t.deadline <= now
    /\ timers' = timers \ {t}
    /\ fired' = fired \union {t}
    /\ UNCHANGED <<now, cache, handler, active, events, nextSeq, acks, disk, made, receiver>>

(* Mutant: the callback does not ask which lease it was armed for. *)
ExpiryCallbackBlind(t) ==
    /\ t \in fired
    /\ fired' = fired \ {t}
    /\ active' = [active EXCEPT ![t.session].revoked = TRUE]
    /\ UNCHANGED <<now, cache, handler, timers, events, nextSeq, acks, disk, made, receiver>>

ExpiryCallback(t) ==
    /\ t \in fired
    /\ fired' = fired \ {t}
    /\ active' = IF active[t.session].until = t.deadline
                 THEN [active EXCEPT ![t.session].revoked = TRUE] ELSE active
    /\ UNCHANGED <<now, cache, handler, timers, events, nextSeq, acks, disk, made, receiver>>

-----------------------------------------------------------------------------
(* handleHeartbeatResponse, in the order of its calls. *)

(* AckResourceEvents: what the Server has is forgotten, unless the file     *)
(* cannot be saved.                                                         *)
Receive(response, outcome) ==
    LET kept == {e \in events : e.id \notin response.eventAcks}
    IN  /\ receiver.step = "listen"
        /\ IF response.eventAcks = {}
           THEN UNCHANGED <<events, disk>>
           ELSE /\ Persist(outcome, kept, nextSeq, acks)
                /\ events' = IF outcome = "ok" THEN kept ELSE events
        /\ receiver' = IF response.snapshot = Nobody THEN Listening
                       ELSE [step |-> "apply", snapshot |-> response.snapshot, asOf |-> now]
        /\ UNCHANGED <<now, cache, handler, active, timers, fired, nextSeq, acks, made>>

(* What Apply accepts as a snapshot to replace the cache with. *)
RouteConflict(snap) ==
    SSH /\ \E p, q \in snap.permits : p.session # q.session /\ p.route = q.route

WellFormed(snap) ==
    /\ \A p \in snap.permits : p.until > receiver.asOf /\ p.until >= snap.validUntil
    /\ ~RouteConflict(snap)

Apply ==
    LET snap   == receiver.snapshot
        fresh  == snap.validUntil > receiver.asOf
        newer  == fresh /\ snap.revision > cache.revision /\ WellFormed(snap)
        replay == fresh /\ snap.revision = cache.revision
    IN  /\ receiver.step = "apply"
        /\ cache' = IF newer
                    THEN [revision |-> snap.revision, validUntil |-> snap.validUntil,
                          permits |-> snap.permits, commands |-> snap.commands,
                          ackRevision |-> cache.ackRevision]
                    ELSE cache
        /\ receiver' = IF newer \/ replay THEN [receiver EXCEPT !.step = "terminate"] ELSE Listening
        /\ UNCHANGED <<now, handler, managerVars>>

(* Mutant: the handling goes on although the acknowledgements are not saved. *)
ApplyTerminationsUnsaved(outcome) ==
    /\ receiver.step = "terminate"
    /\ UNCHANGED active
    /\ Persist(outcome, events, nextSeq, cache.commands)
    /\ acks' = IF outcome = "ok" THEN cache.commands ELSE acks
    /\ receiver' = [receiver EXCEPT !.step = "reconcile"]
    /\ UNCHANGED <<now, cache, handler, timers, fired, events, nextSeq, made>>

(* ApplyTerminationCommands: the sessions are cancelled in any case; the    *)
(* acknowledgements only replace the last ones when they could be saved.    *)
ApplyTerminations(outcome) ==
    /\ receiver.step = "terminate"
    /\ active' = [s \in Sessions |->
           IF s \in cache.commands /\ active[s].on THEN [active[s] EXCEPT !.revoked = TRUE]
           ELSE active[s]]
    /\ Persist(outcome, events, nextSeq, cache.commands)
    /\ acks' = IF outcome = "ok" THEN cache.commands ELSE acks
    /\ receiver' = IF outcome = "ok" THEN [receiver EXCEPT !.step = "reconcile"] ELSE Listening
    /\ UNCHANGED <<now, cache, handler, timers, fired, events, nextSeq, made>>

(* ReconcileV2: a running session loses or prolongs its lease, and the      *)
(* sequence numbers of sessions that are over are forgotten; CommitAck.     *)
Permitted(s) == PermitsAt(s, receiver.asOf) # {}
LeaseOf(s)   == (CHOOSE p \in PermitsAt(s, receiver.asOf) : TRUE).until

Prolonged == {s \in Sessions : /\ active[s].on /\ ~active[s].revoked
                               /\ Permitted(s) /\ LeaseOf(s) # active[s].until}

(* Mutant: a session's number is forgotten while its events still wait. *)
ForgottenEarly == {s \in Sessions : nextSeq[s] > 0 /\ ~active[s].on /\ ~Permitted(s)}

Forgotten == {s \in Sessions : /\ nextSeq[s] > 0 /\ ~active[s].on /\ ~Permitted(s)
                               /\ \A e \in events : e.session # s}

(* Mutant: a prolonged lease keeps its old timer. *)
ReconcileOldTimer(outcome) ==
    /\ receiver.step = "reconcile"
    /\ active' = [s \in Sessions |->
           IF s \in Prolonged THEN [active[s] EXCEPT !.until = LeaseOf(s)] ELSE active[s]]
    /\ receiver' = Listening
    /\ UNCHANGED <<now, cache, handler, timers, fired, events, nextSeq, acks, disk, made>>

Reconcile(outcome) ==
    LET seq == [s \in Sessions |-> IF s \in Forgotten THEN 0 ELSE nextSeq[s]]
    IN  /\ receiver.step = "reconcile"
        /\ active' = [s \in Sessions |->
               IF active[s].on /\ ~Permitted(s) THEN [active[s] EXCEPT !.revoked = TRUE]
               ELSE IF s \in Prolonged THEN [active[s] EXCEPT !.until = LeaseOf(s)]
               ELSE active[s]]
        /\ timers' = {t \in timers : t.session \notin Prolonged}
                     \union {Timer(s, LeaseOf(s)) : s \in Prolonged}
        /\ nextSeq' = seq
        /\ IF Forgotten = {} THEN UNCHANGED disk ELSE Persist(outcome, events, seq, acks)
        /\ cache' = [cache EXCEPT !.ackRevision = cache.revision]
        /\ receiver' = Listening
        /\ UNCHANGED <<now, handler, fired, events, acks, made>>

(* The process dies and starts again from the state file. *)
Crash ==
    /\ cache' = EmptyCache
    /\ handler' = [h \in Handlers |-> Idle]
    /\ active' = [s \in Sessions |-> Inactive]
    /\ timers' = {} /\ fired' = {}
    /\ events' = disk.events
    /\ nextSeq' = disk.nextSeq
    /\ acks' = disk.acks
    /\ receiver' = Listening
    /\ UNCHANGED <<now, disk, made>>

(* Timers and the mutex are prompt: the clock waits for the callbacks that  *)
(* are due, and for a handler that was admitted just before the end.        *)
OnTime ==
    /\ \A t \in timers \union fired : t.deadline > now
    /\ \A h \in Handlers : handler[h].at = "admitted" => handler[h].until > now

AgentStep ==
    \/ \E h \in Handlers, s \in Sessions : Resolve(h, s)
    \/ \E h \in Handlers : GiveUp(h) \/ Admit(h) \/ BeginRefused(h)
    \/ \E h \in Handlers, outcome \in Outcomes : Fail(h, outcome) \/ Begin(h, outcome)
    \/ \E h \in Handlers, result \in {"ended", "failed"}, outcome \in Outcomes : End(h, result, outcome)
    \/ \E t \in timers : TimerFires(t)
    \/ \E t \in fired : ExpiryCallback(t)
    \/ Apply
    \/ \E outcome \in Outcomes : ApplyTerminations(outcome) \/ Reconcile(outcome)

-----------------------------------------------------------------------------
EventIds == Sessions \X (1 .. MaxEvents + 1)
Event == [id : EventIds, session : Sessions, seq : Nat \ {0},
          type : {"connected", "ended", "failed", "terminated"}]
Permit == [session : Sessions, route : Routes, until : Nat]
Snapshot == [revision : Nat, validUntil : Nat, permits : SUBSET Permit, commands : SUBSET Sessions]
Response == [eventAcks : SUBSET EventIds, snapshot : Snapshot \union {Nobody}]

(* The Agent against any Server at all: whatever response may arrive at any *)
(* time, in any order.                                                      *)
AgentNext ==
    \/ AgentStep \/ Crash
    \/ \E response \in Response, outcome \in Outcomes : Receive(response, outcome)
    \/ OnTime /\ Tick /\ UNCHANGED agentVars

AgentSpec == now = 0 /\ AgentInit /\ [][AgentNext]_agentState

AgentTypeOK ==
    /\ cache \in [revision : Nat, validUntil : Nat, permits : SUBSET Permit,
                  commands : SUBSET Sessions, ackRevision : Nat]
    /\ handler \in [Handlers -> [at : {"idle", "resolved", "admitted", "running"},
                                 session : Sessions \union {Nobody}, until : Nat]]
    /\ active \in [Sessions -> [on : BOOLEAN, until : Nat, revoked : BOOLEAN]]
    /\ timers \subseteq [session : Sessions, deadline : Nat]
    /\ fired \subseteq [session : Sessions, deadline : Nat]
    /\ events \subseteq Event
    /\ nextSeq \in [Sessions -> Nat]
    /\ acks \subseteq Sessions
    /\ disk.events \subseteq Event /\ disk.nextSeq \in [Sessions -> Nat] /\ disk.acks \subseteq Sessions
    /\ made \in [Sessions -> 0 .. MaxEvents + 1]
    /\ receiver.step \in {"listen", "apply", "terminate", "reconcile"}

(* "The connected event is durable before the caller starts Kubernetes      *)
(* exec" (container_session_manager.go:126): a session that runs is one the *)
(* state file knows as started, so a crash neither loses its start nor lets *)
(* it start again.                                                          *)
RunsOnlyDurably == \A s \in Sessions : active[s].on => disk.nextSeq[s] > 0

(* A session not cancelled yet has a timer, or a callback under way, for the *)
(* very end of its current lease, through any renewal, shortening or race of *)
(* a callback with them: when the lease ends, something will cancel it.     *)
RunsUnderLease ==
    \A s \in Sessions : (active[s].on /\ ~active[s].revoked) =>
        Timer(s, active[s].until) \in timers \union fired

(* The Server is told that a snapshot was applied only after the            *)
(* acknowledgements of its commands are saved ("snapshot not ACKed" in      *)
(* agent.go:946): none is reported that a crash could take back.            *)
AckMeansSaved ==
    (cache.ackRevision > 0 /\ cache.ackRevision = cache.revision) =>
        acks = cache.commands /\ disk.acks = cache.commands

(* Exactly one handler runs an active session. *)
OneRunner ==
    \A s \in Sessions :
        active[s].on <=> \E h \in Handlers :
            /\ handler[h].at = "running" /\ handler[h].session = s
            /\ \A k \in Handlers \ {h} : ~(handler[k].at = "running" /\ handler[k].session = s)

(* The unacknowledged events of a session carry distinct sequence numbers,  *)
(* the start before the end, and at most one end, in memory and in the file. *)
Orderly(E) ==
    \A e, f \in E : e.session = f.session =>
        /\ e.seq = f.seq => e = f
        /\ e.type = "connected" => e.seq <= f.seq
        /\ (e.type # "connected" /\ f.type # "connected") => e = f

EventsOrderly == Orderly(events) /\ Orderly(disk.events)

(* A callback that lost the race with a renewal leaves the session alone:   *)
(* expiry only cancels a session whose current lease is over.               *)
ExpiryCancelsOnlyLapsed ==
    [][\A t \in fired : ExpiryCallback(t) =>
          \A s \in Sessions : (active'[s].revoked /\ ~active[s].revoked) => active[s].until <= now]_agentState
=============================================================================
