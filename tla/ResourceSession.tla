--------------------------- MODULE ResourceSession ---------------------------
(***************************************************************************)
(* The Server's tables behind a tenant's resource sessions: access grants, *)
(* sessions, termination commands and the log of session events, for one   *)
(* tenant resource and one member user with several desktops.              *)
(*                                                                         *)
(* Every action is one SQLite transaction.  Transactions are serialised    *)
(* and re-read their rows, so a row_version compared inside a transaction  *)
(* with the row_version read by the same transaction always matches and is *)
(* not modelled; what a caller read BEFORE its transaction is: the expiry  *)
(* sweep's candidates (variable sweep), the two transactions of a          *)
(* desktop's EnsureForDesktop (variable ensure), and the clock.  Every     *)
(* call reads s.now() first and then waits for its transaction, so that    *)
(* the instant at it compares with is any of Instants.                     *)
(***************************************************************************)
EXTENDS SessionClock

CONSTANTS
    Grants,         \* identifiers of tenant_access_grant rows, ordered as numbers
    DirectGrants,   \* the grants whose subject is the user; the rest name a group
    Devices,        \* the user's desktops
    Targets,        \* what the resource's chain may resolve to (source, revision, allocation)
    Sources,        \* technical resources (an Agent node or an Endpoint)
    AccessOf,       \* the technical resource that serves each target
    Callers,        \* desktop requests that may run EnsureForDesktop at once
    DeviceTTL,      \* resourceSessionDeviceHeartbeatTTL
    Never,          \* the deadline of a row whose expires_at is NULL
    Starts,         \* valid_from values an operator asks for
    Deadlines,      \* expires_at values an operator asks for
    Lifetimes,      \* max_session_seconds values an operator asks for
    Chains,         \* what the reconciliation and operators make of the resource's chain
    Memberships,    \* what becomes of the user's membership and group
    Reports,        \* batches of session events the access side may send
    MaxRevision,    \* bound: an operator edits no grant past this revision
    None            \* the absence of a grant, a device or a target

Live      == {"authorizing", "active"}
Effective == {"enabled", "suspended"}
Settled   == {"ended", "terminated", "rejected"}

SessionStatus     == {"none", "ending"} \union Live \union Settled
GrantStatus       == {"none", "enabled", "suspended", "revoked", "expired"}
TerminationStatus == {"none", "pending", "delivered", "acknowledged"}
EventTypes        == {"accepted", "connected", "ended", "failed", "terminated"}
TerminalTypes     == {"ended", "failed", "terminated"}

ASSUME TablesAssumption ==
    /\ Grants \subseteq Nat /\ DirectGrants \subseteq Grants
    /\ AccessOf \in [Targets -> Sources]
    /\ DeviceTTL \in Nat /\ Never \in Nat /\ MaxRevision \in Nat
    /\ Starts \subseteq Nat /\ Deadlines \subseteq Nat
    /\ Chains \subseteq [visible : BOOLEAN, target : Targets, leaseUntil : Nat]
    /\ Memberships \subseteq [until : Nat, inGroup : BOOLEAN]
    /\ Lifetimes \subseteq Nat \ {0}
    /\ None \notin Grants \union Devices \union Targets
    /\ \A E \in Reports : \A e \in E :
           e.session \in Sessions /\ e.seq \in Nat /\ e.type \in EventTypes

VARIABLES
    process,        \* the running Server: its feature flags, and since when it runs
    grant,          \* tenant_access_grant rows
    chain,          \* what loadTenantResourceChain finds for the resource
    memberUntil,    \* end of the user's enabled membership (0 when disabled)
    inGroup,        \* the user belongs to the group the other grants name
    deviceUntil,    \* a desktop's last heartbeat plus DeviceTTL (0 when NULL)
    meshed,         \* the desktops that have a HeadscaleNodeID
    session,        \* resource_session rows
    termination,    \* status of a session's resource_session_termination row
    eventLog,       \* resource_session_event rows, as sent, with their source
    sweep,          \* the candidates a running ExpireDueGrants has read
    ensure          \* where each EnsureForDesktop call stands

adminVars   == <<grant, sweep>>
contextVars == <<chain, memberUntil, inGroup, deviceUntil, meshed>>
tableVars   == <<session, termination, eventLog>>
serverVars  == <<process, adminVars, contextVars, tableVars, ensure>>
vars        == <<now, serverVars>>

NoSession == [status |-> "none", grant |-> None, grantRevision |-> 0, device |-> None,
              target |-> None, startedAt |-> 0, validUntil |-> 0, disconnectAcked |-> FALSE]

(* The feature flags of a Server: offers is session_authorization_v2, under *)
(* which sessions are created and ended by request; enforce is what         *)
(* sessionAuthorizationPermissionsEnabled finds, which asks for three more. *)
Process(offers, enforce) == [offers |-> offers, enforce |-> enforce, since |-> now]

NoGrant == [status |-> "none", revision |-> 0, validFrom |-> 0, expiresAt |-> Never,
            maxSession |-> 0]

Init ==
    /\ now = 0
    /\ process = Process(TRUE, TRUE)
    /\ grant = [g \in Grants |-> NoGrant]
    /\ chain \in Chains
    /\ memberUntil = Never
    /\ inGroup = TRUE
    /\ deviceUntil = [d \in Devices |-> DeviceTTL]
    /\ meshed = Devices
    /\ session = [s \in Sessions |-> NoSession]
    /\ termination = [s \in Sessions |-> "none"]
    /\ eventLog = {}
    /\ sweep = {}
    /\ ensure = [c \in Callers |-> None]

-----------------------------------------------------------------------------
(* Authorization of a session. *)

IsLive(s)   == session[s].status \in Live
AccessTo(s) == AccessOf[session[s].target]

(* What a call may have read from the clock before its transaction. *)
Instants == process.since .. now

ChainServes(at) == chain.visible /\ chain.leaseUntil > at

(* Mutant: every renewal starts the longest session anew. *)
LeaseFromNow(g, d, startedAt, at) ==
    Earlier(at + SnapshotTTL, Earlier(at + grant[g].maxSession, grant[g].expiresAt))

(* calculateResourceSessionValidUntil: the TTL, cut by every deadline of the *)
(* chain, the membership, the grant, the device and the session itself.     *)
LeaseUntil(g, d, startedAt, at) ==
    Earlier(at + SnapshotTTL,
    Earlier(startedAt + grant[g].maxSession,
    Earlier(grant[g].expiresAt,
    Earlier(chain.leaseUntil,
    Earlier(memberUntil, deviceUntil[d])))))

GrantCovers(g, at) ==
    /\ grant[g].status = "enabled"
    /\ grant[g].validFrom <= at
    /\ grant[g].expiresAt > at
    /\ g \in DirectGrants \/ inGroup

(* Mutant: a session whose lease has lapsed is renewed like any other. *)
RevalidatesLapsed(s, at) ==
    /\ ChainServes(at) /\ chain.target = session[s].target
    /\ GrantCovers(session[s].grant, at)
    /\ grant[session[s].grant].revision = session[s].grantRevision
    /\ memberUntil > at
    /\ session[s].device \in meshed
    /\ LeaseUntil(session[s].grant, session[s].device, session[s].startedAt, at) > at

(* revalidateSession finds a permission.  Only the deadlines in LeaseUntil  *)
(* can make the lease it computes end now, and each is checked there.       *)
Revalidates(s, at) ==
    /\ session[s].validUntil > at
    /\ ChainServes(at) /\ chain.target = session[s].target
    /\ GrantCovers(session[s].grant, at)
    /\ grant[session[s].grant].revision = session[s].grantRevision
    /\ memberUntil > at
    /\ session[s].device \in meshed
    /\ LeaseUntil(session[s].grant, session[s].device, session[s].startedAt, at) > at

Renewed(s, at) ==
    [session[s] EXCEPT !.validUntil =
        LeaseUntil(session[s].grant, session[s].device, session[s].startedAt, at)]

(* The order of selectResourceSessionGrant: the user's own grants first,    *)
(* then the earliest end, the shortest session, the smallest identifier.    *)
Precedes(g, h) ==
    IF (g \in DirectGrants) # (h \in DirectGrants) THEN g \in DirectGrants
    ELSE IF grant[g].expiresAt # grant[h].expiresAt THEN grant[g].expiresAt < grant[h].expiresAt
    ELSE IF grant[g].maxSession # grant[h].maxSession THEN grant[g].maxSession < grant[h].maxSession
    ELSE g < h

SelectedGrant(g, at) ==
    /\ GrantCovers(g, at)
    /\ \A h \in Grants \ {g} : GrantCovers(h, at) => Precedes(g, h)

MayCreate(d, g, at) ==
    /\ memberUntil > at
    /\ ChainServes(at)
    /\ SelectedGrant(g, at)
    /\ LeaseUntil(g, d, at, at) > at

InsertSession(s, d, g, at) ==
    /\ session[s].status = "none"
    /\ session' = [session EXCEPT ![s] =
           [status |-> "authorizing", grant |-> g, grantRevision |-> grant[g].revision,
            device |-> d, target |-> chain.target, startedAt |-> at,
            validUntil |-> LeaseUntil(g, d, at, at), disconnectAcked |-> FALSE]]

(* Mutant: the sessions end but nobody is told. *)
EndSessionsSilently(E) ==
    /\ session' = [s \in Sessions |->
           IF s \in E THEN [session[s] EXCEPT !.status = "ending"] ELSE session[s]]
    /\ UNCHANGED termination

(* A set of sessions goes to ending, each with its termination command. *)
EndSessions(E) ==
    /\ session' = [s \in Sessions |->
           IF s \in E THEN [session[s] EXCEPT !.status = "ending"] ELSE session[s]]
    /\ termination' = [s \in Sessions |-> IF s \in E THEN "pending" ELSE termination[s]]

(* Mutant: only connected sessions are ended with their grant. *)
ActiveUnder(g) == {s \in Sessions : session[s].status = "active" /\ session[s].grant = g}

LiveUnder(g) == {s \in Sessions : IsLive(s) /\ session[s].grant = g}

-----------------------------------------------------------------------------
(* Resource sessions. *)

(* POST /sessions: the management API creates a session unconditionally. *)
CreateSession(s, d, g, at) ==
    /\ process.offers
    /\ MayCreate(d, g, at)
    /\ InsertSession(s, d, g, at)
    /\ UNCHANGED <<now, process, adminVars, contextVars, termination, eventLog, ensure>>

(* First transaction of EnsureForDesktop: look for a session to reuse.  The *)
(* candidates it finds invalid on the way are left as they are.             *)
Reusable(d, at) ==
    {s \in Sessions : IsLive(s) /\ session[s].device = d /\ Revalidates(s, at)}

EnsureReuse(c, d, s, at) ==
    /\ process.offers
    /\ ensure[c] = None
    /\ memberUntil > at
    /\ s \in Reusable(d, at)
    /\ \A t \in Reusable(d, at) : session[t].startedAt <= session[s].startedAt
    /\ session' = [session EXCEPT ![s] = Renewed(s, at)]
    /\ UNCHANGED <<now, process, adminVars, contextVars, termination, eventLog, ensure>>

EnsureMiss(c, d, at) ==
    /\ process.offers
    /\ ensure[c] = None
    /\ memberUntil > at
    /\ Reusable(d, at) = {}
    /\ ensure' = [ensure EXCEPT ![c] = [device |-> d, since |-> now]]
    /\ UNCHANGED <<now, process, adminVars, contextVars, tableVars>>

(* Second transaction of EnsureForDesktop, by an instant read after the     *)
(* first: create, without looking again.                                    *)
EnsureCreate(c, s, g, at) ==
    /\ ensure[c] # None
    /\ at >= ensure[c].since
    /\ MayCreate(ensure[c].device, g, at)
    /\ InsertSession(s, ensure[c].device, g, at)
    /\ ensure' = [ensure EXCEPT ![c] = None]
    /\ UNCHANGED <<now, process, adminVars, contextVars, termination, eventLog>>

EnsureDenied(c, at) ==
    /\ ensure[c] # None
    /\ at >= ensure[c].since
    /\ ~ \E g \in Grants : MayCreate(ensure[c].device, g, at)
    /\ ensure' = [ensure EXCEPT ![c] = None]
    /\ UNCHANGED <<now, process, adminVars, contextVars, tableVars>>

(* POST /sessions/:id/terminate. *)
Terminate(s) ==
    /\ process.offers
    /\ IsLive(s)
    /\ EndSessions({s})
    /\ UNCHANGED <<now, process, adminVars, contextVars, eventLog, ensure>>

-----------------------------------------------------------------------------
(* What the access side asks of the tables. *)

(* BuildSnapshot for technical resource r: every live session it serves is  *)
(* renewed or ended, and every command not yet acknowledged is (re)sent.    *)
Served(r) == {s \in Sessions : IsLive(s) /\ AccessTo(s) = r}
Kept(r, at)    == {s \in Served(r) : process.enforce /\ Revalidates(s, at)}
Dropped(r, at) == Served(r) \ Kept(r, at)

(* Mutant: a command is sent once and not repeated. *)
CommandedOnce(r, at) ==
    Dropped(r, at) \union {s \in Sessions : termination[s] = "pending" /\ AccessTo(s) = r}

Commanded(r, at) ==
    Dropped(r, at) \union
    {s \in Sessions : termination[s] \in {"pending", "delivered"} /\ AccessTo(s) = r}

BuildSnapshot(r, at) ==
    /\ session' = [s \in Sessions |->
           IF s \in Kept(r, at) THEN Renewed(s, at)
           ELSE IF s \in Dropped(r, at) THEN [session[s] EXCEPT !.status = "ending"]
           ELSE session[s]]
    /\ termination' = [s \in Sessions |->
           IF s \in Commanded(r, at) THEN "delivered" ELSE termination[s]]
    /\ UNCHANGED <<now, process, adminVars, contextVars, eventLog, ensure>>

(* AcknowledgeTerminations: one bad item and the whole batch is rolled back. *)
MayAck(r, S) == \A s \in S : termination[s] # "none" /\ AccessTo(s) = r

AckTerminations(r, S) ==
    /\ MayAck(r, S)
    /\ termination' = [s \in Sessions |-> IF s \in S THEN "acknowledged" ELSE termination[s]]
    /\ session' = [s \in Sessions |->
           IF s \in S /\ session[s].status \in Live \union {"ending"}
           THEN [session[s] EXCEPT !.disconnectAcked = TRUE] ELSE session[s]]
    /\ UNCHANGED <<now, process, adminVars, contextVars, eventLog, ensure>>

(* AcceptEvents takes a batch ordered by session and sequence number, in    *)
(* one transaction.  A logged event is a replay and changes nothing.        *)
Logged(r, e) == [id |-> e.id, session |-> e.session, seq |-> e.seq, type |-> e.type, source |-> r]
Fresh(r, E)  == {e \in E : \A l \in eventLog : ~(l.source = r /\ l.id = e.id)}

(* Mutants: a replay is refused; the owner of a sequence number is not      *)
(* looked up.                                                               *)
AcceptableUnseen(r, E) ==
    /\ Fresh(r, E) = E
    /\ \A e \in E : session[e.session].status # "none" /\ AccessTo(e.session) = r

AcceptableAnySequence(r, E) ==
    /\ \A e \in E \ Fresh(r, E) : Logged(r, e) \in eventLog
    /\ \A e \in Fresh(r, E) : session[e.session].status # "none" /\ AccessTo(e.session) = r

Acceptable(r, E) ==
    /\ \A e \in E \ Fresh(r, E) : Logged(r, e) \in eventLog
    /\ \A e \in Fresh(r, E) :
           /\ session[e.session].status # "none"
           /\ AccessTo(e.session) = r
           /\ \A l \in eventLog : ~(l.session = e.session /\ l.seq = e.seq)
           /\ \A f \in Fresh(r, E) \ {e} : ~(f.session = e.session /\ f.seq = e.seq)

(* projectResourceSessionEvent, for the fresh events F of session s in the  *)
(* order of their sequence numbers: the first terminal event settles the    *)
(* session, a connected event counts only before it, and whatever follows a *)
(* terminal status is logged without effect.  A session that ends before it *)
(* was ever active is rejected, unless the Server's command ended it.       *)
Connects(s, F, before) ==
    \E e \in F : e.session = s /\ e.type = "connected" /\ e.seq < before

FirstTerminal(s, F) ==
    {e \in F : /\ e.session = s /\ e.type \in TerminalTypes
               /\ \A f \in F : (f.session = s /\ f.type \in TerminalTypes) => e.seq <= f.seq}

(* Mutants: a connected event wins over the end in its batch; a settled     *)
(* session is settled again; the event's type is taken for the status.      *)
ProjectedStart(s, F) ==
    LET status == session[s].status
    IN  IF status = "authorizing" /\ \E e \in F : e.session = s /\ e.type = "connected"
        THEN "active"
        ELSE IF status \notin Settled /\ FirstTerminal(s, F) # {} THEN "ended" ELSE status

ProjectedAgain(s, F) ==
    IF \E e \in FirstTerminal(s, F) : e.type = "terminated" THEN "terminated"
    ELSE IF FirstTerminal(s, F) # {} THEN "ended"
    ELSE IF session[s].status = "authorizing" THEN "active" ELSE session[s].status

ProjectedType(s, F) ==
    IF FirstTerminal(s, F) # {} THEN (CHOOSE e \in FirstTerminal(s, F) : TRUE).type
    ELSE IF session[s].status = "authorizing" THEN "active" ELSE session[s].status

Projected(s, F) ==
    LET status == session[s].status
        last   == FirstTerminal(s, F)
    IN  IF status \in Settled THEN status
        ELSE IF last = {}
             THEN IF status = "authorizing" /\ \E e \in F : e.session = s /\ e.type = "connected"
                  THEN "active" ELSE status
        ELSE IF \E e \in last : e.type = "terminated" THEN "terminated"
        ELSE IF status = "authorizing" /\ \A e \in last : ~Connects(s, F, e.seq)
             THEN "rejected"
        ELSE "ended"

(* Mutant: what arrives of a session that is no longer live is not logged.  *)
AcceptEventsOfLive(r, E) ==
    /\ Acceptable(r, E)
    /\ eventLog' = eventLog \union {Logged(r, e) : e \in {f \in Fresh(r, E) : IsLive(f.session)}}
    /\ UNCHANGED <<now, process, adminVars, contextVars, session, termination, ensure>>

AcceptEvents(r, E) ==
    /\ Acceptable(r, E)
    /\ eventLog' = eventLog \union {Logged(r, e) : e \in Fresh(r, E)}
    /\ session' = [s \in Sessions |->
           [session[s] EXCEPT !.status =
               IF \E e \in Fresh(r, E) : e.session = s THEN Projected(s, Fresh(r, E)) ELSE @]]
    /\ UNCHANGED <<now, process, adminVars, contextVars, termination, ensure>>

-----------------------------------------------------------------------------
(* Access grants. *)

(* validateTenantGrantWindow and, for a user's grant, the membership at the *)
(* later of at and valid_from.                                              *)
ValidGrant(g, from, expires, at) ==
    /\ expires > from /\ expires > at
    /\ g \in DirectGrants => memberUntil > IF from > at THEN from ELSE at

SameSubject(g, h) == (g \in DirectGrants) = (h \in DirectGrants)

(* A subject has one effective grant (uk_active_tenant_access_grant).       *)
CreateGrant(g, from, expires, max, at) ==
    /\ grant[g].status = "none"
    /\ \A h \in Grants : SameSubject(g, h) => grant[h].status \notin Effective
    /\ ChainServes(at)
    /\ ValidGrant(g, from, expires, at)
    /\ grant' = [grant EXCEPT ![g] = [status |-> "enabled", revision |-> 1, validFrom |-> from,
                                      expiresAt |-> expires, maxSession |-> max]]
    /\ UNCHANGED <<now, process, contextVars, tableVars, sweep, ensure>>

UpdateGrant(g, from, expires, max, at) ==
    /\ grant[g].status \in Effective
    /\ grant[g].revision < MaxRevision
    /\ ValidGrant(g, from, expires, at)
    /\ grant' = [grant EXCEPT ![g] = [status |-> @.status, revision |-> @.revision + 1,
                                      validFrom |-> from, expiresAt |-> expires, maxSession |-> max]]
    /\ EndSessions(LiveUnder(g))
    /\ UNCHANGED <<now, process, contextVars, eventLog, sweep, ensure>>

SuspendGrant(g) ==
    /\ grant[g].status = "enabled"
    /\ grant[g].revision < MaxRevision
    /\ grant' = [grant EXCEPT ![g].status = "suspended", ![g].revision = @ + 1]
    /\ EndSessions(LiveUnder(g))
    /\ UNCHANGED <<now, process, contextVars, eventLog, sweep, ensure>>

ResumeGrant(g, at) ==
    /\ grant[g].status = "suspended"
    /\ grant[g].revision < MaxRevision
    /\ ChainServes(at)
    /\ ValidGrant(g, grant[g].validFrom, grant[g].expiresAt, at)
    /\ grant' = [grant EXCEPT ![g].status = "enabled", ![g].revision = @ + 1]
    /\ UNCHANGED <<now, process, contextVars, tableVars, sweep, ensure>>

RevokeGrant(g) ==
    /\ grant[g].status \in Effective
    /\ grant' = [grant EXCEPT ![g].status = "revoked", ![g].revision = @ + 1]
    /\ EndSessions(LiveUnder(g))
    /\ UNCHANGED <<now, process, contextVars, eventLog, sweep, ensure>>

-----------------------------------------------------------------------------
(* The expiry job: the candidates are read first, each is then expired in a *)
(* transaction of its own that compares the instant the job started with    *)
(* the row as it is by then.                                                *)

DueForExpiry(g, at) == grant[g].status \in Effective /\ grant[g].expiresAt <= at

SweepRead(at) ==
    /\ process.enforce
    /\ sweep = {}
    /\ sweep' = {[grant |-> g, revision |-> grant[g].revision, at |-> at] :
                     g \in {h \in Grants : DueForExpiry(h, at)}}
    /\ sweep' # {}
    /\ UNCHANGED <<now, process, grant, contextVars, tableVars, ensure>>

(* Mutant: what the candidates query found is taken for granted. *)
StillDueAsRead(c) == grant[c.grant].status \in Effective

StillDue(c) ==
    /\ grant[c.grant].revision = c.revision
    /\ DueForExpiry(c.grant, c.at)

SweepExpire(c) ==
    /\ StillDue(c)
    /\ grant' = [grant EXCEPT ![c.grant].status = "expired", ![c.grant].revision = @ + 1]
    /\ sweep' = sweep \ {c}
    /\ EndSessions(LiveUnder(c.grant))
    /\ UNCHANGED <<now, process, contextVars, eventLog, ensure>>

SweepSkip(c) ==
    /\ ~StillDue(c)
    /\ sweep' = sweep \ {c}
    /\ UNCHANGED <<now, process, grant, contextVars, tableVars, ensure>>

(* A candidate that fails makes the job return: the rest waits a minute. *)
SweepAbort ==
    /\ sweep # {}
    /\ sweep' = {}
    /\ UNCHANGED <<now, process, grant, contextVars, tableVars, ensure>>

-----------------------------------------------------------------------------
(* Restart, and what other parts of the Server write. *)

(* Run drains the live sessions before it serves when the flag is off, each *)
(* in a transaction of its own.  Starts that failed before they served may  *)
(* have ended some; one that serves with the flag off has ended all.        *)
RestartServer(offers, flag, drained) ==
    /\ flag => offers
    /\ \A s \in drained : IsLive(s)
    /\ offers \/ \A s \in Sessions \ drained : ~IsLive(s)
    /\ process' = Process(offers, flag)
    /\ EndSessions(drained)
    /\ sweep' = {}
    /\ ensure' = [c \in Callers |-> None]
    /\ UNCHANGED <<now, grant, contextVars, eventLog>>

ChangeChain(found) ==
    /\ chain' = found
    /\ UNCHANGED <<now, process, adminVars, memberUntil, inGroup, deviceUntil, meshed, tableVars, ensure>>

ChangeMember(m) ==
    /\ memberUntil' = m.until
    /\ inGroup' = m.inGroup
    /\ UNCHANGED <<now, process, adminVars, chain, deviceUntil, meshed, tableVars, ensure>>

(* A heartbeat also binds the desktop to its headscale node, if it finds it. *)
DeviceHeartbeat(d, at) ==
    /\ deviceUntil' = [deviceUntil EXCEPT ![d] = at + DeviceTTL]
    /\ meshed' \in {meshed, meshed \union {d}}
    /\ UNCHANGED <<now, process, adminVars, chain, memberUntil, inGroup, tableVars, ensure>>

DeviceGone(d) ==
    /\ deviceUntil' = [deviceUntil EXCEPT ![d] = 0]
    /\ UNCHANGED <<now, process, adminVars, chain, memberUntil, inGroup, meshed, tableVars, ensure>>

(* The headscale synchronisation clears the node id of a desktop it cannot  *)
(* find, and sets it again when it can.                                     *)
SyncMesh(found) ==
    /\ meshed' = found
    /\ UNCHANGED <<now, process, adminVars, chain, memberUntil, inGroup, deviceUntil, tableVars, ensure>>

Advance == Tick /\ UNCHANGED serverVars

-----------------------------------------------------------------------------
Operate ==
    \/ \E at \in Instants, s \in Sessions, d \in Devices, g \in Grants : CreateSession(s, d, g, at)
    \/ \E at \in Instants, c \in Callers, d \in Devices :
           EnsureMiss(c, d, at) \/ \E s \in Sessions : EnsureReuse(c, d, s, at)
    \/ \E at \in Instants, c \in Callers :
           EnsureDenied(c, at) \/ \E s \in Sessions, g \in Grants : EnsureCreate(c, s, g, at)
    \/ \E s \in Sessions : Terminate(s)

Administer ==
    \/ \E at \in Instants, g \in Grants, from \in Starts, expires \in Deadlines \union {Never},
          max \in Lifetimes :
           CreateGrant(g, from, expires, max, at) \/ UpdateGrant(g, from, expires, max, at)
    \/ \E g \in Grants : SuspendGrant(g) \/ RevokeGrant(g) \/ \E at \in Instants : ResumeGrant(g, at)
    \/ SweepAbort \/ \E at \in Instants : SweepRead(at)
    \/ \E c \in sweep : SweepExpire(c) \/ SweepSkip(c)

Surround ==
    \/ \E found \in Chains : ChangeChain(found)
    \/ \E m \in Memberships : ChangeMember(m)
    \/ \E d \in Devices : DeviceGone(d) \/ \E at \in Instants : DeviceHeartbeat(d, at)
    \/ \E found \in SUBSET Devices : SyncMesh(found)
    \/ Advance

(* On its own the access side may send any of the Reports. *)
Access ==
    \/ \E r \in Sources, at \in Instants : BuildSnapshot(r, at)
    \/ \E r \in Sources, S \in SUBSET Sessions : AckTerminations(r, S)
    \/ \E r \in Sources, E \in Reports : AcceptEvents(r, E)

Restarts == \E offers, flag \in BOOLEAN, drained \in SUBSET Sessions : RestartServer(offers, flag, drained)

Next == Operate \/ Administer \/ Surround \/ Access \/ Restarts

Spec == Init /\ [][Next]_vars

-----------------------------------------------------------------------------
(* Every row holds values its columns admit; a session that exists has its  *)
(* grant, device and target (NOT NULL columns).                             *)
GrantRow == [status : GrantStatus, revision : Nat, validFrom : Nat, expiresAt : Nat, maxSession : Nat]

SessionRow ==
    [status : SessionStatus \ {"none"}, grant : Grants, grantRevision : Nat, device : Devices,
     target : Targets, startedAt : Nat, validUntil : Nat, disconnectAcked : BOOLEAN]

TypeOK ==
    /\ now \in Nat
    /\ process \in [offers : BOOLEAN, enforce : BOOLEAN, since : Nat]
    /\ grant \in [Grants -> GrantRow]
    /\ chain \in [visible : BOOLEAN, target : Targets, leaseUntil : Nat]
    /\ memberUntil \in Nat
    /\ inGroup \in BOOLEAN
    /\ deviceUntil \in [Devices -> Nat]
    /\ meshed \subseteq Devices
    /\ session \in [Sessions -> SessionRow \union {NoSession}]
    /\ termination \in [Sessions -> TerminationStatus]
    /\ \A l \in eventLog : l.session \in Sessions /\ l.type \in EventTypes
    /\ sweep \subseteq [grant : Grants, revision : Nat, at : Nat]
    /\ ensure \in [Callers -> [device : Devices, since : Nat] \union {None}]

(* No operation on a grant (update, suspend, resume, revoke, expire) leaves  *)
(* behind a session that is still live under what the grant said before.    *)
LiveSessionsCovered ==
    \A s \in Sessions : IsLive(s) =>
        LET g == session[s].grant
        IN  /\ g \in Grants
            /\ grant[g].status = "enabled"
            /\ grant[g].revision = session[s].grantRevision

(* A session leaves the live states for ending together with the command    *)
(* that tells its technical resource, and no session that can still be used *)
(* or that never was has one.                                               *)
EndingIsCommanded ==
    \A s \in Sessions :
        /\ session[s].status = "ending" => termination[s] # "none"
        /\ session[s].status \in Live \union {"none", "rejected"} => termination[s] = "none"

(* However often a live session is renewed, its lease ends with the longest *)
(* session its grant allows, counted from the start, with the grant itself, *)
(* and one TTL from now.                                                    *)
LeaseBounded ==
    \A s \in Sessions : IsLive(s) =>
        /\ session[s].validUntil <= now + SnapshotTTL
        /\ session[s].validUntil <= session[s].startedAt + grant[session[s].grant].maxSession
        /\ session[s].validUntil <= grant[session[s].grant].expiresAt

(* The status of a session is what its event log says: settled exactly when *)
(* a terminal event is logged, authorizing only while nothing is, active    *)
(* only after a connected event.                                            *)
HasLogged(s, types) == \E l \in eventLog : l.session = s /\ l.type \in types

StatusFollowsLog ==
    \A s \in Sessions :
        /\ session[s].status \in Settled <=> HasLogged(s, TerminalTypes)
        /\ session[s].status \in {"none", "authorizing"} => ~HasLogged(s, {"connected"})
        /\ session[s].status = "active" => HasLogged(s, {"connected"})

(* A sequence number of a session is taken once, whatever is replayed and   *)
(* however the batches overlap.                                             *)
SequenceTakenOnce ==
    \A l, m \in eventLog : (l.session = m.session /\ l.seq = m.seq) => l = m

(* A renewal follows on the lease it renews, however long its transaction   *)
(* has waited and whoever has renewed the session meanwhile: it ends less   *)
(* than one TTL after that lease.  So a lease that ran out a TTL ago, when  *)
(* its Agent has long ended the session, is never valid again.              *)
RenewalFollowsOn ==
    [][\A s \in Sessions :
          IsLive(s) => session'[s].validUntil < session[s].validUntil + SnapshotTTL]_vars

(* The expiry job expires only grants whose expires_at has passed, although *)
(* an operator may have prolonged a grant since the candidates were read.   *)
ExpiryIsDue ==
    [][\A g \in Grants :
          (grant[g].status # "expired" /\ grant'[g].status = "expired")
          => grant[g].expiresAt <= now]_vars

(* EnsureForDesktop (resource_session.go:260) "reuses a still-valid session *)
(* for the same Resource and Device": it creates one only when none is left *)
(* to reuse.                                                                *)
EnsureReuses ==
    [][\A at \in Instants, c \in Callers, s \in Sessions, g \in Grants :
          EnsureCreate(c, s, g, at) => Reusable(ensure[c].device, at) = {}]_vars

(* The session's life as its readers know it. *)
Life == INSTANCE SessionLifecycle
            WITH status <- [s \in Sessions |-> session[s].status],
                 commanded <- [s \in Sessions |-> termination[s] # "none"]

(* The tables implement the life cycle of SessionLifecycle. *)
ImplementsLifecycle == Life!Spec
=============================================================================
