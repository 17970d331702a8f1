# Verification of the AWECloud signaling server

A TLA+ project kept beside the Go code in `src/`. It models

* how a tenant's **resource sessions** are authorized, carried to the Agents that
  serve them, started, renewed, withdrawn and accounted for;
* how Agents **report** the inventory of their clusters, what providers make of it
  as **supply**, and how the platform **allocates** supply to tenants, each
  management request carried out once;
* how the **outbox** carries changes of workloads and allocations to the resources
  a tenant sees.

TLC checks the models on small instances; TLAPS proves every safety property that a
passing run checks for every instance: of the Server's tables, of the Agent, of the two
joined by their stream, of reports, supply, allocations and the outbox. Liveness is
checked by TLC only.

## 1. The system

`src/cmd` holds three long-running programs: the **Server** (SQLite, HTTP
management API, gRPC), the **Agent** (one per node or cluster, dials the Server)
and the **Endpoint** (dials an Agent). A **Desktop** is a client.

### Components, their state, and who talks to whom

| component | state | operations | interacts with |
|---|---|---|---|
| Tenant access grants (`service/tenant_access_grant.go`, `tenant_authorization_maintenance.go`) | `tenant_access_grant` rows: status, revision, window, longest session | create, update, suspend, resume, revoke; expiry sweep each minute; drain at start | ends sessions and writes termination commands in the same transaction |
| Resource sessions (`service/resource_session.go`) | `resource_session` rows | Create, EnsureForDesktop, Terminate | reads grants, membership, device, resource chain |
| Session authorization (`service/session_authorization.go`) | sessions, `resource_session_termination`, `resource_session_event` | BuildSnapshot, AcknowledgeTerminations, AcceptEvents | called by the heartbeat stream |
| Session authorization stream (`grpc/session_authorization.go`, `grpc/agent_service.go`) | connections, the snapshot each technical resource was last sent | handle a heartbeat, push every 2 s | Agent heartbeat stream |
| Agent authorization cache (`agent/session_authorization_cache.go`) | last accepted snapshot | Apply, Permission, Resolve, CommitAck | filled by the heartbeat receiver, read by handlers |
| Agent session manager (`agent/container_session_manager.go`) | active sessions, timers, unacknowledged events, sequence numbers, acknowledgements; a state file | BeginV2, FailV2, EndV2, expiry callback, ReconcileV2, ApplyTerminationCommands, AckResourceEvents, load | handlers, timers, heartbeat loop |
| Connection handlers (`agent/container_ssh_proxy.go`, `agent/k8s_svc_proxy.go`) | the permission captured at arrival | resolve, begin, run, end | cache, session manager |
| Endpoint relay (`agent/endpoint_server.go`, `cmd/endpoint`) | last snapshot and report per Endpoint | forward both ways | Agent stream, Endpoint stream |
| Resource chain (`service/tenant_resource_management.go`) | resources, sources, targets, allocations, leases | visibility, withdrawal | guards sessions |
| Transactional outbox (`service/resource_outbox.go`) | `outbox_event`, `consumer_revision` | Append, Claim, Complete, Fail | written in the transactions of reconciliation and allocation |
| Tenant resource projection (`service/tenant_resource_projection.go`, `workload_reconciliation.go`) | tenant resources, their sources and targets | ProcessNext, called by a loop every 30 s | consumer of the outbox; decides the chain of a resource |
| API idempotency (`service/api_idempotency.go`) | one record per request key | Begin, Complete | HTTP handlers |
| Software updates (`service/update_service.go`, `updater/updater.go`) | update tasks and events; the updater's task files and link | create, deliver, report, cancel, retry; handle, apply, roll back | heartbeats both ways |
| Inventories (`agent/k8s_inventory_reporter.go`, `service/workload_inventory.go`, `provider_supply_inventory.go`) | Agent: configuration, epoch and sequence per stream; Server: receipts, source epoch and last sequence | update by a heartbeat, pass, call, acknowledge; receive a batch, commit a snapshot | heartbeats configure it; a supply snapshot makes candidates |
| Provider supply (`service/provider_supply*.go`) | technical resources, candidates, platform resources, scopes, namespace observations | bind, receive, accept, reject; life cycles of resources and scopes, mark allocatable; sweep each minute | inventories before it, allocation after it |
| Platform allocation (`service/platform_allocation*.go`) | allocations and their items | draft, update, schedule, activate, suspend, resume, revoke, renew; expiry job | reads supply; outbox; idempotency |
| Desktop stream and login (`grpc/desktop_service.go`, `service/desktop_login.go`) | connections, login sessions with result channels | heartbeat, login, notify | EnsureForDesktop |
| Domains, addresses, caches, headscale, tunnels, web console, migration tools | maps, files, external services | | |

`PROJECT.json` lists every component with its source files and its status.

### What is hard, and what makes each part correct

* **Transactions with a gap between them.** EnsureForDesktop looks up in one
  transaction and creates in another; the expiry sweep reads candidates and
  expires them later; a heartbeat is handled in two transactions and answered
  after both. Correct: a session never outlives its grant's revision, a grant is
  expired only when it is due, an event is logged once.
* **Deadlines on every level.** Permission, snapshot, timer and grant deadlines race
  with renewals every two seconds, and a renewal judges by a time it read before its
  transaction. Correct: a lease is bounded, follows on the one it renews, and always
  has a timer for its very end.
* **Goroutines over a cache and a file.** Handlers capture a permission and use
  it after a handshake; timer callbacks and the receiver take the same mutex; the
  state file may not be written, or be written and yet report an error. Correct:
  one runner, no start that a crash forgets, no acknowledgement that a crash takes
  back.
* **A stream that breaks.** Reports and snapshots are lost, repeated and
  overtaken by restarts of either side. Correct: what was saved is logged before
  it is forgotten and is logged eventually; commands are repeated until
  acknowledged; no connection outlives a withdrawal by more than one TTL.
* **An outbox with retries.** Events of one row are retried out of order, a lease
  ends while its worker still works, Claim acts on a time it read before. Correct:
  what a tenant sees is derived from the rows as they stand and lags only while an
  event is owed, leases exclude, every event is settled.
* **Reports without a common memory.** An Agent numbers its snapshots in an epoch it
  draws when it starts; calls break, arrive late, or are under way when a heartbeat
  changes the source. Correct: receipts follow one another, a superseded epoch is
  never heard again, and the next number is accepted.
* **Evidence that ages on several tables.** Reports, two providers, their
  administrators and a sweep that judges by a time it read before change candidates,
  observations, scopes and a stored count. Correct: a cluster has one owner, an
  offer hangs together, nothing is resumed but explicitly, only what has lapsed
  goes stale.
* **Repeated and competing requests.** Begin stores its record outside a
  transaction; drafts do not hold a scope. Correct: a request is carried out once
  within the retention, a scope is held by one allocation at a time.

`PROJECT.json`, `hazards`, lists these at their lines with the property that
covers each, or why none does. Section 5 names those of the parts not modelled.

## 2. Modules

| module | models | kind |
|---|---|---|
| `SessionClock` | the shared clock and the TTL | base |
| `SessionLifecycle` | the promise: the graph of a session's states (the update trigger of the table) and the command that goes with a withdrawal, per transaction | abstract specification |
| `ResourceSession` | the Server's tables and every transaction on them | component |
| `ContainerSession` | cache, handlers, timers, session manager and state file of an Agent | component |
| `SessionAuthorization` | `ResourceSession` and `ContainerSession` joined by the heartbeat stream, with both crashes | composition |
| `TenantProjection` | the promise: the resources of an observed workload are only ever derived from the rows as they stand | abstract specification |
| `ResourceOutbox` | writers, the outbox table, checkpoints, workers and the effect of an event | component |
| `InventoryReport` | the reporter of an Agent, its calls, and the receipts of the Server | component |
| `ManagementClock` | the Server's wall clock, as supply, allocations and idempotency records see it | base |
| `ProviderSupply` | technical resources, candidates, resources, scopes, observations, and the sweep | component |
| `APIIdempotency` | the record of a request key, and where each request stands in Begin | component |
| `ScopeAllocation` | allocations, over `ProviderSupply` and `APIIdempotency` | component and composition |
| `MCResourceSession`, `MCContainerSession`, `MCSessionAuthorization`, `MCResourceOutbox`, `MCInventoryReport`, `MCScopeAllocation` | small instances for TLC | checking |
| `ResourceSession_proofs`, `ContainerSession_proofs`, `ResourceOutbox_proofs`, `InventoryReport_proofs`, `ProviderSupply_proofs`, `ScopeAllocation_proofs` | theorems about the components | proof |
| `SessionAuthorization_proofs` | the joined system implements both its parts, and keeps what needs both | proof |

### From the code to the model

**Tables.** A row is a record, a table a function from identifiers; `"none"` is
a row that does not exist. Each action of `ResourceSession` is one SQLite
transaction; SQLite serialises them, so comparing a `row_version` read in the
same transaction always succeeds and is left out. What is read *before* a
transaction is kept: `sweep` (candidates of the expiry sweep), `ensure` (where an
EnsureForDesktop call stands between its two transactions), and the time. Every call
reads the clock and then waits for its transaction, so the instant `at` by which
leases are judged and computed is any of `Instants`, from the start of the process
to now. This goes for renewals (`BuildSnapshot`, `EnsureReuse`), creations, grants
and device heartbeats alike: a lease that has run out while its renewal waited is
renewed, here as in the code, and `RenewalFollowsOn` says what is still true.
`process` holds the flags of the running Server: `offers` is
`session_authorization_v2`, which also decides about the drain; `enforce` is the four
flags of `sessionAuthorizationPermissionsEnabled` together (EnsureForDesktop asks for
`resource_model_write` besides, which is not told apart). `RestartServer` ends a set
of sessions: the drain has a transaction per session and starts may fail in between,
but a Server that serves with `offers` off has ended all. `meshed` holds the desktops
with a `HeadscaleNodeID`, which their heartbeats and `SyncMesh` write.
`session[s].target` stands for the chain of source, target revision, allocation
and item, which the code compares as a whole; `chain` for what
`loadTenantResourceChain` finds, with the shortest of its leases in `leaseUntil`;
`deviceUntil` for the last heartbeat of a desktop plus its TTL; the user's
`memberUntil` and `inGroup` for membership, user and group. `Never` is the
deadline of a NULL `expires_at`. `Projected` does for a batch what
`projectResourceSessionEvent` does event by event in the order of sequence
numbers.

**Agent.** An action of `ContainerSession` is what one goroutine does under one
mutex. The heartbeat receiver goes through `Receive`, `Apply`,
`ApplyTerminations`, `Reconcile` in the order of `handleHeartbeatResponse`;
handlers and timers run between them. `BeginV2` compares the permission with the
clock before it waits for the mutex: `Admit` is the comparison, `Begin` what follows
under the mutex. `receiver.asOf` is the `now` captured
before `Apply` and still used in `ReconcileV2`. Saving the state file has three
outcomes: saved, failed, and replaced but reported as failed (`"unsynced"`: the
rename succeeded, the directory sync did not). `disk` is what `load` finds.
Expiry timers are armed (`timers`), and their callbacks wait for the mutex
(`fired`); the callback compares the deadline it was armed for with the current
one as the code does. Timers are prompt (`OnTime`): the clock does not pass a
deadline while a timer for it has not run, or while a handler admitted under it
waits for the mutex. A late timer, or a long wait, would delay the deadline by as
much and nothing else: a session that begins late has its timer fire at once.

**Stream.** `up` and `down` are the two directions, `serving` the goroutine of
`Heartbeat`: it takes a heartbeat, acknowledges terminations, accepts events,
answers; on its ticker it pushes. `standing` is the snapshot state that is sent
again while its content is the same and it does not expire within five seconds
(`ReuseMargin`). Breaking the stream loses everything in flight. A crash of the
Agent empties its memory and reloads `disk`; a restart of the Server keeps the
tables and loses `standing`, `sweep` and `ensure`.

**Outbox.** `source` holds the `row_version` of every observation and allocation;
an event is named by the pair its `event_key` is made of, the aggregate and its
`row_version`. Claim is three statements outside a transaction and three actions
here: `ClaimBegin` (read the time, bury exhausted events), `ClaimSelect`,
`ClaimTake` or `ClaimLost`; they all use the time read first. `Complete` and `Fail`
are one transaction each and read the time once, somewhere between the worker's
last step and the transaction (`Reads`). A claim writes a fresh token and counts an
attempt, so the attempt's number stands for the token. A settled row's other
columns are dropped (`Settled`), because nothing reads them. What an effect computes
is abstracted to what it reads: `shown[o]` is the versions of the rows from which
the tenant resources of observation `o` were last derived; the effect of an
allocation's event covers every observation in its namespace and may bump their
`row_version` on the way without an event (`Refreshable`). A process restart and a
failing statement are `Abandon`, `CompleteAborts` and `FailAborts`. Time passes only
while some deadline is ahead (`DeadlineAhead`): an outbox at rest looks the same
later. One Server runs one worker; two workers are what the service's lease contract
is for, and what an overlapping restart shows.

**Inventory.** A pass is one goroutine: a supply snapshot first, then
`report.left` workload snapshots, and the first failure ends it. Each call is `Send`
(the number and the epoch are read), `Handle` or `Refuse` on the Server, and
`Acknowledge` or `Break`; an envelope whose call is over stays on the `wire` and may
still arrive. Every snapshot an Agent sends is one batch, so that one transaction
creates and commits its receipt. `latest` is `source_epoch` and `last_sequence` of
the technical resource for supply; for workloads it is the last receipt, which
`validateWorkloadSequence` looks up (receipts of one instant are not told apart).
Snapshot ids are compared only under one number, so a few suffice. `trusted` and
`spoilt` are history: the resource an epoch was first used for, and whether one of
four things has happened after which the code may refuse a stream for good
(`NextIsAccepted` states that there is no fifth).

**Supply.** One cluster: a platform resource is then named by its provider, and
`cluster`, `scope` and `observation` hang below it. A snapshot is projected to what
decides its fate: the quality of its identity and the name of each namespace
(`Projections`). A transaction that makes several passes over the candidates is
written as functions of the candidates' table (`Upserted`, `Settled`, `Observe`), so
that each pass reads what the one before it wrote. The sweep lists in one place and
acts in another (`SweepBegins`, `SweepListsResources`, `SweepListsObservations`), all
judged by the tick `at` it began with; an error (`Fails`, or any other) ends it.

**Idempotency and allocation.** Begin's statements are `Begin`, `Look` and `Delete`;
the time is read at the first and used in all of them. Complete runs in the
transaction of the work, which here is `Execute` of `ScopeAllocation`. An allocation is
named by the request that created it. `expiring` holds what the expiry job listed and
has found unchanged: a change of the row takes it out, which is what the comparison
of `row_version` comes to. Triggers of the database check transitions and overlaps
once more; they would refuse nothing that the guards let pass, and are left out. Only
namespaces are ever allocated, so no two scopes stand in a hierarchy.

### Simplifications

* One clock for both processes, in coarse units, that never steps back. Skew and
  steps are not covered (section 5).
* One tenant resource and one member user; several desktops, grants and sessions.
  The composition has one technical resource.
* The next stream starts when the last has ended. A reconnect that overlaps the
  old stream is not modelled.
* A heartbeat carries all that waits; the limit of 100 items is not modelled.
* Reports change supply in `ProviderSupply` as any snapshot in order may (`Receive`);
  which snapshots are in order is `InventoryReport`. The two are not composed.
* What workload snapshots hold, and how observations of workloads age, is not modelled.
* The v1 path (legacy permissions and events) and the Endpoint relay are not
  modelled. An Endpoint runs the same cache and manager as `ContainerSession`.
* Sessions and the outbox are not composed: what sessions see of the projection is
  `ChangeChain`, any change at any time.
* Validity windows of allocations, the status of the tenant and the leases of
  observation sources feed the projection too, by time and not by events; they are
  not modelled. `shown` speaks of observation and allocation rows.
* Hashes, formats, the events a session transaction appends, audit rows and the revision a Server records when
  a snapshot is acknowledged (nothing reads it) are left out.
* `ResourceOutbox!Change` always appends an event. In the code a new observation
  whose refresh changes nothing appends none: it is one that no allocation makes
  eligible (`workload_reconciliation.go:268`), so there is nothing to project yet.
* `InventoryReport!InOrder` follows the order of commits. The code takes the latest
  workload receipt by `received_at`, which is read before the transaction
  (`workload_inventory.go:141`).
* In `ProviderSupply`, a snapshot that does not list the cluster leaves the evidence
  of the platform resource to the sweep. In the code it also runs
  `reconcilePlatformResourceEvidence` (`provider_supply_candidate.go:119`), which is
  what the sweep does, only sooner. The time of a snapshot is that of its transaction;
  the code reads it just before (`provider_supply_inventory.go:80`).
* `APIIdempotency!Begin` reads the time with its INSERT; the code reads it before
  (`api_idempotency.go:98`), and by an earlier time it only deletes less.
* `ScopeAllocation!ExpiryLists` lists all that is due; the limit of 100 and the order
  are left out.

## 3. Runs

| run | question | answer |
|---|---|---|
| `grants` | do sessions end with what authorizes them, and are leases bounded, each following on the last? | `LiveSessionsCovered`, `LeaseBounded`, `RenewalFollowsOn`, `ExpiryIsDue` hold |
| `sessions` | do sessions, commands and the event log stay consistent, and follow the life cycle? | `TypeOK`, `EndingIsCommanded`, `StatusFollowsLog`, `SequenceTakenOnce`, `ImplementsLifecycle` hold |
| `agent` | is the Agent right against any Server that publishes valid snapshots, with crashes and failing saves? | `AgentTypeOK`, `RunsOnlyDurably`, `RunsUnderLease`, `AckMeansSaved`, `OneRunner`, `EventsOrderly`, `ExpiryCancelsOnlyLapsed` hold |
| `ensure` | does EnsureForDesktop reuse a valid session, as its comment says? | no: two concurrent calls create two (`EnsureReuses` violated) |
| `system` | how long may a connection outlive the withdrawal of its session, and can a saved event be lost? | one TTL (`WithdrawnWithinTTL`); no (`LoggedBeforeForgotten`) |
| `delivery` | do events and commands arrive once the stream holds, after longer histories? | yes, unless a session starts twice (`EventsAreLogged`, `CommandsAreAcknowledged`) |
| `restart` | can a session start twice? | yes (`SequenceNotReused` violated) |
| `outbox` | is any change lost, or any older state shown, between a writer and the tenant's resources? | no (`LagIsOwed`, `ImplementsProjection`) |
| `takeover` | do two workers stay apart, and is every event settled? | yes (`OutboxTypeOK`, `CheckpointIsHighest`, `LeaseIsExclusive`, `EventsSettle`) |
| `inventory` | do receipts stay in order, and is an Agent heard for as long as it should be? | yes (`InventoryTypeOK`, `ReceiptsContiguous`, `SupersededEpochsAreSilent`), but for four cases (`NextIsAccepted`) |
| `lostreceipt` | does the reporter maintain the leases, as its comment says? | no: not after a lost acknowledgement (`LeasesAreMaintained` violated) |
| `supply` | do offers, their evidence and their allocation hang together? | yes (`AllocationTypeOK`, `ScopesUnderActive`, `CountIsAllocatable`, `EvidenceFollows`, `OneOwner`, `ResumeIsExplicit`, `StaleOnlyLapsed`, `OccupantsDisjoint`, `CreatedOnce`) |

Every property of a passing run has a mutant in the module of the definition it
changes (`Mutant:` comments): a plausible slip in that code, which TLC must find
under the run's own configuration.

### Findings

* **EnsureForDesktop may create two sessions** (`resource_session.go:316`). The
  comment promises reuse of a valid session for the same resource and device; the
  creation does not look again. The two permissions of an SSH resource share
  port, user and device, and the Agent refuses the whole snapshot as a route
  conflict (`session_authorization_cache.go:151-160`).
* **A session may start twice** (`container_session_manager.go:143`). `BeginV2`
  relies on `nextSequence` to refuse a session that "has already started", but
  `ReconcileV2` removes the entry once the session is over, acknowledged and no
  longer permitted, while a handler may still hold the permission it resolved
  before. Its connected event repeats sequence number 1, which the Server has:
  the batch is refused, and the Agent repeats it for ever. `EventsAreLogged` is
  therefore checked under `[]SequenceNotReused`.
* **A lost acknowledgement silences a reporter** (`k8s_inventory_reporter.go:422`). The
  Agent repeats a number that was not acknowledged with a new snapshot id; the Server,
  which committed it, takes only the same id for a repetition and refuses every other.
  The number never advances, the epoch changes only with the process or the source,
  and the leases the reporter is to maintain lapse. `NextIsAccepted` shows which other
  events have the same effect: a snapshot stored after its call was given up, a source
  that changes under a call, and a source that changes across a heartbeat without a
  configuration.

### Bounds, and why they are enough

* `grants`: one session, one grant (a group's, so that the group matters), clock
  0..3 with a TTL of 2: a lease can be renewed, lapse, and meet an expiry, a
  longest session and a device timeout at different instants. `MaxRevision = 3`
  lets a grant be created and edited twice; a revoke or expiry may still follow.
  A transaction may act by any instant its process has seen, up to three units old,
  more than a whole lease. The process is not restarted here.
* `sessions`: two sessions of one desktop (symmetric), all batches that hold one
  or two sessions' start, end or both, one EnsureForDesktop beside plain creates.
  The clock takes one step, the length of a lease, so that a lease lapses and is
  renewed from the instant before. The Server restarts at any time, with every
  setting of its flags; the device is left alone.
* `agent`: one session and two handlers, two snapshot revisions, two or three
  events per session, clock 0..2. A second session is independent of the first in
  the manager except for the state file, which is saved as a whole.
* `system`: clock 0..2 with a TTL of 1, so that a withdrawal, a begin and the
  deadline fall on different instants; two snapshots. The feature is switched off
  whole, once, while a session is live, so that the drain of a restart withdraws the
  session of a running connection, and the Agent is not reached again: only its own
  deadlines can end the connection. The Server restarts only while it has a revision
  left. Saving always succeeds here; theorem `Delivering` covers failing saves.
* `delivery`, `restart`: the clock stands still (`MaxTime = 0`):
  events and commands do not depend on it. Three and two snapshots. In `delivery` the
  flags stay on.
* The system runs start from a granted, created session (`MCInit`) and hold the
  device fixed; a handler does not wait for the mutex (`Hurried`; `agent` covers the
  wait). In `system` and `restart` a heartbeat without content is sent only to
  open the stream (a push answers just as well) and a push without content not at
  all; the clock does not move while the Agent handles one response (`agent` covers
  that). `delivery` also fixes the
  grant, and lets the Server restart only while enough revisions are left for
  what it must still tell the Agent; without that bound the model would run out of
  revisions, which the code (nanoseconds) does not.
* `outbox`: one workload and one allocation that covers it, two versions each: an
  event can be overtaken by one of its own aggregate, and an allocation's event can
  come before or after the workload's. `takeover`: one workload's two events and two
  workers. Two attempts, so that an event is retried once and then dead; a lease and
  a delay of one unit, so that a lease ends between any two steps of its worker;
  Claim looks twice where the code looks sixteen times.
* `inventory`: two technical resources, both streams, a pass of up to three snapshots;
  four epochs are those of one process and one replacement or change of source, one
  number for supply and two for workloads, so that a number is repeated and a next one
  exists; two envelopes on their way, so that one of an earlier call meets the current
  one. `lostreceipt`: one resource, supply only, one process.
* `supply`: two sources of two providers, one namespace with two names, a lease of two
  units in a clock of three, so that an observation lapses, is refreshed and lapses
  again; three revisions. Three requests under one key, of which two ask for the same
  (window 0-2) and one for something else (2-), and a fourth under its own key that
  renews the first (1-3); retention 1. The state space is cut into four starts, each with the
  steps it is about: `alone` (one provider from nothing, with every life cycle and
  the sweep; its source is retired only before there is a resource, for a disabled one
  is refused the same), `contest` (an offer that stands and a second provider that reports the
  same cluster, with the sweep; nothing is marked, suspended or retired), `repetition`
  (requests under one key, drafted and activated, under an offer that stays), and
  `renewal` (every transition of an allocation, the expiry job, tenants and providers
  closed, reports at the start only, changes of the resource and its scope; no sweep). The
  proofs cover `ProviderSupply` and `ScopeAllocation` without the cut.
* Runs say `CHECK_DEADLOCK FALSE` because the bounds on clock, revisions and
  events let a finite run end.

### Fairness

`delivery`, `takeover` and `lostreceipt` need it. `lostreceipt` assumes weak fairness of
passes and calls (a ticker starts passes for ever), that an envelope is handled or
refused, and strong fairness of the two outcomes that may fail now and then but not
for ever: an awaited envelope is handled, and its answer is read. The counterexample
keeps all of them: the answer is read each time, and it is a refusal. In `takeover`: weak fairness of time and of each
worker (the maintenance loop calls ProcessNext on a 30-second ticker, until it is
stopped), and strong fairness of the two statements of Claim, which a database may
refuse now and then but not for ever. Nothing is assumed of effects, of Complete or
of Fail: if they fail each time the event becomes a dead letter.

In `delivery`: weak fairness on dialling again, on heartbeats (a
30-second ticker), on the Server's goroutine going on with a report, and on the
Agent's receiver going on with a response. Strong fairness where an outcome may
fail now and then but not for ever: a snapshot that is built, a response that is
received and saved, acknowledgements that are saved. Nothing is assumed of
handlers, operators, crashes or the network; `Holds` (the stream stays up from
some time on) is the hypothesis of both properties, and crashes of the Agent
break the stream.

## 4. Proofs

`ResourceSession_proofs` proves, for every set of sessions, grants, devices,
targets and batches, and from the two assumptions on the constants
(`ClockAssumption`, `TablesAssumption`):

| theorem | property | argument |
|---|---|---|
| `Typing` | `TypeOK` | inductive by itself; leases are naturals (`LeaseFacts`), a projection is a status (`ProjectionFacts`) |
| `Commanding` | `EndingIsCommanded` | inductive over the seven cases in which a step touches sessions and commands (`TableSteps`) |
| `Sequencing` | `SequenceTakenOnce` | inductive; a fresh batch is free of the log's numbers and of each other's |
| `Covering` | `LiveSessionsCovered` | inductive with typing; a grant's revision changes only together with `EndSessions(LiveUnder(g))`, or while it has no live session |
| `Bounding` | `LeaseBounded` | needs `Covering`: the bound speaks of the grant as it is now, and only an unchanged revision makes it the grant the lease was computed from |
| `Renewing` | `RenewalFollowsOn` | an action property: the two actions that renew ask `Revalidates` by an instant before the end of the old lease, and the new one ends at most one TTL after that instant |
| `Expiring` | `ExpiryIsDue` | strengthened by `SweepInPast`: the instant the sweep compares with is not in the future |
| `Following` | `StatusFollowsLog` | inductive with typing and `Commanding`; which terminal event of a batch decides is its first, and that there is one is `LeastNumber`: among some numbers one is the least, from the library's theorem that `<` is well-founded on the naturals |
| `Implementing` | `ImplementsLifecycle` | refinement: each case of `TableSteps` maps each session to a step of `SessionLifecycle`; `EndingIsCommanded` shows that a withdrawn session had no command |

The lemmas come in three groups: leases, steps of the two tables, and the
projection of events. `TableSteps` is the hinge: it reduces some thirty actions
to seven ways of changing `session` and `termination`, so a property of these
two tables is proved once per way.

`ResourceOutbox_proofs` proves, for every set of workloads, allocations and workers,
every number of attempts, lease and delay, from `OutboxAssumption`:

| theorem | property | argument |
|---|---|---|
| `OutboxTyping` | `OutboxTypeOK` | strengthened by `Formed`: a worker that has chosen an event names one |
| `CheckpointHighest` | `CheckpointIsHighest` | with `Present`: events, checkpoints and shown versions never run ahead of the rows, so a change never reuses a settled row |
| `Implementing` | `ImplementsProjection` | refinement: `Change` is a change, an overtaking `Complete` a projection, all else a stutter |
| `LagOwed` | `LagIsOwed` | strengthened by `LagExplained`: a new observation waits for its own event, and once that has run, what it shows is past every checkpoint, so a skipped event was nobody's last hope |
| `LeaseExclusive` | `LeaseIsExclusive` | an action property, with `Tokens`: no two workers have the same token of an open event, and no worker's time is ahead of the clock |

`Kinds` is the hinge here: every step is a change of a row, a completed event, or
quiet about rows, checkpoints and processed events.

`ContainerSession_proofs` is about `AgentSpec`: the Agent's steps, crashes, and any
`Response` at any time, whatever it acknowledges, permits or commands. The environment
of the run `agent` is narrower (its snapshots come from a server that keeps to some
rules), so every step of the run is one of `AgentSpec`, and what is proved needs none of
those rules. From `ClockAssumption` and `AgentAssumption`, for every set of sessions and
handlers:

| theorem | property | argument |
|---|---|---|
| `AgentTyping` | `AgentTypeOK` | `AgentInv`: the types; a handler under way has a session, a running one has it active and for itself (`RunnersOK`); an active session leaves room for its end (`EventsLeft`); a response being handled has a snapshot (`ReceiverOK`) |
| `Leasing` | `RunsUnderLease` | strengthened by `FiredDue`: a waiting callback is one whose time has come, so that a renewal, which replaces timers only, leaves no session without |
| `Lapsing` | `ExpiryCancelsOnlyLapsed` | an action property, from `FiredDue`: the callback acts only on the lease it was armed for |
| `Running` | `OneRunner` | `Manned`: an active session has a running handler; that it has one only is in `AgentInv` |
| `Durability`, `Ordering` | `RunsOnlyDurably`, `EventsOrderly` | `EventsInv`, one invariant for the two: events and sequence numbers agree in memory and once more in the file (`Tidy`), and an active session has number 1, a start in the file and no other event than its start (`Started`). Memory and file need it separately, because a crash makes the one of the other |
| `Acknowledging` | `AckMeansSaved` | `AckInv`: between the commands' step and the revision's, memory and file both hold the acknowledgements of this snapshot; the revision acknowledged is never ahead of the one applied |

`SessionAuthorization_proofs` is about the joined system, from these and
`StreamAssumption`, for every number of sessions, handlers, desktops and messages, and
any TTL:

| theorem | property | argument |
|---|---|---|
| `TablesImplemented` | implements `ResourceSession!Spec` with all batches of events as `Reports` | the stream calls three of the tables' transactions, a restart one more; that their arguments are in range is the stream's typing (`NetTypeOK`), which is inductive with the two parts' |
| `AgentImplemented` | implements `AgentSpec` | what the stream delivers is a `Response`; time passes under `OnTime` |
| `TablesKept`, `AgentKept` | the parts' properties | by the two refinements |
| `Withdrawing` | `WithdrawnWithinTTL` | `HeldWithin`: every deadline anyone holds (the standing snapshot, a response on its way, the receiver, the cache, a handler, a running session) lies within a TTL of now, or of the session's withdrawal once it is withdrawn. Only building a snapshot makes a deadline, and only for a live session; nothing that was withdrawn becomes live again (`EndingIsCommanded` and the refinement). A restart that drains withdraws now. With `LeaseInv`, `AdmittedInTime` (a handler that waits for the mutex has not passed its deadline) and prompt timers, a connection does not pass the deadline it holds |
| `Delivering` | `LoggedBeforeForgotten` | `DeliveryInv`: the identifier of an event means one row among all copies of it, wherever they are, and the log (`Known`); identifiers in use were made; what is acknowledged is an identifier of a row of the log. A step copies what is known or makes one event under an unused identifier (`KnownStep`) |

`InventoryReport_proofs`, from `InventoryAssumption`:

| theorem | property | argument |
|---|---|---|
| `InventoryTyping` | `InventoryTypeOK` | inductive by itself |
| `ReceiptsInOrder` | `ReceiptsContiguous` | strengthened by `LatestIsKnown`: the latest receipt of a stream is among the receipts, so the number after it has its predecessor; only `Handle` writes receipts |
| `SupersededIsSilent` | `SupersededEpochsAreSilent` | an action property: an epoch becomes the latest only as an unknown one |
| `Continuing` | `NextIsAccepted` | relates both ends. `ReporterInv`: epochs in use were drawn (`EpochsDrawn`), an epoch belongs to the source configured last (`Trusting`), it is used only once there was one (`Entitled`, `UnusedEpoch`), a call carries the next number or that of an epoch given up under it (`NextSent`). `UpToDate`: of a stream that is not spoilt, the Server has received exactly the number the Agent counts, or is about to count. Then the next number is not stored, and its predecessor is what was received last |

`ProviderSupply_proofs`, for every set of sources, providers, namespaces and names, from
`SupplyAssumption` and `ManagementClockAssumption`:

| theorem | property | argument |
|---|---|---|
| `SupplyTyping` | (typing) | `SupplyTyped`: `SupplyTypeOK`, and leases of candidates lie within one lease of now |
| `OffersHangTogether` | `ScopesUnderActive` | `OfferInv`, one inductive invariant for the three: what hangs below a provider (`Under`), its count (`Counted`) and its evidence (`Follows`) change together, so that each is needed to show the others across a cascade |
| `CountsAreRight` | `CountIsAllocatable` | the same |
| `EvidenceIsCurrent` | `EvidenceFollows` | the same |
| `ResumingIsExplicit` | `ResumeIsExplicit` | an action property: `Evidenced` keeps a state, `SuspendedState` leaves the available ones |
| `OnlyTheLapsedGoStale` | `StaleOnlyLapsed` | an action property: the sweep's instant is not in the future |
| `ClusterHasOneOwner` | `OneOwner` | `OwnerInv`: the live, sound candidates have one provider (`Owned`), and a candidate in a cross conflict has quality `collision` (`Contested`), so that settling counts it; time only takes live candidates away |

`ScopeAllocation_proofs`, from these and `IdempotencyAssumption`, `AllocationAssumption`:

| theorem | property | argument |
|---|---|---|
| `AllocationReadsSupply` | implements `SupplySpec` | a step of allocations stutters on supply: every theorem above holds of the composition |
| `AllocationTyping` | `AllocationTypeOK` | with `SupplyTyping` through the refinement |
| `ScopesHeldOnce` | `OccupantsDisjoint` | an allocation comes to hold a scope only through `MayOccupy`, and its window and scope change only as a draft |
| `RequestsCreateOnce` | `CreatedOnce` | `OnceInv`: until its retention has passed, the finished record of an allocation stands under its key, so that no other request can complete there |

The assumptions on the constants are those of the code: every target belongs to a
technical resource, routes name desktops (`Devices \subseteq Routes`: a permission's
route is made of its device), times and sequence numbers are naturals. Bounds
(`MaxTime`, `MaxEvents`, `MaxIssued`, `MaxEpochs` and the like) are arbitrary naturals:
no proof uses their values. One bound is used as a fact: `Begin` starts a session only
while there is room for its end (`EventsLeft`), so that `made` stays within its type.

The strengthenings were checked by TLC on the instances of these runs before they were
proved.

**Only model-checked**: `EventsAreLogged` and `CommandsAreAcknowledged` of `delivery`,
`EventsSettle` of `takeover`. They are liveness: fairness and ENABLED are out of the
provers' reach. So is induction over data. The violated properties of `ensure`, `restart`
and `lostreceipt` are counterexamples of TLC.

## 5. Not modelled, and the plan

1. `UpdateTask` with the updater: a directive is repeated with every heartbeat until
   its task is terminal, also while the helper restarts the service
   (`updater.go:116`), and reports of the old and the new process carry numbers of two
   writers (`update_service.go:288`); refinement to a task that is applied once.
2. `EndpointRelay`: `ContainerSession` behind two streams; a push without
   acknowledgements replaces the wrapper that held those of an Endpoint
   (`endpoint_server.go:239`).
3. `HeartbeatConnections`: the registry with overlapping streams of one node
   (`agent_service.go:430`), and several sessions of different lifetimes behind one stream.
4. Workload evidence: what a workload snapshot observes, how observations and their
   sources lapse, and with them the validity windows `TenantProjection` leaves out;
   then `InventoryReport` composed with `ProviderSupply`.
5. `ListenPorts`: the open addressing of snapshot ports (`grpc/session_authorization.go:281`)
   as a recursive function against its definition; `DesktopLogin`: notify against
   unregister (`desktop_login.go:106`).
6. A clock per process, for skew and steps: the tolerance around an event's time
   (`session_authorization.go:364`), revisions drawn from a clock that steps back.
7. Proofs: all safety properties of the runs are proved. What each new module adds comes
   with its own; next in line are step lemmas towards the liveness of `delivery` (a
   report handled leaves fewer events that are saved and not logged).

Hazards known in parts that are left out: more than a hundred waiting events travel in
several heartbeats (`container_session_manager.go:22`); one failing candidate ends the
grant sweep for those behind it (`tenant_authorization_maintenance.go:107`); audit
records taken out of the buffer are lost when a send fails (`agent.go:922`).

Not planned: HTTP handlers (validation and CRUD over the services above), the web
console, headscale and tunnel data paths, command line tools and migrations,
generated code. `PROJECT.json` gives the reason for each.
