--------------------------- MODULE ProviderSupply ---------------------------
(***************************************************************************)
(* What providers supply: the technical resources (Agents) that report a   *)
(* Kubernetes cluster, the candidate each report leaves for review, the    *)
(* platform resource a provider makes of accepted candidates, the          *)
(* observations of its namespaces and the scopes that may be allocated.    *)
(*                                                                         *)
(* Every action but those of the sweep's bookkeeping is one transaction of *)
(* the Server.  One cluster is modelled: rows of different stable keys     *)
(* meet only where a whole batch or sweep fails.  A platform resource is   *)
(* thereby named by its provider.                                          *)
(***************************************************************************)
EXTENDS ManagementClock, FiniteSets

CONSTANTS
    Sources,        \* technical resources whose Agents see the cluster
    ProviderOf,     \* the provider of each source
    Namespaces,     \* UIDs of namespaces
    Names,          \* what a snapshot says of a namespace: name and labels
    CandidateLease, \* supplyCandidateLeaseDuration
    MaxRevision     \* bound: no snapshot or lapse moves an observation past this revision

Providers == {ProviderOf[s] : s \in Sources}
Nothing   == [review |-> "none"]        \* no candidate
Unseen    == 0                          \* a namespace a snapshot does not list
Qualities == {"strong", "insufficient", "collision"}

ASSUME SupplyAssumption ==
    /\ ProviderOf \in [Sources -> Providers]
    /\ IsFiniteSet(Sources) /\ IsFiniteSet(Namespaces)
    /\ Unseen \notin Names
    /\ CandidateLease \in Nat \ {0} /\ MaxRevision \in Nat

VARIABLES
    technical,      \* technical_resource: lifecycle_state; the binding is enabled with it
    candidate,      \* supply_candidate of each source
    resource,       \* platform_resource of each provider: state and allocatable_scope_count
    cluster,        \* lifecycle_state of the cluster's resource_scope
    scope,          \* resource_scope of each namespace
    observation,    \* namespace_observation
    supplySweep     \* where ReconcileExpiredEvidence stands

supplyRows == <<technical, candidate, resource, cluster, scope, observation>>
supplyVars == <<supplyRows, supplySweep>>

Projections == [quality : Qualities, seen : [Namespaces -> Names \union {Unseen}]]
Idle        == [step |-> "idle", at |-> 0, left |-> {}]

SupplyInit ==
    /\ technical = [s \in Sources |-> "pending"]
    /\ candidate = [s \in Sources |-> Nothing]
    /\ resource = [p \in Providers |-> [state |-> "none", count |-> 0]]
    /\ cluster = [p \in Providers |-> "none"]
    /\ scope = [p \in Providers |-> [n \in Namespaces |-> [state |-> "none", evidence |-> 0]]]
    /\ observation = [p \in Providers |-> [n \in Namespaces |->
                         [state |-> "none", name |-> Unseen, revision |-> 0, until |-> 0]]]
    /\ supplySweep = Idle

Available == {"active", "allocatable"}

-----------------------------------------------------------------------------
(* Technical resources. *)

BindTechnicalResource(s) ==
    /\ technical[s] = "pending"
    /\ technical' = [technical EXCEPT ![s] = "registered"]
    /\ UNCHANGED <<candidate, resource, cluster, scope, observation, supplySweep>>

SetTechnicalResourceLifecycle(s, to) ==
    /\ \/ to = "disabled" /\ technical[s] = "registered"
       \/ to = "registered" /\ technical[s] = "disabled"
       \/ to = "retired" /\ technical[s] \in {"pending", "registered", "disabled"}
    /\ technical' = [technical EXCEPT ![s] = to]
    /\ UNCHANGED <<candidate, resource, cluster, scope, observation, supplySweep>>

-----------------------------------------------------------------------------
(* Candidates, as functions of the table they are applied to: a transaction *)
(* makes several such steps, all against one instant `at`.                  *)

Live(c, at) == c # Nothing /\ c.until > at
Sound(c)    == c.review = "linked" /\ c.quality = "strong" /\ c.conflict = "none"

(* upsertSupplyCandidate *)
Upserted(s, p) ==
    [quality  |-> p.quality,
     conflict |-> IF p.quality = "strong" THEN "none" ELSE "own",
     review   |-> IF candidate[s].review \in {"rejected", "linked"} THEN candidate[s].review
                  ELSE IF p.quality = "collision" THEN "conflict" ELSE "pending_review",
     until    |-> now + CandidateLease,
     seen     |-> p.seen]

Contenders(table, at) ==
    {ProviderOf[s] : s \in {x \in Sources : Live(table[x], at) /\ table[x].quality # "insufficient"}}

(* Mutant: a contest is not noticed. *)
SettledUnnoticed(table, at) ==
    [s \in Sources |->
        IF ~Live(table[s], at) \/ table[s].conflict # "cross" THEN table[s]
        ELSE [table[s] EXCEPT !.quality = "strong", !.conflict = "none",
                              !.review = IF @ = "conflict" THEN "pending_review" ELSE @]]

(* reconcileCrossProviderSupplyConflict: a cluster that several providers   *)
(* report belongs to none of them while they do.                            *)
Settled(table, at) ==
    [s \in Sources |->
        IF ~Live(table[s], at) THEN table[s]
        ELSE IF Cardinality(Contenders(table, at)) > 1
        THEN [table[s] EXCEPT !.quality = "collision", !.conflict = "cross",
                              !.review = IF @ \in {"rejected", "linked"} THEN @ ELSE "conflict"]
        ELSE IF table[s].conflict = "cross"
        THEN [table[s] EXCEPT !.quality = "strong", !.conflict = "none",
                              !.review = IF @ = "conflict" THEN "pending_review" ELSE @]
        ELSE table[s]]

-----------------------------------------------------------------------------
(* Evidence: what the sound candidates of a provider say of a namespace.    *)

Linked(table, p) == {s \in Sources : ProviderOf[s] = p /\ table[s].review = "linked"}
Vouching(table, p, at) == {s \in Linked(table, p) : Live(table[s], at) /\ Sound(table[s])}
Reporting(table, p, n, at) == {s \in Vouching(table, p, at) : table[s].seen[n] # Unseen}

(* The candidate observed last. *)
Newest(table, p, n, at) ==
    CHOOSE s \in Reporting(table, p, n, at) :
        \A x \in Reporting(table, p, n, at) : table[x].until <= table[s].until

(* upsertNamespaceObservation *)
Confirmed(o, name, until) ==
    [state |-> "observed", name |-> name, until |-> until,
     revision |-> IF o.state = "observed" /\ o.name = name THEN o.revision ELSE o.revision + 1]

(* Mutant: a scope whose namespace is back is active again. *)
EvidencedResuming(c, o) ==
    IF c.state = "none" THEN [state |-> "draft", evidence |-> o.revision]
    ELSE IF c.state = "retired" THEN c
    ELSE [state |-> IF c.state = "suspended" THEN "active" ELSE c.state, evidence |-> o.revision]

(* Mutant: only a new scope learns the revision. *)
EvidencedOnce(c, o) ==
    IF c.state = "none" THEN [state |-> "draft", evidence |-> o.revision] ELSE c

(* findOrCreateNamespaceScope *)
Evidenced(c, o) ==
    IF c.state = "none" THEN [state |-> "draft", evidence |-> o.revision]
    ELSE IF c.state = "retired" THEN c
    ELSE [c EXCEPT !.evidence = o.revision]

(* reconcilePlatformResourceEvidence, of the providers ps: it fails, and    *)
(* the transaction with it, where a retired cluster scope has evidence.     *)
Fails(table, p, at) ==
    /\ resource[p].state # "retired" /\ cluster[p] = "retired"
    /\ \E n \in Namespaces : Reporting(table, p, n, at) # {}

Touched(table, ps, p, n, at) ==
    p \in ps /\ resource[p].state # "retired" /\ Reporting(table, p, n, at) # {}

Observe(table, ps, at) ==
    LET seen(p, n) == table[Newest(table, p, n, at)]
        after == [p \in Providers |-> [n \in Namespaces |->
                    IF Touched(table, ps, p, n, at)
                    THEN Confirmed(observation[p][n], seen(p, n).seen[n], seen(p, n).until)
                    ELSE observation[p][n]]]
    IN  /\ \A p \in ps : ~Fails(table, p, at)
        /\ \A p \in Providers, n \in Namespaces : after[p][n].revision <= MaxRevision
        /\ observation' = after
        /\ scope' = [p \in Providers |-> [n \in Namespaces |->
                        IF Touched(table, ps, p, n, at)
                        THEN Evidenced(scope[p][n], after[p][n]) ELSE scope[p][n]]]

(* Providers with a linked candidate of the cluster. *)
Owners(table) == {p \in Providers : Linked(table, p) # {}}

-----------------------------------------------------------------------------
(* ReceiveSupplyInventoryBatch of a snapshot in order, with                 *)
(* projectSupplyCandidatesFromSnapshot.                                     *)

Receive(s, p) ==
    LET upserted == [candidate EXCEPT ![s] = Upserted(s, p)]
        table == IF p.quality = "insufficient" THEN upserted ELSE Settled(upserted, now)
        ps == IF p.quality # "insufficient" THEN Owners(table)
              ELSE IF table[s].review = "linked" THEN {ProviderOf[s]} ELSE {}
    IN  /\ technical[s] = "registered"
        /\ candidate' = table
        /\ Observe(table, ps, now)
        /\ UNCHANGED <<technical, resource, cluster, supplySweep>>

RejectSupplyCandidate(s) ==
    /\ candidate[s].review \in {"pending_review", "conflict"}
    /\ candidate' = [candidate EXCEPT ![s].review = "rejected"]
    /\ UNCHANGED <<technical, resource, cluster, scope, observation, supplySweep>>

Acceptable(c) ==
    c.review = "pending_review" /\ c.quality = "strong" /\ c.conflict = "none" /\ Live(c, now)

(* The observations are confirmed as of now, not as of the report. *)
AcceptSupplyCandidate(s) ==
    LET p == ProviderOf[s]
        c == candidate[s]
        after == [n \in Namespaces |->
                    IF c.seen[n] = Unseen THEN observation[p][n]
                    ELSE Confirmed(observation[p][n], c.seen[n], now + CandidateLease)]
    IN  /\ Acceptable(c)
        /\ resource[p].state # "retired" /\ cluster[p] # "retired"
        /\ \A n \in Namespaces : after[n].revision <= MaxRevision
        /\ resource' = [resource EXCEPT ![p].state = IF @ = "none" THEN "draft" ELSE @]
        /\ cluster' = [cluster EXCEPT ![p] = IF @ = "none" THEN "draft" ELSE @]
        /\ observation' = [observation EXCEPT ![p] = after]
        /\ scope' = [scope EXCEPT ![p] = [n \in Namespaces |->
                        IF c.seen[n] = Unseen THEN scope[p][n] ELSE Evidenced(scope[p][n], after[n])]]
        /\ candidate' = [candidate EXCEPT ![s].review = "linked"]
        /\ UNCHANGED <<technical, supplySweep>>

-----------------------------------------------------------------------------
(* What the provider makes of its resource and scopes. *)

SuspendedState(st) == IF st \in Available THEN "suspended" ELSE st
RetiredState(st)   == IF st = "none" THEN st ELSE "retired"

(* cascadeResourceScopes and cascadeChildScopes *)
Cascade(scopes, to) ==
    [n \in Namespaces |->
        [scopes[n] EXCEPT !.state = CASE to = "suspended" -> SuspendedState(@)
                                      [] to = "retired"   -> RetiredState(@)
                                      [] OTHER            -> @]]

(* syncPlatformResourceAllocatableScopeCount *)
AllocatableCount(c, scopes) ==
    Cardinality({n \in Namespaces : scopes[n].state = "allocatable"})
        + (IF c = "allocatable" THEN 1 ELSE 0)

(* validPlatformResourceTransition *)
ResourceMayBecome(st, to) ==
    \/ to = "active"    /\ st \in {"draft", "suspended"}
    \/ to = "suspended" /\ st = "active"
    \/ to = "retired"   /\ st \in {"draft", "active", "suspended"}

(* Mutant: the count is left as it was. *)
SetPlatformResourceLifecycleUncounted(p, to) ==
    /\ ResourceMayBecome(resource[p].state, to)
    /\ resource' = [resource EXCEPT ![p].state = to]
    /\ cluster' = [cluster EXCEPT ![p] = CASE to = "suspended" -> SuspendedState(@)
                                           [] to = "retired"   -> RetiredState(@)
                                           [] OTHER            -> @]
    /\ scope' = [scope EXCEPT ![p] = Cascade(@, to)]
    /\ UNCHANGED <<technical, candidate, observation, supplySweep>>

SetPlatformResourceLifecycle(p, to) ==
    /\ ResourceMayBecome(resource[p].state, to)
    /\ resource' = [resource EXCEPT ![p] =
           [state |-> to, count |-> IF to = "active" THEN @.count ELSE 0]]
    /\ cluster' = [cluster EXCEPT ![p] = CASE to = "suspended" -> SuspendedState(@)
                                           [] to = "retired"   -> RetiredState(@)
                                           [] OTHER            -> @]
    /\ scope' = [scope EXCEPT ![p] = Cascade(@, to)]
    /\ UNCHANGED <<technical, candidate, observation, supplySweep>>

(* validResourceScopeTransition *)
ScopeMayBecome(st, to) ==
    \/ to = "active"    /\ st \in {"draft", "suspended"}
    \/ to = "suspended" /\ st \in Available
    \/ to = "retired"   /\ st \in {"draft", "suspended"} \union Available

(* validateScopeActivationEvidence, and validateAllocatableScopeEvidence for *)
(* a namespace.                                                             *)
EvidenceHolds(p, n) ==
    /\ cluster[p] \in Available
    /\ observation[p][n].state = "observed" /\ observation[p][n].until > now
    /\ scope[p][n].evidence = observation[p][n].revision

(* Mutant: the namespaces of a suspended cluster stay as they are. *)
SetClusterLifecycleAlone(p, to) ==
    /\ ScopeMayBecome(cluster[p], to)
    /\ to = "active" => resource[p].state = "active"
    /\ cluster' = [cluster EXCEPT ![p] = to]
    /\ resource' = [resource EXCEPT ![p].count = AllocatableCount(to, scope[p])]
    /\ UNCHANGED <<technical, candidate, scope, observation, supplySweep>>

(* SetResourceScopeLifecycle of the cluster's scope *)
SetClusterLifecycle(p, to) ==
    /\ ScopeMayBecome(cluster[p], to)
    /\ to = "active" => resource[p].state = "active"
    /\ cluster' = [cluster EXCEPT ![p] = to]
    /\ scope' = [scope EXCEPT ![p] = Cascade(@, to)]
    /\ resource' = [resource EXCEPT ![p].count = AllocatableCount(to, Cascade(scope[p], to))]
    /\ UNCHANGED <<technical, candidate, observation, supplySweep>>

(* A namespace's scope takes a state, and the resource counts again. *)
ScopeBecomes(p, n, to) ==
    LET after == [scope[p] EXCEPT ![n].state = to]
    IN  /\ scope' = [scope EXCEPT ![p] = after]
        /\ resource' = [resource EXCEPT ![p].count = AllocatableCount(cluster[p], after)]
        /\ UNCHANGED <<technical, candidate, cluster, observation, supplySweep>>

(* SetResourceScopeLifecycle of a namespace's scope *)
SetNamespaceLifecycle(p, n, to) ==
    /\ ScopeMayBecome(scope[p][n].state, to)
    /\ to = "active" => resource[p].state = "active" /\ EvidenceHolds(p, n)
    /\ ScopeBecomes(p, n, to)

(* validateAllocatableResourceSource *)
HasSource(p) == \E s \in Vouching(candidate, p, now) : technical[s] = "registered"

MarkClusterAllocatable(p) ==
    /\ cluster[p] = "active" /\ resource[p].state = "active" /\ HasSource(p)
    /\ cluster' = [cluster EXCEPT ![p] = "allocatable"]
    /\ resource' = [resource EXCEPT ![p].count = AllocatableCount("allocatable", scope[p])]
    /\ UNCHANGED <<technical, candidate, scope, observation, supplySweep>>

MarkNamespaceAllocatable(p, n) ==
    /\ scope[p][n].state = "active" /\ resource[p].state = "active"
    /\ HasSource(p) /\ EvidenceHolds(p, n)
    /\ ScopeBecomes(p, n, "allocatable")

-----------------------------------------------------------------------------
(* ReconcileExpiredEvidence: what it is to do is read before the            *)
(* transactions that do it, and all of it is judged by the tick it began    *)
(* at.  An error ends the sweep.                                            *)

SweepStep(to, left) == supplySweep' = [supplySweep EXCEPT !.step = to, !.left = left]
SweepDone(x) == supplySweep' = [supplySweep EXCEPT !.left = @ \ {x}]

(* expiredCrossProviderConflictKeys *)
SweepBegins ==
    /\ supplySweep.step = "idle"
    /\ supplySweep' = [step |-> "conflicts", at |-> now,
                       left |-> {ProviderOf[s] : s \in {x \in Sources :
                                    /\ candidate[x] # Nothing
                                    /\ candidate[x].conflict = "cross" /\ candidate[x].until <= now}}]
    /\ UNCHANGED supplyRows

SweepSettles ==
    LET table == Settled(candidate, supplySweep.at)
    IN  /\ supplySweep.step = "conflicts" /\ supplySweep.left # {}
        /\ candidate' = table
        /\ Observe(table, Owners(table), supplySweep.at)
        /\ SweepStep("conflicts", {})
        /\ UNCHANGED <<technical, resource, cluster>>

(* resourcesWithExpiredCandidates *)
SweepListsResources ==
    /\ supplySweep.step = "conflicts" /\ supplySweep.left = {}
    /\ SweepStep("resources", {p \in Providers :
           \E s \in Linked(candidate, p) : candidate[s].until <= supplySweep.at})
    /\ UNCHANGED supplyRows

SweepReconciles(p) ==
    /\ supplySweep.step = "resources" /\ p \in supplySweep.left
    /\ Observe(candidate, {p}, supplySweep.at)
    /\ SweepDone(p)
    /\ UNCHANGED <<technical, candidate, resource, cluster>>

Lapsed(o) == o.state = "observed" /\ o.until <= supplySweep.at

SweepListsObservations ==
    /\ supplySweep.step = "resources" /\ supplySweep.left = {}
    /\ SweepStep("observations", {x \in Providers \X Namespaces : Lapsed(observation[x[1]][x[2]])})
    /\ UNCHANGED supplyRows

(* The observation is stale and its scope, if it may be used, suspended. *)
GoesStale(p, n) ==
    LET revision == observation[p][n].revision + 1
        after == IF scope[p][n].state = "retired" THEN scope[p]
                 ELSE [scope[p] EXCEPT ![n] = [state |-> SuspendedState(@.state), evidence |-> revision]]
    IN  /\ revision <= MaxRevision
        /\ observation' = [observation EXCEPT ![p][n].state = "stale", ![p][n].revision = revision]
        /\ scope' = [scope EXCEPT ![p] = after]
        /\ resource' = [resource EXCEPT ![p].count = AllocatableCount(cluster[p], after)]

(* Mutant: the lease is not looked at again. *)
SweepExpiresListed(p, n) ==
    /\ supplySweep.step = "observations" /\ <<p, n>> \in supplySweep.left
    /\ IF observation[p][n].state = "observed" THEN GoesStale(p, n)
       ELSE UNCHANGED <<observation, scope, resource>>
    /\ SweepDone(<<p, n>>)
    /\ UNCHANGED <<technical, candidate, cluster>>

SweepExpires(p, n) ==
    /\ supplySweep.step = "observations" /\ <<p, n>> \in supplySweep.left
    /\ IF Lapsed(observation[p][n]) THEN GoesStale(p, n)
       ELSE UNCHANGED <<observation, scope, resource>>
    /\ SweepDone(<<p, n>>)
    /\ UNCHANGED <<technical, candidate, cluster>>

SweepEnds ==
    /\ supplySweep.step = "observations" /\ supplySweep.left = {}
    /\ supplySweep' = Idle
    /\ UNCHANGED supplyRows

SweepAborts ==
    /\ supplySweep.step # "idle" /\ supplySweep.left # {}
    /\ supplySweep' = Idle
    /\ UNCHANGED supplyRows

-----------------------------------------------------------------------------

SourceStep ==
    \E s \in Sources :
        \/ BindTechnicalResource(s)
        \/ \E to \in {"registered", "disabled", "retired"} : SetTechnicalResourceLifecycle(s, to)
        \/ \E p \in Projections : Receive(s, p)
        \/ RejectSupplyCandidate(s)
        \/ AcceptSupplyCandidate(s)

ProviderStep ==
    \E p \in Providers, to \in {"active", "suspended", "retired"} :
        \/ SetPlatformResourceLifecycle(p, to)
        \/ SetClusterLifecycle(p, to)
        \/ \E n \in Namespaces : SetNamespaceLifecycle(p, n, to)

MarkResourceScopeAllocatable ==
    \E p \in Providers :
        \/ MarkClusterAllocatable(p)
        \/ \E n \in Namespaces : MarkNamespaceAllocatable(p, n)

ReconcileExpiredEvidence ==
    \/ SweepBegins
    \/ SweepSettles
    \/ SweepListsResources
    \/ \E p \in Providers : SweepReconciles(p)
    \/ SweepListsObservations
    \/ \E p \in Providers, n \in Namespaces : SweepExpires(p, n)
    \/ SweepEnds
    \/ SweepAborts

SupplyStep == SourceStep \/ ProviderStep \/ MarkResourceScopeAllocatable \/ ReconcileExpiredEvidence

SupplyNext ==
    \/ SupplyStep /\ UNCHANGED now
    \/ ClockTick /\ UNCHANGED supplyVars

SupplySpec == now = 0 /\ SupplyInit /\ [][SupplyNext]_<<now, supplyVars>>

-----------------------------------------------------------------------------

ScopeStates == {"none", "draft", "active", "allocatable", "suspended", "retired"}

Candidates ==
    [quality : Qualities, conflict : {"none", "own", "cross"},
     review : {"pending_review", "conflict", "rejected", "linked"},
     until : Nat, seen : [Namespaces -> Names \union {Unseen}]]

SupplyTypeOK ==
    /\ now \in 0 .. MaxTime
    /\ technical \in [Sources -> {"pending", "registered", "disabled", "retired"}]
    /\ candidate \in [Sources -> Candidates \union {Nothing}]
    /\ resource \in [Providers -> [state : {"none", "draft", "active", "suspended", "retired"}, count : Nat]]
    /\ cluster \in [Providers -> ScopeStates]
    /\ scope \in [Providers -> [Namespaces -> [state : ScopeStates, evidence : 0 .. MaxRevision]]]
    /\ observation \in [Providers -> [Namespaces ->
           [state : {"none", "observed", "stale"}, name : Names \union {Unseen},
            revision : 0 .. MaxRevision, until : Nat]]]
    /\ supplySweep.step \in {"idle", "conflicts", "resources", "observations"}
    /\ supplySweep.at \in 0 .. now

(* What is on offer hangs together: a namespace is available only under an  *)
(* available cluster, and anything only under an active resource, whatever  *)
(* the provider, the reports and the sweep do in between.                   *)
ScopesUnderActive ==
    \A p \in Providers :
        /\ \A n \in Namespaces : scope[p][n].state \in Available => cluster[p] \in Available
        /\ cluster[p] \in Available => resource[p].state = "active"

(* The count the provider is shown is the number of its scopes that may be  *)
(* allocated.                                                               *)
CountIsAllocatable ==
    \A p \in Providers : resource[p].count = AllocatableCount(cluster[p], scope[p])

(* A scope in use follows every revision of its observation: what makes one *)
(* change or lapse moves the other in the same transaction.                 *)
EvidenceFollows ==
    \A p \in Providers, n \in Namespaces :
        scope[p][n].state # "retired" => scope[p][n].evidence = observation[p][n].revision

(* A cluster is claimed by one provider at a time: live, sound evidence of  *)
(* it never comes from two.                                                 *)
OneOwner ==
    \A s, t \in Sources :
        (\A x \in {s, t} : /\ Live(candidate[x], now)
                           /\ candidate[x].quality = "strong" /\ candidate[x].conflict = "none")
        => ProviderOf[s] = ProviderOf[t]

(* "A later valid snapshot may refresh the evidence, but suspended scopes   *)
(* still require an explicit Provider resume"                               *)
(* (provider_supply_reconciliation.go:43): no report and no sweep makes a   *)
(* scope available.                                                         *)
ResumeIsExplicit ==
    [][candidate' # candidate \/ supplySweep' # supplySweep
       => \A p \in Providers, n \in Namespaces :
             scope'[p][n].state \in Available => scope[p][n].state \in Available]_<<now, supplyVars>>

(* The sweep takes an observation for lapsed only if it has lapsed: one     *)
(* that was refreshed while the sweep was under way is kept.                *)
StaleOnlyLapsed ==
    [][\A p \in Providers, n \in Namespaces :
          observation[p][n].state = "observed" /\ observation'[p][n].state = "stale"
          => observation[p][n].until <= now]_<<now, supplyVars>>
=============================================================================
