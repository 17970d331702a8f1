-------------------------- MODULE ScopeAllocation --------------------------
(***************************************************************************)
(* How the platform allocates namespace scopes that providers offer to     *)
(* tenants: drafts, their schedule and activation, and the job that ends   *)
(* them.  Each action is one transaction; SQLite runs them one by one, and *)
(* triggers check a transition again (platform_allocation_constraints.go). *)
(*                                                                         *)
(* An allocation is named by the request that created it.  Of the          *)
(* idempotency records only those of the requests that create are          *)
(* modelled: the other calls name the row version they change, which their *)
(* repetition finds gone.                                                  *)
(***************************************************************************)
EXTENDS ProviderSupply, APIIdempotency

CONSTANT Tenants

ASSUME AllocationAssumption ==
    \A r \in Requests :
        /\ BodyOf[r].renews \in Requests \union {Nobody}
        /\ BodyOf[r].tenant \in Tenants
        /\ BodyOf[r].scope \in Providers \X Namespaces
        /\ BodyOf[r].from \in Nat /\ BodyOf[r].to \in Nat

VARIABLES
    allocation,     \* resource_allocation and its item
    closed,         \* tenants and providers that are not active
    expiring        \* what ExpireDue listed and found no change of since

allocationVars == <<allocation, closed, expiring>>

NoAllocation ==
    [state |-> "none", tenant |-> Nobody, scope |-> <<Nobody, Nobody>>, from |-> 0, to |-> 0,
     created |-> 0]

Occupying == {"scheduled", "active", "suspended"}

AllocationInit ==
    /\ allocation = [a \in Requests |-> NoAllocation]
    /\ closed = {}
    /\ expiring = {}

(* A change moves the row version, by which ExpireDue knows it. *)
Changes(a, x) ==
    /\ allocation' = [allocation EXCEPT ![a] = x]
    /\ expiring' = expiring \ {a}

-----------------------------------------------------------------------------

(* loadAllocatableNamespaceScope *)
MayBeAllocated(s) ==
    LET p == s[1]
        n == s[2]
    IN  /\ scope[p][n].state = "allocatable" /\ resource[p].state = "active"
        /\ p \notin closed
        /\ HasSource(p) /\ EvidenceHolds(p, n)

(* normalizeAllocationDraftInput; an end past MaxTime is none at all. *)
ValidWindow(from, to) == from < to

Overlap(x, y) == x.from < y.to /\ y.from < x.to

(* Mutant: a suspended allocation does not hold its scope. *)
ConflictsWithRunning(a) ==
    \E b \in Requests \ {a} :
        /\ allocation[b].state \in {"scheduled", "active"}
        /\ allocation[b].scope = allocation[a].scope /\ Overlap(allocation[a], allocation[b])

(* checkPlatformAllocationConflicts; only namespaces are allocated, so that *)
(* no two scopes stand in a hierarchy.                                      *)
Conflicts(a) ==
    \E b \in Requests \ {a} :
        /\ allocation[b].state \in Occupying
        /\ allocation[b].scope = allocation[a].scope /\ Overlap(allocation[a], allocation[b])

(* validateAllocationForOccupancy *)
MayOccupy(a) ==
    /\ allocation[a].tenant \notin closed
    /\ MayBeAllocated(allocation[a].scope)
    /\ ~Conflicts(a)

-----------------------------------------------------------------------------

(* CreateDraft, and Renew of an allocation: Renew takes tenant and scope    *)
(* from the allocation it renews.                                           *)
Execute(r) ==
    LET b == BodyOf[r]
        old == allocation[b.renews]
        tenant == IF b.renews = Nobody THEN b.tenant ELSE old.tenant
        s == IF b.renews = Nobody THEN b.scope ELSE old.scope
    IN  /\ Complete(r)
        /\ b.renews # Nobody => old.state \in {"active", "suspended", "expired", "revoked"}
        /\ ValidWindow(b.from, b.to)
        /\ tenant \notin closed /\ MayBeAllocated(s)
        /\ Changes(r, [state |-> "draft", tenant |-> tenant, scope |-> s,
                       from |-> b.from, to |-> b.to, created |-> now])
        /\ UNCHANGED closed

UpdateDraft(a, tenant, s, from, to) ==
    /\ allocation[a].state = "draft"
    /\ ValidWindow(from, to)
    /\ tenant \notin closed /\ MayBeAllocated(s)
    /\ Changes(a, [allocation[a] EXCEPT !.tenant = tenant, !.scope = s, !.from = from, !.to = to])
    /\ UNCHANGED <<idempotencyVars, closed>>

Becomes(a, to) ==
    /\ Changes(a, [allocation[a] EXCEPT !.state = to])
    /\ UNCHANGED <<idempotencyVars, closed>>

Schedule(a) ==
    /\ allocation[a].state = "draft"
    /\ allocation[a].from > now
    /\ MayOccupy(a)
    /\ Becomes(a, "scheduled")

(* Activate and Resume *)
Activate(a) ==
    /\ allocation[a].state \in {"draft", "scheduled", "suspended"}
    /\ allocation[a].from <= now /\ now < allocation[a].to
    /\ MayOccupy(a)
    /\ Becomes(a, "active")

Suspend(a) ==
    /\ allocation[a].state = "active"
    /\ Becomes(a, "suspended")

(* Mutant: what was never drafted is revoked. *)
RevokeAnything(a) ==
    /\ allocation[a].state # "revoked"
    /\ Becomes(a, "revoked")

Revoke(a) ==
    /\ allocation[a].state \in {"draft"} \union Occupying
    /\ Becomes(a, "revoked")

(* transitionOrganization: a tenant or provider is suspended or resumed. *)
TransitionOrganization(x) ==
    /\ closed' = IF x \in closed THEN closed \ {x} ELSE closed \union {x}
    /\ UNCHANGED <<idempotencyVars, allocation, expiring>>

-----------------------------------------------------------------------------
(* ExpireDue *)

Due(a) == allocation[a].state \in Occupying /\ allocation[a].to <= now

ExpiryLists ==
    /\ expiring = {}
    /\ expiring' = {a \in Requests : Due(a)}
    /\ UNCHANGED <<idempotencyVars, allocation, closed>>

Expire(a) ==
    /\ a \in expiring
    /\ Becomes(a, "expired")

ExpiryAborts ==
    /\ expiring # {} /\ expiring' = {}
    /\ UNCHANGED <<idempotencyVars, allocation, closed>>

-----------------------------------------------------------------------------

RequestStep ==
    \E r \in Requests :
        \/ (Begin(r) \/ Look(r) \/ Delete(r) \/ Fail(r)) /\ UNCHANGED allocationVars
        \/ Execute(r)

AllocationStep ==
    \/ \E a \in Requests : Schedule(a) \/ Activate(a) \/ Suspend(a) \/ Revoke(a) \/ Expire(a)
    \/ \E a, r \in Requests :
          LET b == BodyOf[r] IN UpdateDraft(a, b.tenant, b.scope, b.from, b.to)
    \/ \E x \in Tenants \union Providers : TransitionOrganization(x)
    \/ ExpiryLists
    \/ ExpiryAborts

AllocationNext ==
    \/ (RequestStep \/ AllocationStep) /\ UNCHANGED <<now, supplyVars>>
    \/ SupplyNext /\ UNCHANGED <<idempotencyVars, allocationVars>>

allVars == <<now, supplyVars, idempotencyVars, allocationVars>>

AllocationSpec ==
    now = 0 /\ SupplyInit /\ IdempotencyInit /\ AllocationInit /\ [][AllocationNext]_allVars

-----------------------------------------------------------------------------

AllocationStates == {"none", "draft", "scheduled", "active", "suspended", "expired", "revoked"}

AllocationTypeOK ==
    /\ SupplyTypeOK
    /\ IdempotencyTypeOK
    /\ allocation \in [Requests -> [state : AllocationStates, tenant : Tenants \union {Nobody},
           scope : (Providers \X Namespaces) \union {<<Nobody, Nobody>>},
           from : Nat, to : Nat, created : Nat]]
    /\ \A a \in Requests : allocation[a].state # "none" => allocation[a].tenant \in Tenants
    /\ closed \subseteq Tenants \union Providers
    /\ expiring \subseteq Requests

(* A scope is never held twice: allocations that hold one scope, also those *)
(* that are suspended or only scheduled, have windows that do not overlap.  *)
OccupantsDisjoint ==
    \A a, b \in Requests :
        (/\ a # b /\ allocation[a].scope = allocation[b].scope
         /\ allocation[a].state \in Occupying /\ allocation[b].state \in Occupying)
        => ~Overlap(allocation[a], allocation[b])

(* A request is carried out once however often it is repeated: allocations  *)
(* created under one key are made at least the retention apart.             *)
CreatedOnce ==
    \A r, q \in Requests :
        (/\ r # q /\ KeyOf[r] = KeyOf[q]
         /\ allocation[r].state # "none" /\ allocation[q].state # "none")
        => \/ allocation[r].created + Retention <= allocation[q].created
           \/ allocation[q].created + Retention <= allocation[r].created
=============================================================================
