----------------------- MODULE ScopeAllocation_proofs -----------------------
(***************************************************************************)
(* What ScopeAllocation promises for every set of requests, tenants and    *)
(* scopes, and every retention.                                            *)
(*                                                                         *)
(* Allocation only reads the supply (AllocationReadsSupply), which carries *)
(* the theorems of ProviderSupply_proofs over.  Of an allocation a step    *)
(* either changes the state, or rewrites a draft (Rewrites), or creates it *)
(* in the transaction that finishes its record (Execute).                  *)
(***************************************************************************)
EXTENDS ScopeAllocation, ProviderSupply_proofs

Row ==
    [state : AllocationStates, tenant : Tenants \union {Nobody},
     scope : (Providers \X Namespaces) \union {<<Nobody, Nobody>>},
     from : Nat, to : Nat, created : Nat]

AllocationTyped ==
    /\ SupplyTyped
    /\ IdempotencyTypeOK
    /\ allocation \in [Requests -> Row]
    /\ \A a \in Requests : allocation[a].state # "none" => allocation[a].tenant \in Tenants
    /\ closed \subseteq Tenants \union Providers
    /\ expiring \subseteq Requests
    /\ \A a \in expiring : allocation[a].state \in Occupying

-----------------------------------------------------------------------------
(* Allocation and supply. *)

(* A step of the whole is a step of the supply or leaves it alone.          *)
LEMMA SupplyUnderAllocation ==
    ASSUME [AllocationNext]_allVars
    PROVE  [SupplyNext]_<<now, supplyVars>>
  BY DEF AllocationNext, allVars

(* Allocation reads what providers offer and writes none of it: the supply  *)
(* behaves as it does alone.                                                *)
THEOREM AllocationReadsSupply == AllocationSpec => SupplySpec
  BY SupplyUnderAllocation, PTL DEF AllocationSpec, SupplySpec

-----------------------------------------------------------------------------
(* Rows. *)

(* One allocation is written, and the others kept.                          *)
LEMMA ChangesFacts ==
    ASSUME allocation \in [Requests -> Row], NEW a \in Requests, NEW x \in Row, Changes(a, x)
    PROVE  /\ allocation' \in [Requests -> Row]
           /\ allocation'[a] = x
           /\ \A b \in Requests \ {a} : allocation'[b] = allocation[b]
           /\ expiring' = expiring \ {a}
  BY DEF Changes

(* What a step does to an allocation that exists: a new state it may hold   *)
(* the scope in only if no other holds it, or a new content for a draft.    *)
Rewrites(a, x) ==
    /\ x \in Row /\ x.state # "none" /\ x.tenant \in Tenants
    /\ allocation[a].state # "none" /\ x.created = allocation[a].created
    /\ x.state \in Occupying =>
          /\ x.scope = allocation[a].scope /\ x.from = allocation[a].from /\ x.to = allocation[a].to
          /\ allocation[a].state \in Occupying \/ ~Conflicts(a)
    /\ Changes(a, x)

(* A transition rewrites the state only.                                    *)
LEMMA BecomesRewrites ==
    ASSUME AllocationTyped, NEW a \in Requests, NEW to \in AllocationStates \ {"none"},
           allocation[a].state # "none", Becomes(a, to),
           to \in Occupying => allocation[a].state \in Occupying \/ ~Conflicts(a)
    PROVE  \E x : Rewrites(a, x)
  <1> DEFINE x == [allocation[a] EXCEPT !.state = to]
  <1>1. allocation[a] \in Row /\ allocation[a].tenant \in Tenants
    BY DEF AllocationTyped
  <1>2. /\ x \in Row /\ x.state = to /\ x.tenant = allocation[a].tenant
        /\ x.created = allocation[a].created /\ x.scope = allocation[a].scope
        /\ x.from = allocation[a].from /\ x.to = allocation[a].to
    BY <1>1 DEF Row
  <1>3. Changes(a, x)
    BY DEF Becomes
  <1> HIDE DEF x
  <1>4. Rewrites(a, x)
    BY <1>1, <1>2, <1>3 DEF Rewrites
  <1> QED
    BY <1>4

(* Every step on allocations that exist rewrites one of them, and leaves    *)
(* the requests alone.                                                      *)
LEMMA AllocationStepRewrites ==
    ASSUME AllocationTyped, AllocationStep
    PROVE  /\ UNCHANGED idempotencyVars
           /\ \/ UNCHANGED allocation
              \/ \E a \in Requests : \E x : Rewrites(a, x)
  <1>1. ASSUME NEW a \in Requests, Schedule(a) PROVE \E x : Rewrites(a, x)
    BY <1>1, BecomesRewrites DEF Schedule, MayOccupy, AllocationStates
  <1>2. ASSUME NEW a \in Requests, Activate(a) PROVE \E x : Rewrites(a, x)
    BY <1>2, BecomesRewrites DEF Activate, MayOccupy, AllocationStates
  <1>3. ASSUME NEW a \in Requests, Suspend(a) PROVE \E x : Rewrites(a, x)
    BY <1>3, BecomesRewrites DEF Suspend, Occupying, AllocationStates
  <1>4. ASSUME NEW a \in Requests, Revoke(a) PROVE \E x : Rewrites(a, x)
    BY <1>4, BecomesRewrites DEF Revoke, Occupying, AllocationStates
  <1>5. ASSUME NEW a \in Requests, Expire(a) PROVE \E x : Rewrites(a, x)
    <2>1. allocation[a].state \in Occupying
      BY <1>5 DEF Expire, AllocationTyped
    <2> QED
      BY <1>5, <2>1, BecomesRewrites DEF Expire, Occupying, AllocationStates
  <1>6. ASSUME NEW a \in Requests, NEW r \in Requests,
               UpdateDraft(a, BodyOf[r].tenant, BodyOf[r].scope, BodyOf[r].from, BodyOf[r].to)
        PROVE  \E x : Rewrites(a, x)
    <2> DEFINE b == BodyOf[r]
               x == [allocation[a] EXCEPT !.tenant = b.tenant, !.scope = b.scope,
                                          !.from = b.from, !.to = b.to]
    <2>1. /\ b.tenant \in Tenants /\ b.scope \in Providers \X Namespaces
          /\ b.from \in Nat /\ b.to \in Nat
      BY AllocationAssumption
    <2>2. allocation[a] \in Row /\ allocation[a].state = "draft"
      BY <1>6 DEF AllocationTyped, UpdateDraft
    <2>3. Changes(a, x)
      BY <1>6 DEF UpdateDraft
    <2> HIDE DEF b
    <2>4. x \in Row /\ x.state = "draft" /\ x.tenant \in Tenants /\ x.created = allocation[a].created
      BY <2>1, <2>2 DEF Row
    <2> HIDE DEF x
    <2>5. Rewrites(a, x)
      BY <2>2, <2>3, <2>4 DEF Rewrites, Occupying
    <2> QED
      BY <2>5
  <1>7. UNCHANGED idempotencyVars
    BY DEF AllocationStep, Schedule, Activate, Suspend, Revoke, Expire, UpdateDraft, Becomes,
           TransitionOrganization, ExpiryLists, ExpiryAborts
  <1>8. CASE \E a \in Requests : Schedule(a) \/ Activate(a) \/ Suspend(a) \/ Revoke(a) \/ Expire(a)
    BY <1>1, <1>2, <1>3, <1>4, <1>5, <1>7, <1>8
  <1>9. CASE \E a, r \in Requests :
                UpdateDraft(a, BodyOf[r].tenant, BodyOf[r].scope, BodyOf[r].from, BodyOf[r].to)
    BY <1>6, <1>7, <1>9
  <1>10. CASE UNCHANGED allocation
    BY <1>7, <1>10
  <1> QED
    BY <1>8, <1>9, <1>10 DEF AllocationStep, TransitionOrganization, ExpiryLists, ExpiryAborts

(* The allocation a request creates: a draft of a tenant, made now.         *)
LEMMA ExecuteFacts ==
    ASSUME AllocationTyped, NEW r \in Requests, Execute(r)
    PROVE  \E x \in Row : /\ x.state = "draft" /\ x.tenant \in Tenants /\ x.created = now
                          /\ Changes(r, x) /\ Complete(r) /\ closed' = closed
  <1> DEFINE b == BodyOf[r]
             old == allocation[b.renews]
             tenant == IF b.renews = Nobody THEN b.tenant ELSE old.tenant
             s == IF b.renews = Nobody THEN b.scope ELSE old.scope
             x == [state |-> "draft", tenant |-> tenant, scope |-> s,
                   from |-> b.from, to |-> b.to, created |-> now]
  <1>1. /\ b.renews \in Requests \union {Nobody} /\ b.tenant \in Tenants
        /\ b.scope \in Providers \X Namespaces /\ b.from \in Nat /\ b.to \in Nat
    BY AllocationAssumption
  <1>2. now \in Nat
    BY TypedTables DEF AllocationTyped
  <1>3. Changes(r, x) /\ Complete(r) /\ closed' = closed
    BY DEF Execute
  <1>4. b.renews # Nobody => old.state # "none"
    BY DEF Execute
  <1> HIDE DEF b
  <1>5. b.renews # Nobody => old \in Row /\ old.tenant \in Tenants
    BY <1>1, <1>4 DEF AllocationTyped
  <1>6. tenant \in Tenants /\ s \in (Providers \X Namespaces) \union {<<Nobody, Nobody>>}
    BY <1>1, <1>5 DEF Row
  <1> HIDE DEF tenant, s
  <1>7. x \in Row
    BY <1>1, <1>2, <1>6 DEF Row, AllocationStates
  <1> QED
    BY <1>3, <1>6, <1>7

-----------------------------------------------------------------------------
(* Typing. *)

(* Nothing is allocated and no request made yet.                            *)
LEMMA AllocationTypedInit ==
    now = 0 /\ SupplyInit /\ IdempotencyInit /\ AllocationInit => AllocationTyped
  BY SupplyTypedInit
     DEF IdempotencyInit, AllocationInit, AllocationTyped, IdempotencyTypeOK, NoRecord, NoAllocation,
         Row, AllocationStates, Occupying, Steps

(* The part of the invariant that the steps on rows concern.                *)
RowsTyped ==
    /\ allocation \in [Requests -> Row]
    /\ \A a \in Requests : allocation[a].state # "none" => allocation[a].tenant \in Tenants
    /\ expiring \subseteq Requests
    /\ \A a \in expiring : allocation[a].state \in Occupying

(* Writing a row of a tenant keeps the rows well formed: what was listed    *)
(* for expiry and is written is not listed any more.                        *)
LEMMA ChangesTyped ==
    ASSUME RowsTyped, NEW a \in Requests, NEW x \in Row, x.tenant \in Tenants, Changes(a, x)
    PROVE  RowsTyped'
  BY ChangesFacts DEF RowsTyped

(* What happens to requests and records keeps them well formed.             *)
LEMMA IdempotencyTyped ==
    ASSUME IdempotencyTypeOK, now \in Nat, NEW r \in Requests,
           Begin(r) \/ Look(r) \/ Delete(r) \/ Fail(r) \/ Complete(r)
    PROVE  IdempotencyTypeOK'
  <1>1. KeyOf[r] \in Keys /\ now + Retention \in Nat
    BY IdempotencyAssumption DEF Keys
  <1>2. CASE Begin(r)
    BY <1>1, <1>2 DEF Begin, Goes, IdempotencyTypeOK, Steps
  <1>3. CASE Look(r)
    BY <1>1, <1>3 DEF Look, Goes, IdempotencyTypeOK, Steps
  <1>4. CASE Delete(r)
    BY <1>1, <1>4 DEF Delete, Goes, IdempotencyTypeOK, Steps, NoRecord
  <1>5. CASE Fail(r)
    BY <1>1, <1>5 DEF Fail, Goes, IdempotencyTypeOK, Steps
  <1>6. CASE Complete(r)
    BY <1>1, <1>6 DEF Complete, Goes, IdempotencyTypeOK, Steps
  <1> QED
    BY <1>2, <1>3, <1>4, <1>5, <1>6

(* Every step keeps allocations, requests, records and supply well formed.  *)
LEMMA AllocationTypedStep == AllocationTyped /\ [AllocationNext]_allVars => AllocationTyped'
  <1> SUFFICES ASSUME AllocationTyped, [AllocationNext]_allVars PROVE AllocationTyped'
    OBVIOUS
  <1>1. SupplyTyped'
    BY SupplyUnderAllocation, SupplyTypedStep DEF AllocationTyped
  <1>2. RowsTyped /\ now \in Nat /\ IdempotencyTypeOK
    BY TypedTables DEF AllocationTyped, RowsTyped
  <1>3. CASE UNCHANGED <<idempotencyVars, allocationVars>>
    BY <1>1, <1>3 DEF AllocationTyped, IdempotencyTypeOK, idempotencyVars, allocationVars
  <1>4. ASSUME NEW r \in Requests, Begin(r) \/ Look(r) \/ Delete(r) \/ Fail(r), UNCHANGED allocationVars
        PROVE  AllocationTyped'
    <2>1. IdempotencyTypeOK'
      BY <1>2, <1>4, IdempotencyTyped
    <2> QED
      BY <1>1, <1>4, <2>1 DEF AllocationTyped, allocationVars
  <1>5. ASSUME NEW r \in Requests, Execute(r) PROVE AllocationTyped'
    <2>1. PICK x \in Row : x.tenant \in Tenants /\ Changes(r, x) /\ Complete(r) /\ closed' = closed
      BY <1>5, ExecuteFacts
    <2>2. RowsTyped' /\ IdempotencyTypeOK'
      BY <1>2, <2>1, ChangesTyped, IdempotencyTyped
    <2> QED
      BY <1>1, <2>1, <2>2 DEF AllocationTyped, RowsTyped
  <1>6. CASE AllocationStep
    <2>1. IdempotencyTypeOK'
      BY <1>6, AllocationStepRewrites, ZenonT(30) DEF AllocationTyped, IdempotencyTypeOK, idempotencyVars
    <2>2. closed' \subseteq Tenants \union Providers
      BY <1>6 DEF AllocationTyped, AllocationStep, Schedule, Activate, Suspend, Revoke, Expire, UpdateDraft,
                  Becomes, TransitionOrganization, ExpiryLists, ExpiryAborts
    <2>3. CASE \E a \in Requests : \E x : Rewrites(a, x)
      <3>1. PICK a \in Requests : \E x : Rewrites(a, x)
        BY <2>3
      <3>2. PICK x : Rewrites(a, x)
        BY <3>1
      <3>3. RowsTyped'
        BY <1>2, <3>2, ChangesTyped DEF Rewrites
      <3> QED
        BY <1>1, <2>1, <2>2, <3>3 DEF AllocationTyped, RowsTyped
    <2>4. CASE UNCHANGED allocation
      <3>1. expiring' \subseteq Requests /\ \A a \in expiring' : allocation[a].state \in Occupying
        BY <1>2, <1>6, <2>4
           DEF RowsTyped, AllocationStep, Schedule, Activate, Suspend, Revoke, Expire, UpdateDraft, Becomes,
               Changes, TransitionOrganization, ExpiryLists, ExpiryAborts, Due
      <3> QED
        BY <1>1, <2>1, <2>2, <2>4, <3>1, ZenonT(30) DEF AllocationTyped
    <2> QED
      BY <1>6, <2>3, <2>4, AllocationStepRewrites
  <1> QED
    BY <1>3, <1>4, <1>5, <1>6 DEF AllocationNext, RequestStep, allVars

(* Every allocation that exists is a tenant's, whoever created, renewed or  *)
(* rewrote it, and every row stays one of its table.                        *)
THEOREM AllocationTyping == AllocationSpec => []AllocationTypeOK
  <1>1. AllocationTyped => AllocationTypeOK
    BY DEF AllocationTyped, AllocationTypeOK, SupplyTyped, Row
  <1> QED
    BY <1>1, AllocationTypedInit, AllocationTypedStep, PTL DEF AllocationSpec

-----------------------------------------------------------------------------
(* Occupants. *)

Holds(a) == allocation[a].state \in Occupying

Apart(a, b) == allocation[a].scope = allocation[b].scope => ~Overlap(allocation[a], allocation[b])

Disjoint == \A a, b \in Requests : a # b /\ Holds(a) /\ Holds(b) => Apart(a, b)

(* An allocation comes to hold a scope only where nothing it would overlap  *)
(* with holds it.                                                           *)
LEMMA RewritesDisjoint ==
    ASSUME AllocationTyped, Disjoint, NEW a \in Requests, NEW x, Rewrites(a, x)
    PROVE  Disjoint'
  <1>1. /\ allocation'[a] = x
        /\ \A b \in Requests \ {a} : allocation'[b] = allocation[b]
    BY ChangesFacts DEF Rewrites, AllocationTyped
  <1>2. ASSUME NEW b \in Requests \ {a}, x.state \in Occupying, Holds(b) PROVE Apart(a, b) /\ Apart(b, a)
    <2>1. CASE Holds(a)
      BY <1>2, <2>1 DEF Disjoint
    <2>2. CASE ~Holds(a)
      BY <1>2, <2>2 DEF Rewrites, Conflicts, Holds, Apart, Overlap
    <2> QED
      BY <2>1, <2>2
  <1>3. x.state \in Occupying =>
           x.scope = allocation[a].scope /\ x.from = allocation[a].from /\ x.to = allocation[a].to
    BY DEF Rewrites
  <1>4. ASSUME NEW b \in Requests, NEW c \in Requests, b # c, Holds(b)', Holds(c)' PROVE Apart(b, c)'
    <2>1. CASE b # a /\ c # a
      BY <1>1, <1>4, <2>1 DEF Disjoint, Holds, Apart, Overlap
    <2>2. CASE b = a
      BY <1>1, <1>2, <1>3, <1>4, <2>2 DEF Holds, Apart, Overlap
    <2>3. CASE c = a
      BY <1>1, <1>2, <1>3, <1>4, <2>3 DEF Holds, Apart, Overlap
    <2> QED
      BY <2>1, <2>2, <2>3
  <1> QED
    BY <1>4 DEF Disjoint

(* A draft holds nothing.                                                   *)
LEMMA ExecuteDisjoint ==
    ASSUME AllocationTyped, Disjoint, NEW r \in Requests, Execute(r)
    PROVE  Disjoint'
  <1>1. PICK x \in Row : x.state = "draft" /\ Changes(r, x)
    BY ExecuteFacts
  <1>2. /\ allocation'[r].state = "draft"
        /\ \A b \in Requests \ {r} : allocation'[b] = allocation[b]
    BY <1>1, ChangesFacts DEF AllocationTyped
  <1> QED
    BY <1>2 DEF Disjoint, Holds, Apart, Overlap, Occupying

(* Two allocations never hold one scope at one time, whether active,        *)
(* suspended or scheduled, and however drafts, renewals, resumptions and    *)
(* expiry interleave.                                                       *)
THEOREM ScopesHeldOnce == AllocationSpec => []OccupantsDisjoint
  <1>1. now = 0 /\ SupplyInit /\ IdempotencyInit /\ AllocationInit => AllocationTyped /\ Disjoint
    BY AllocationTypedInit DEF AllocationInit, NoAllocation, Disjoint, Holds, Occupying
  <1>2. AllocationTyped /\ Disjoint /\ [AllocationNext]_allVars => AllocationTyped' /\ Disjoint'
    <2> SUFFICES ASSUME AllocationTyped, Disjoint, [AllocationNext]_allVars PROVE Disjoint'
      BY AllocationTypedStep
    <2>1. CASE UNCHANGED allocation
      BY <2>1 DEF Disjoint, Holds, Apart, Overlap
    <2>2. CASE AllocationStep
      BY <2>1, <2>2, AllocationStepRewrites, RewritesDisjoint
    <2>3. ASSUME NEW r \in Requests, Execute(r) PROVE Disjoint'
      BY <2>3, ExecuteDisjoint
    <2> QED
      BY <2>1, <2>2, <2>3 DEF AllocationNext, RequestStep, allVars, allocationVars
  <1>3. Disjoint => OccupantsDisjoint
    BY DEF Disjoint, Holds, Apart, OccupantsDisjoint
  <1> QED
    BY <1>1, <1>2, <1>3, PTL DEF AllocationSpec

-----------------------------------------------------------------------------
(* Requests under one key. *)

(* The record under a key is the finished one of this allocation's request. *)
Recorded(r) ==
    /\ record[KeyOf[r]].by = r /\ record[KeyOf[r]].status = "completed"
    /\ record[KeyOf[r]].until = allocation[r].created + Retention

PastRetention(r) == allocation[r].created + Retention <= now

(* What makes CreatedOnce inductive: until the retention of an allocation   *)
(* has passed, its finished record keeps other requests of the key from     *)
(* beginning; and who looks at a record looked at some instant before now.  *)
OnceInv ==
    /\ AllocationTyped
    /\ CreatedOnce
    /\ \A r \in Requests : allocation[r].state # "none" => Recorded(r) \/ PastRetention(r)
    /\ \A r \in Requests : request[r].at <= now

(* Rewriting an allocation leaves its creation and its record alone.        *)
LEMMA RewritesOnce ==
    ASSUME OnceInv, NEW a \in Requests, NEW x, Rewrites(a, x), UNCHANGED <<idempotencyVars, now>>,
           AllocationTyped'
    PROVE  OnceInv'
  <1>1. \A b \in Requests : /\ allocation'[b].created = allocation[b].created
                            /\ allocation'[b].state # "none" => allocation[b].state # "none"
    BY ChangesFacts DEF Rewrites, OnceInv, AllocationTyped
  <1>2. record' = record /\ request' = request /\ now' = now
    BY DEF idempotencyVars
  <1>3. CreatedOnce'
    BY <1>1 DEF OnceInv, CreatedOnce
  <1>4. \A r \in Requests : allocation'[r].state # "none" => (Recorded(r) \/ PastRetention(r))'
    BY <1>1, <1>2 DEF OnceInv, Recorded, PastRetention
  <1> QED
    BY <1>2, <1>3, <1>4 DEF OnceInv

(* Of the steps before the work, only the removal of a record past its      *)
(* retention takes one away.                                                *)
LEMMA PreparesOnce ==
    ASSUME OnceInv, NEW r \in Requests, Begin(r) \/ Look(r) \/ Delete(r) \/ Fail(r),
           UNCHANGED <<allocationVars, now>>, AllocationTyped'
    PROVE  OnceInv'
  <1>1. /\ KeyOf[r] \in Keys /\ record \in [Keys -> [by : Requests \union {Nobody},
               status : {"none", "processing", "completed"}, until : Nat]]
        /\ request \in [Requests -> [step : Steps, at : Nat, stale : Requests \union {Nobody}]]
        /\ now \in Nat /\ allocation' = allocation /\ now' = now
    BY TypedTables DEF Keys, OnceInv, AllocationTyped, IdempotencyTypeOK, allocationVars
  <1>2. \A q \in Requests : request'[q].at <= now'
    <2>1. \A q \in Requests : request[q].at <= now
      BY DEF OnceInv
    <2>2. \A q \in Requests : q # r => request'[q] = request[q]
      BY <1>1 DEF Begin, Look, Delete, Fail, Goes
    <2>3. request'[r].at \in {request[r].at, now}
      <3>1. CASE Begin(r)
        BY <1>1, <3>1 DEF Begin, Goes
      <3>2. CASE Look(r)
        BY <1>1, <3>2 DEF Look, Goes
      <3>3. CASE Delete(r)
        <4>1. \E step \in Steps : Goes(r, step)
          BY <3>3 DEF Delete, Steps
        <4> QED
          BY <1>1, <4>1 DEF Goes
      <3>4. CASE Fail(r)
        BY <1>1, <3>4 DEF Fail, Goes
      <3> QED
        BY <3>1, <3>2, <3>3, <3>4
    <2> QED
      BY <1>1, <2>1, <2>2, <2>3
  <1>3. ASSUME NEW q \in Requests, allocation[q].state # "none" PROVE (Recorded(q) \/ PastRetention(q))'
    <2>1. CASE PastRetention(q)
      BY <1>1, <2>1 DEF PastRetention
    <2>2. CASE Recorded(q) /\ KeyOf[q] # KeyOf[r]
      <3>1. KeyOf[q] \in Keys
        BY DEF Keys
      <3>2. record'[KeyOf[q]] = record[KeyOf[q]]
        BY <1>1, <2>2, <3>1 DEF Begin, Look, Delete, Fail
      <3> QED
        BY <1>1, <2>2, <3>2 DEF Recorded
    <2>3. CASE Recorded(q) /\ KeyOf[q] = KeyOf[r]
      <3>1. CASE record' = record
        BY <1>1, <2>3, <3>1 DEF Recorded
      <3>2. CASE record' # record
        <4>1. record[KeyOf[r]] # NoRecord
          BY <2>3 DEF Recorded, NoRecord
        <4>2. Delete(r) /\ record[KeyOf[r]].until <= request[r].at
          BY <3>2, <4>1 DEF Begin, Look, Delete, Fail
        <4>3. record[KeyOf[r]].until \in Nat /\ request[r].at \in Nat /\ request[r].at <= now
          BY <1>1 DEF OnceInv
        <4>4. record[KeyOf[r]].until <= now
          BY <1>1, <4>2, <4>3
        <4> QED
          BY <1>1, <2>3, <4>4 DEF Recorded, PastRetention
      <3> QED
        BY <3>1, <3>2
    <2> QED
      BY <1>3, <2>1, <2>2, <2>3 DEF OnceInv
  <1>4. CreatedOnce'
    BY <1>1 DEF OnceInv, CreatedOnce
  <1> QED
    BY <1>1, <1>2, <1>3, <1>4 DEF OnceInv

(* Carrying a request out: its record was under way, so that no other       *)
(* allocation of the key is within its retention.                           *)
LEMMA ExecuteOnce ==
    ASSUME OnceInv, NEW r \in Requests, Execute(r), UNCHANGED now, AllocationTyped'
    PROVE  OnceInv'
  <1>1. PICK x \in Row : x.state = "draft" /\ x.created = now /\ Changes(r, x) /\ Complete(r)
    BY ExecuteFacts DEF OnceInv
  <1>2. /\ allocation'[r] = x
        /\ \A b \in Requests \ {r} : allocation'[b] = allocation[b]
    BY <1>1, ChangesFacts DEF OnceInv, AllocationTyped
  <1>3. /\ KeyOf[r] \in Keys /\ record \in [Keys -> [by : Requests \union {Nobody},
               status : {"none", "processing", "completed"}, until : Nat]]
        /\ request \in [Requests -> [step : Steps, at : Nat, stale : Requests \union {Nobody}]]
        /\ now \in Nat
    BY TypedTables DEF Keys, OnceInv, AllocationTyped, IdempotencyTypeOK
  <1>4. /\ record[KeyOf[r]].status = "processing"
        /\ record'[KeyOf[r]].by = r /\ record'[KeyOf[r]].status = "completed"
        /\ record'[KeyOf[r]].until = now + Retention
        /\ \A k \in Keys \ {KeyOf[r]} : record'[k] = record[k]
    BY <1>1, <1>3 DEF Complete
  <1>5. ASSUME NEW q \in Requests, KeyOf[q] = KeyOf[r], allocation[q].state # "none"
        PROVE  allocation[q].created + Retention <= now
    BY <1>4, <1>5 DEF OnceInv, Recorded, PastRetention
  <1>6. CreatedOnce'
    <2> SUFFICES ASSUME NEW p \in Requests, NEW q \in Requests, p # q, KeyOf[p] = KeyOf[q],
                        allocation'[p].state # "none", allocation'[q].state # "none"
                 PROVE  \/ allocation'[p].created + Retention <= allocation'[q].created
                        \/ allocation'[q].created + Retention <= allocation'[p].created
      BY DEF CreatedOnce
    <2>1. CASE p = r
      BY <1>1, <1>2, <1>5, <2>1
    <2>2. CASE q = r
      BY <1>1, <1>2, <1>5, <2>2
    <2>3. CASE p # r /\ q # r
      BY <1>2, <2>3 DEF OnceInv, CreatedOnce
    <2> QED
      BY <2>1, <2>2, <2>3
  <1>7. ASSUME NEW q \in Requests, allocation'[q].state # "none" PROVE (Recorded(q) \/ PastRetention(q))'
    <2>1. CASE q = r
      BY <1>1, <1>2, <1>4, <2>1 DEF Recorded
    <2>2. CASE q # r /\ KeyOf[q] = KeyOf[r]
      BY <1>2, <1>5, <1>7, <2>2 DEF PastRetention
    <2>3. CASE q # r /\ KeyOf[q] # KeyOf[r]
      <3>1. KeyOf[q] \in Keys
        BY DEF Keys
      <3> QED
        BY <1>2, <1>4, <1>7, <2>3, <3>1 DEF OnceInv, Recorded, PastRetention
    <2> QED
      BY <2>1, <2>2, <2>3
  <1>8. \A q \in Requests : request'[q].at <= now'
    BY <1>1, <1>3 DEF OnceInv, Complete, Goes
  <1> QED
    BY <1>6, <1>7, <1>8 DEF OnceInv

(* Time passes and records grow old.                                        *)
LEMMA TimeOnce ==
    ASSUME OnceInv, now' \in Nat, now <= now', UNCHANGED <<idempotencyVars, allocationVars>>, AllocationTyped'
    PROVE  OnceInv'
  <1>1. /\ record' = record /\ request' = request /\ allocation' = allocation
        /\ now \in Nat /\ Retention \in Nat
    BY TypedTables, IdempotencyAssumption DEF OnceInv, AllocationTyped, idempotencyVars, allocationVars
  <1>2. \A r \in Requests : allocation[r].created \in Nat /\ request[r].at \in Nat
    BY DEF OnceInv, AllocationTyped, IdempotencyTypeOK, Row
  <1>3. \A r \in Requests : PastRetention(r) => PastRetention(r)'
    BY <1>1, <1>2 DEF PastRetention
  <1>4. \A r \in Requests : Recorded(r) => Recorded(r)'
    BY <1>1 DEF Recorded
  <1>5. \A r \in Requests : request'[r].at <= now'
    BY <1>1, <1>2 DEF OnceInv
  <1>6. CreatedOnce'
    BY <1>1 DEF OnceInv, CreatedOnce
  <1> QED
    BY <1>1, <1>3, <1>4, <1>5, <1>6 DEF OnceInv

(* However often a caller repeats a request, and however its repetitions    *)
(* interleave in Begin, what is created under the key is created once in    *)
(* the retention of its record.                                             *)
THEOREM RequestsCreateOnce == AllocationSpec => []CreatedOnce
  <1>1. now = 0 /\ SupplyInit /\ IdempotencyInit /\ AllocationInit => OnceInv
    BY AllocationTypedInit DEF AllocationInit, NoAllocation, IdempotencyInit, OnceInv, CreatedOnce
  <1>2. OnceInv /\ [AllocationNext]_allVars => OnceInv'
    <2> SUFFICES ASSUME OnceInv, [AllocationNext]_allVars PROVE OnceInv'
      OBVIOUS
    <2>1. AllocationTyped /\ AllocationTyped' /\ now \in Nat /\ now' \in Nat
      <3>1. AllocationTyped /\ AllocationTyped'
        BY AllocationTypedStep DEF OnceInv
      <3> QED
        BY <3>1 DEF AllocationTyped, SupplyTyped, SupplyTypeOK
    <2>2. CASE UNCHANGED allVars
      BY <2>1, <2>2, TimeOnce DEF allVars
    <2>3. CASE AllocationStep /\ UNCHANGED now
      <3>1. UNCHANGED idempotencyVars
        BY <2>1, <2>3, AllocationStepRewrites
      <3>2. CASE UNCHANGED allocation
        BY <2>1, <2>3, <3>1, <3>2
           DEF OnceInv, CreatedOnce, Recorded, PastRetention, idempotencyVars
      <3>3. CASE \E a \in Requests : \E x : Rewrites(a, x)
        BY <2>1, <2>3, <3>1, <3>3, RewritesOnce
      <3> QED
        BY <2>1, <2>3, <3>2, <3>3, AllocationStepRewrites
    <2>4. ASSUME NEW r \in Requests, Begin(r) \/ Look(r) \/ Delete(r) \/ Fail(r),
                 UNCHANGED <<allocationVars, now>>
          PROVE  OnceInv'
      BY <2>1, <2>4, PreparesOnce
    <2>5. ASSUME NEW r \in Requests, Execute(r), UNCHANGED now PROVE OnceInv'
      BY <2>1, <2>5, ExecuteOnce
    <2>6. CASE SupplyNext /\ UNCHANGED <<idempotencyVars, allocationVars>>
      <3>1. now <= now'
        BY <2>1, <2>6 DEF SupplyNext, ClockTick
      <3> QED
        BY <2>1, <2>6, <3>1, TimeOnce
    <2> QED
      BY <2>2, <2>3, <2>4, <2>5, <2>6 DEF AllocationNext, RequestStep
  <1>3. OnceInv => CreatedOnce
    BY DEF OnceInv
  <1> QED
    BY <1>1, <1>2, <1>3, PTL DEF AllocationSpec
=============================================================================
