-------------------------- MODULE TenantProjection --------------------------
(***************************************************************************)
(* What the projection of workloads to tenant resources promises: the      *)
(* resources of an observed workload are only ever derived from the rows   *)
(* as they stand at that moment, so they never go back to an earlier state *)
(* of the workload or of an allocation, however events are repeated,       *)
(* reordered or lost.                                                      *)
(***************************************************************************)
EXTENDS Naturals

CONSTANTS Observations, Allocations

VARIABLES
    source,     \* row_version of each workload_observation and resource_allocation
    shown       \* the row versions an observation's tenant resources were derived from

Aggregates == Observations \union Allocations

Init ==
    /\ source = [x \in Aggregates |-> 0]
    /\ shown = [o \in Observations |-> [x \in Aggregates |-> 0]]

(* A row changes; what tenants see follows later. *)
Change(x) ==
    /\ source' = [source EXCEPT ![x] = @ + 1]
    /\ UNCHANGED shown

(* Some observations are brought up to date, a few of them refreshed first. *)
Project(done, refreshed) ==
    /\ source' = [x \in Aggregates |-> IF x \in refreshed THEN source[x] + 1 ELSE source[x]]
    /\ shown' = [o \in Observations |-> IF o \in done THEN source' ELSE shown[o]]

Next ==
    \/ \E x \in Aggregates : Change(x)
    \/ \E done \in SUBSET Observations : \E refreshed \in SUBSET done : Project(done, refreshed)

Spec == Init /\ [][Next]_<<source, shown>>
=============================================================================
