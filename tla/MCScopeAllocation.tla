------------------------- MODULE MCScopeAllocation -------------------------
(* Small instances of ScopeAllocation, from four starts. *)
EXTENDS ScopeAllocation

MCProviderOf == [s \in {"a", "b"} |-> IF s = "a" THEN "p" ELSE "q"]

MCKeyOf == [r \in {"r1", "r2", "r3", "r4"} |-> IF r = "r4" THEN "renew" ELSE "create"]

Body(from, to, renews) ==
    [tenant |-> "t", scope |-> <<"p", "n">>, from |-> from, to |-> to, renews |-> renews]

MCBodyOf == [r \in {"r1", "r2", "r3", "r4"} |->
    CASE r \in {"r1", "r2"} -> Body(0, 2, Nobody)
      [] r = "r3" -> Body(2, 9, Nobody)
      [] r = "r4" -> Body(1, 3, "r1")]

VARIABLE start
mcVars == <<allVars, start>>

Linked0 == [quality |-> "strong", conflict |-> "none", review |-> "linked",
            until |-> CandidateLease, seen |-> [n \in Namespaces |-> 1]]

(* The offer of p stands; b's Agent sees the same cluster. *)
Offered ==
    /\ technical = [s \in Sources |-> "registered"]
    /\ candidate = [s \in Sources |-> IF s = "a" THEN Linked0 ELSE Nothing]
    /\ resource = [p \in Providers |->
           IF p = "p" THEN [state |-> "active", count |-> Cardinality(Namespaces)]
           ELSE [state |-> "none", count |-> 0]]
    /\ cluster = [p \in Providers |-> IF p = "p" THEN "active" ELSE "none"]
    /\ scope = [p \in Providers |-> [n \in Namespaces |->
           IF p = "p" THEN [state |-> "allocatable", evidence |-> 1]
           ELSE [state |-> "none", evidence |-> 0]]]
    /\ observation = [p \in Providers |-> [n \in Namespaces |->
           IF p = "p" THEN [state |-> "observed", name |-> 1, revision |-> 1, until |-> CandidateLease]
           ELSE [state |-> "none", name |-> Unseen, revision |-> 0, until |-> 0]]]
    /\ supplySweep = Idle

MCInit ==
    /\ now = 0 /\ IdempotencyInit /\ AllocationInit
    /\ \/ start = "alone" /\ SupplyInit
       \/ start \in {"contest", "repetition", "renewal"} /\ Offered

Snapshot(table, s, n) == IF table[s] = Nothing THEN Unseen ELSE table[s].seen[n]

(* What a start leaves alone ... *)
Fixed ==
    \/ start = "alone" /\ UNCHANGED <<idempotencyVars, allocationVars>>
    \/ start = "contest" /\ UNCHANGED <<technical, idempotencyVars, allocationVars>>
    \/ start = "repetition" /\ UNCHANGED <<supplyVars, closed>>
    \/ start = "renewal" /\ now = 0 /\ UNCHANGED <<technical, cluster, supplySweep>>
    \/ start = "renewal" /\ now > 0 /\ UNCHANGED <<technical, candidate, cluster, supplySweep>>

(* ... and the steps that are cut because another start takes them. *)
Alone ==
    /\ start = "alone" /\ technical'["b"] = "pending"
    /\ technical'["a"] = "retired" => resource["p"].state = "none"
    /\ \A n \in Namespaces : Snapshot(candidate', "a", n) \in {Unseen, 1}

Contest ==
    /\ start = "contest" /\ candidate'["a"].quality # "insufficient"
    /\ \A s \in Sources, n \in Namespaces : candidate'[s] # Nothing => Snapshot(candidate', s, n) = 1
    /\ \A p \in Providers : cluster'[p] \in {cluster[p], "draft"} /\ resource'[p].state \in {resource[p].state, "draft"}
    /\ \A p \in Providers, n \in Namespaces : scope'[p][n].state # "retired"

Repetition ==
    /\ start = "repetition" /\ request'["r4"] = request["r4"]
    /\ \A a \in Requests : allocation'[a].state \in {"none", "draft", "active"}

Renewal ==
    /\ start = "renewal" /\ \A r \in {"r2", "r3"} : request'[r] = request[r]
    /\ closed' \in {{}, {"t"}, {"p"}}
    /\ candidate' # candidate => candidate'["b"] = Nothing /\ candidate'["a"].quality = "strong"
    /\ \A n \in Namespaces : Snapshot(candidate', "a", n) # Unseen

MCNext ==
    /\ UNCHANGED start
    /\ Fixed
    /\ AllocationNext
    /\ Alone \/ Contest \/ Repetition \/ Renewal

MCSpec == MCInit /\ [][MCNext]_mcVars
=============================================================================
