-------------------------- MODULE SessionLifecycle --------------------------
(***************************************************************************)
(* What the Server promises the readers of a resource session: the graph   *)
(* of its states that the update trigger of the resource_session table     *)
(* enforces, seen per transaction, and the command that goes with a        *)
(* withdrawal.  A transaction may take many sessions one step further.     *)
(***************************************************************************)
CONSTANT Sessions

VARIABLES status, commanded

Init ==
    /\ status = [s \in Sessions |-> "none"]
    /\ commanded = [s \in Sessions |-> FALSE]

Moves(s, from, to) == status[s] \in from /\ status'[s] \in to
Silent(s) == commanded'[s] = commanded[s]

Keep(s)     == status'[s] = status[s] /\ Silent(s)
Open(s)     == Moves(s, {"none"}, {"authorizing"}) /\ Silent(s)
Activate(s) == Moves(s, {"authorizing"}, {"active"}) /\ Silent(s)

(* A live session is withdrawn once, and with a command. *)
Withdraw(s) ==
    /\ Moves(s, {"authorizing", "active"}, {"ending"})
    /\ ~commanded[s] /\ commanded'[s]

(* Only a session that was never active can be rejected. *)
Settle(s) ==
    /\ \/ Moves(s, {"authorizing"}, {"rejected", "ended", "terminated"})
       \/ Moves(s, {"active", "ending"}, {"ended", "terminated"})
    /\ Silent(s)

Next == \A s \in Sessions : Keep(s) \/ Open(s) \/ Activate(s) \/ Withdraw(s) \/ Settle(s)

Spec == Init /\ [][Next]_<<status, commanded>>
=============================================================================
