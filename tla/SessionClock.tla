---------------------------- MODULE SessionClock ----------------------------
(***************************************************************************)
(* What the Server tables and the Agent's session manager share: the set   *)
(* of resource-session identifiers, the wall clock both read, and the TTL  *)
(* that bounds every lease.  One unit of the clock stands for the shortest *)
(* distance between two deadlines that the properties tell apart.          *)
(*                                                                         *)
(* The clock is shared: the Server writes absolute deadlines and the Agent *)
(* compares them with its own time.Now().  A skew of the two clocks is not *)
(* modelled (see README).                                                  *)
(***************************************************************************)
EXTENDS Integers, FiniteSets

CONSTANTS
    Sessions,       \* identifiers of resource_session rows (uuid)
    SnapshotTTL,    \* resourceSessionSnapshotTTL
    MaxTime         \* bound of the clock

ASSUME ClockAssumption ==
    /\ SnapshotTTL \in Nat \ {0}
    /\ MaxTime \in Nat

VARIABLE now

(* The earlier of two instants. *)
Earlier(a, b) == IF a <= b THEN a ELSE b

(* time.Now() moves on. *)
Tick ==
    /\ now < MaxTime
    /\ now' = now + 1
=============================================================================
