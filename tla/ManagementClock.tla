-------------------------- MODULE ManagementClock --------------------------
(***************************************************************************)
(* The Server's wall clock, which supply leases, allocation windows and    *)
(* idempotency records are compared with.  One unit is the shortest        *)
(* distance between two deadlines that the properties tell apart.          *)
(***************************************************************************)
EXTENDS Integers

CONSTANT MaxTime    \* bound of the clock

ASSUME ManagementClockAssumption == MaxTime \in Nat

VARIABLE now

(* time.Now() moves on. *)
ClockTick == now < MaxTime /\ now' = now + 1
=============================================================================
