-------------------------- MODULE MCResourceOutbox --------------------------
(* Small instances of ResourceOutbox. *)
EXTENDS ResourceOutbox, TLC

CONSTANTS o1, a1, w1, w2

(* A workload and its allocation both change twice. *)
MCBothMove == (o1 :> 2) @@ (a1 :> 2)

(* A workload without allocations changes twice. *)
MCOneWorkload == o1 :> 2
=============================================================================
