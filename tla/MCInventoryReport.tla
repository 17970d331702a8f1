-------------------------- MODULE MCInventoryReport --------------------------
(* Small instances of InventoryReport. *)
EXTENDS InventoryReport

MCSequence == [k \in {"supply", "work"} |-> IF k = "supply" THEN 1 ELSE 2]
=============================================================================
