-------------------------- MODULE MCReconcileLoop --------------------------
(***************************************************************************)
(* Replica counts 0 to 3 and two service ids: enough for every comparison  *)
(* of two counts to come out each way, and for an update to change the id. *)
(***************************************************************************)
EXTENDS ReconcileLoop

MCCounts == 0 .. 3
MCIds == 1 .. 2
=============================================================================
