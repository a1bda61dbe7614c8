-------------------------- MODULE MCReconciliation --------------------------
(* Reconciliation of one subscription next to one that waits for capacity. *)
EXTENDS Reconciliation
WaitingBefore == {<<4, 0>>}
=============================================================================
