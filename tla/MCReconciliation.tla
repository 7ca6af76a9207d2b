-------------------------- MODULE MCReconciliation --------------------------
(* The instances of MCLedger, with the job running beside the calls. *)
EXTENDS MCLedger, Reconciliation
=============================================================================
