---------------------------- MODULE MCManagedLists ----------------------------
(* The instance of ManagedLists that TLC checks. *)
EXTENDS ManagedLists
=============================================================================
