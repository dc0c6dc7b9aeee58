--------------------------- MODULE MCTaskDelivery ---------------------------
(* TaskDelivery on small sets. *)
EXTENDS TaskDelivery, TLC
Symmetry == Permutations(Threads)
=============================================================================
