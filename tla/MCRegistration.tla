--------------------------- MODULE MCRegistration ---------------------------
(* Registration on small sets. *)
EXTENDS Registration, TLC
=============================================================================
