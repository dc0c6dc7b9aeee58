--------------------------- MODULE MCTaskExecution ---------------------------
(* The instance of TaskExecution that TLC checks. *)
EXTENDS TaskExecution
=============================================================================
