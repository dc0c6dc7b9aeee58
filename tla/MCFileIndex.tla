---------------------------- MODULE MCFileIndex ----------------------------
(* FileIndex on small sets. *)
EXTENDS FileIndex, TLC
=============================================================================
