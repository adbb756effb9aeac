------------------------------- MODULE MCGlue -------------------------------
(* Small instances of Glue for TLC. *)
EXTENDS Glue, TLC
=============================================================================
