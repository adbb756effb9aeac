--------------------------- MODULE MCTermStream ---------------------------
(* Small instances of TermStream for TLC. *)
EXTENDS TermStream
===========================================================================
