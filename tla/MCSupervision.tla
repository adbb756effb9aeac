--------------------------- MODULE MCSupervision ---------------------------
(* Supervision on small instances for TLC. *)
EXTENDS Supervision
=============================================================================
