----------------------------- MODULE MCPairing -----------------------------
(* Pairing on small instances for TLC. *)
EXTENDS Pairing, TLC

\* Phones are interchangeable.
Symmetry == Permutations(Phones)
=============================================================================
