----------------------------- MODULE MCHistory -----------------------------
(* Small instances of History for TLC. *)
EXTENDS History

Symmetry == Permutations(Letters)
============================================================================
