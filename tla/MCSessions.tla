---------------------------- MODULE MCSessions ----------------------------
(* Small instances of Sessions for TLC. *)
EXTENDS Sessions, TLC

Symmetry == Permutations(Conns) \union Permutations(Requests)
===========================================================================
