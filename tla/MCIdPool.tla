------------------------------ MODULE MCIdPool ------------------------------
(* TLC instance of IdPool. *)
EXTENDS IdPool, TLC

Symmetry == Permutations(Entries)
=============================================================================
