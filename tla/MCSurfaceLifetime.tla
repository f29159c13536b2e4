------------------------- MODULE MCSurfaceLifetime -------------------------
(* TLC instance of SurfaceLifetime. *)
EXTENDS SurfaceLifetime, TLC

Symmetry == Permutations(Keys) \cup Permutations(Contexts)
=============================================================================
