---------------------------- MODULE MCGpuMemory ----------------------------
(* TLC instance of GpuMemory. *)
EXTENDS GpuMemory, TLC

Symmetry == Permutations(Threads) \cup Permutations(Surfaces)
=============================================================================
