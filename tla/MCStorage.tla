------------------------------- MODULE MCStorage -------------------------------
(* An instance of Storage for TLC. *)
EXTENDS Storage, TLC

BySymmetry == Permutations(Procs) \cup Permutations(Inodes)
BothStyles == BOOLEAN
=============================================================================
