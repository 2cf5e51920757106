---------------------------- MODULE MCLifecycle ----------------------------
(* Instances of Lifecycle for TLC. *)
EXTENDS LifecycleLease, TLC

CONSTANTS p1, p2

OneProvider == [r \in Runs |-> p1]

(* The configuration changed after the runs were started. *)
FormerProvider == [r \in Runs |-> p2]

IdSymmetry == Permutations(ServerIds)
=============================================================================
