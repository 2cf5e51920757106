---------------------------- MODULE MCInspection ----------------------------
(* Instances of Inspection for TLC. *)
EXTENDS Inspection, TLC

CONSTANTS a, b

Big == [size |-> 100, files |-> 20, dump |-> 10]
Small == [size |-> 60, files |-> 20, dump |-> 10]
TwoSizes == {Big, Small}
OneSize == {Big}
Everything == {{a, b}}
BySymmetry == Permutations(Comps)
OnlyOne == {{a}, {a, b}}
=============================================================================
