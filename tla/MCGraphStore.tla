---------------------------- MODULE MCGraphStore ----------------------------
(***************************************************************************)
(* Instances of GraphStore for TLC: in version v2 every file imports every *)
(* other one, in any other version it imports nothing.                     *)
(***************************************************************************)
EXTENDS GraphStore, TLC

CONSTANT v2

CrossImports == [f \in Files |-> [v \in Versions |-> IF v = v2 THEN Files \ {f} ELSE {}]]
FileSymmetry == Permutations(Files)
=============================================================================
