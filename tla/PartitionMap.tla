---------------------------- MODULE PartitionMap ----------------------------
(***************************************************************************)
(* What the graph store promises of replacement: the graph is a map from   *)
(* files to partitions, replacing the partition of one file changes that   *)
(* file and keeps the rest of the graph.                                   *)
(***************************************************************************)
CONSTANTS Files, Versions, Absent

VARIABLE graph

Empty == [f \in Files |-> Absent]

Replace(f, v) == graph' = [graph EXCEPT ![f] = v]

Init == graph = Empty
Next == \E f \in Files, v \in Versions : Replace(f, v)
Spec == Init /\ [][Next]_graph
=============================================================================
