------------------------------ MODULE IndexRun ------------------------------
(***************************************************************************)
(* What "aci index" promises of one full index.  The store consists of     *)
(* parts that are replaced one after the other, in a fixed order, and only *)
(* by what a complete index of the repository puts in them.  An error may  *)
(* come at any moment: before the first part was touched the store is what *)
(* it was; after that a first few parts are new, one may be gone, and the  *)
(* rest is what it was.  "Ok" means that all of them are new.              *)
(***************************************************************************)
EXTENDS Naturals

CONSTANTS
    Parts,    \* the number of parts of a store
    Wanted,   \* the files whose partitions belong in the store
    Old,      \* what a part held before
    Gone      \* a part that was removed and not replaced yet

VARIABLES store, answer

Init == store = [i \in 1..Parts |-> Old] /\ answer = "running"

Turn(i) == answer = "running" /\ \A j \in 1..Parts : j < i => store[j] = Wanted

Remove(i) ==
    /\ Turn(i)
    /\ store[i] = Old
    /\ store' = [store EXCEPT ![i] = Gone]
    /\ UNCHANGED answer

Replace(i) ==
    /\ Turn(i)
    /\ store' = [store EXCEPT ![i] = Wanted]
    /\ UNCHANGED answer

Succeed ==
    /\ answer = "running"
    /\ \A i \in 1..Parts : store[i] = Wanted
    /\ answer' = "ok"
    /\ UNCHANGED store

Fail ==
    /\ answer = "running"
    /\ answer' = "error"
    /\ UNCHANGED store

Next == (\E i \in 1..Parts : Remove(i) \/ Replace(i)) \/ Succeed \/ Fail
Spec == Init /\ [][Next]_<<store, answer>>
=============================================================================
