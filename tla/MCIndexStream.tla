--------------------------- MODULE MCIndexStream ----------------------------
(***************************************************************************)
(* Instances of IndexStream for TLC: candidates are numbered, the first    *)
(* Indexable ones yield partitions, the last three one of each other kind. *)
(***************************************************************************)
EXTENDS IndexStream

CONSTANTS Indexable

MCCandidates == 1 .. Indexable + 3
MCOutcome ==
    [c \in MCCandidates |->
        CASE c <= Indexable -> "partition"
          [] c = Indexable + 1 -> "none"
          [] c = Indexable + 2 -> "skipped"
          [] c = Indexable + 3 -> "diagnostic"]
MCCapacity == 2 * Cardinality(Workers)
=============================================================================
