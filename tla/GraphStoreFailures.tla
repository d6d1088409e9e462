------------------------- MODULE GraphStoreFailures -------------------------
(***************************************************************************)
(* GraphStore with a count of the operations that stopped half way and a   *)
(* record of what an incremental write found when it began, and what holds *)
(* of a store while nothing failed and of a write that succeeds.  A bound  *)
(* on the count makes it checkable; the number and the order of operations *)
(* is free.  Neither variable restrains the store: only properties read    *)
(* them, and the bound.                                                    *)
(***************************************************************************)
EXTENDS GraphStore

CONSTANT MaxFailures  \* bound on the operations of a behaviour that stop half way

ASSUME FailuresAssumption == MaxFailures \in Nat

VARIABLES
    failures,  \* operations that stopped half way
    before     \* the graph the manifest gave when the running incremental write
               \* began, or Absent where partition_file_check had complaints then

\* Where an incremental write is running.
Replacing == {"incr_open", "incr_delta", "incr_line", "incr_newline"}

Remember ==
    before' = IF pc' \notin Replacing THEN Absent
              ELSE IF pc \in Replacing THEN before
              ELSE IF PartitionFileProblems = {} THEN LoadFromManifest
              ELSE Absent

BoundedAbort ==
    /\ failures < MaxFailures
    /\ failures' = failures + 1
    /\ Abort

BoundedNext == ((Undisturbed /\ UNCHANGED failures) \/ BoundedAbort) /\ Remember
BoundedSpec == Init /\ failures = 0 /\ before = Absent /\ [][BoundedNext]_<<vars, failures, before>>
-----------------------------------------------------------------------------
\* The command line never calls compact(), so its stores have no snapshot.
NothingWentWrong == failures = 0
OnlyTheCommandLine == NothingWentWrong /\ snapshot = Absent

\* With the calls the command line makes and none that failed, `query symbols`
\* answers from the symbol index exactly what it would answer from the graph.
SymbolsOfTheCommandLine == OnlyTheCommandLine => SymbolAnswerIsCurrent

\* While no operation failed half way, partition_file_check has nothing to
\* report: pack, partition files and manifest agree after every operation.
FilesMatchUntilAFailure == NothingWentWrong => ManifestMatchesFiles

\* An incremental write that returns Ok and began on a store on which
\* partition_file_check had nothing to report leaves it so, and in the manifest
\* every file that was there before: manifest and partition files together
\* give the graph they gave when the write began, with the files of the batch
\* at their new version, whether or not an earlier write already replaced them.
ManifestKeepsTheRest ==
    [][pc = "incr_open" /\ pc' = "idle" /\ failures' = failures /\ before # Absent
        => /\ LoadFromManifest' = Overlay(before, BatchGraph)
           /\ PartitionFileProblems' = {}]_<<vars, failures, before>>
=============================================================================
