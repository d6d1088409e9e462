-------------------------- MODULE GraphStoreProofs --------------------------
(***************************************************************************)
(* Theorems about GraphStore for every set of files and versions and every *)
(* import relation; and about GraphStoreFailures, what holds of a store as *)
(* long as no operation on it stopped half way, and what an incremental    *)
(* write leaves in the manifest.                                           *)
(***************************************************************************)
EXTENDS GraphStoreFailures, TLAPS

-----------------------------------------------------------------------------
(* The operators the model is built from.                                  *)

\* A log replayed onto a base gives a graph: replay neither invents a file
\* nor stores anything that is not a version.
LEMMA OverlayType ==
    ASSUME NEW base \in Graph, NEW log \in Graph
    PROVE  Overlay(base, log) \in Graph
BY DEF Overlay, Graph

\* Replaying a log onto a graph that already contains it changes nothing: why
\* a crash between saving the snapshot and emptying the log is harmless.
LEMMA OverlayIdempotent ==
    ASSUME NEW base \in Graph, NEW log \in Graph
    PROVE  Overlay(Overlay(base, log), log) = Overlay(base, log)
BY DEF Overlay, Graph

\* An empty log leaves the base as it is.
LEMMA OverlayEmpty ==
    ASSUME NEW base \in Graph
    PROVE  Overlay(base, EmptyGraph) = base
BY DEF Overlay, Graph, EmptyGraph

\* The position of a batch file is a position of that file.
LEMMA PositionOfBatchFile ==
    ASSUME batch \in Seq(Partition), NEW f \in BatchFiles
    PROVE  /\ Position(f) \in DOMAIN batch
           /\ Position(f) \in Nat \ {0}
           /\ batch[Position(f)].file = f
           /\ batch[Position(f)] \in Partition
BY DEF Position, BatchFiles

\* What the batch describes is well typed.
LEMMA BatchTypes ==
    ASSUME batch \in Seq(Partition), manifest \in [Files -> Entry \cup {Absent}]
    PROVE  /\ FullManifest \in [Files -> Entry \cup {Absent}]
           /\ PatchedManifest \in [Files -> Entry \cup {Absent}]
           /\ BatchGraph \in Graph
           /\ BatchFacts \in SUBSET (Files \X Versions)
           /\ BatchImports \in SUBSET (Files \X Files)
<1>1. ASSUME NEW f \in BatchFiles
      PROVE  /\ [version |-> batch[Position(f)].version, record |-> Position(f)] \in Entry
             /\ [version |-> batch[Position(f)].version, record |-> 0] \in Entry
             /\ batch[Position(f)].version \in Versions
  BY <1>1, PositionOfBatchFile DEF Entry, Partition
<1>2. FullManifest \in [Files -> Entry \cup {Absent}]
  BY <1>1 DEF FullManifest
<1>3. PatchedManifest \in [Files -> Entry \cup {Absent}]
  BY <1>1 DEF PatchedManifest
<1>4. BatchGraph \in Graph
  BY <1>1 DEF BatchGraph, Graph
<1>5. BatchFacts \in SUBSET (Files \X Versions)
  <2>1. \A i \in DOMAIN batch : batch[i] \in Partition
    OBVIOUS
  <2>2. \A i \in DOMAIN batch : batch[i].file \in Files /\ batch[i].version \in Versions
    BY <2>1 DEF Partition
  <2>3. QED
    BY <2>2 DEF BatchFacts
<1>6. BatchImports \in SUBSET (Files \X Files)
  BY DEF BatchImports
<1>7. QED
  BY <1>2, <1>3, <1>4, <1>5, <1>6

\* No file has two records in the batch, nor in the pack.
Distinct(seq) == \A i, j \in DOMAIN seq : seq[i].file = seq[j].file => i = j
\* A log line is only written for a partition.
LineHasPartition == pc \in {"incr_delta", "incr_line", "incr_newline"} => batch # <<>>
TypeInv == TypeOK /\ Distinct(batch) /\ Distinct(pack) /\ LineHasPartition

\* In a pack without duplicates a file is read from its only named record.
LEMMA OnlyRecord ==
    ASSUME TypeOK, Distinct(pack), NEW f \in Files, NEW r \in RecordsOf(f)
    PROVE  /\ r \in DOMAIN pack /\ pack[r] \in Partition /\ pack[r].file = f
           /\ LoadFromManifest[f] = pack[r].version
<1>1. r \in DOMAIN pack /\ pack[r] \in Partition /\ pack[r].file = f
  BY DEF RecordsOf, NamedRecords, TypeOK
<1>2. RecordsOf(f) = {r}
  BY <1>1 DEF RecordsOf, NamedRecords, Distinct
<1>3. r \in Nat
  BY <1>1 DEF TypeOK
<1>4. (CHOOSE i \in RecordsOf(f) : \A j \in RecordsOf(f) : j <= i) = r
  BY <1>2, <1>3
<1>5. LoadFromManifest[f] = pack[r].version
  BY <1>2, <1>4 DEF LoadFromManifest
<1>6. QED
  BY <1>1, <1>5

\* What load_latest and the replay of the log return are graphs.
LEMMA LoadTypes ==
    ASSUME TypeOK, Distinct(pack)
    PROVE  /\ EmptyGraph \in Graph
           /\ Replay \in Graph
           /\ LoadFromManifest \in Graph
           /\ LoadLatest \in Graph
<1>1. EmptyGraph \in Graph
  BY DEF EmptyGraph, Graph
<1>2. Replay \in Graph
  <2>1. Saved \in Graph
    BY <1>1 DEF Saved, TypeOK
  <2>2. QED
    BY <2>1, OverlayType DEF Replay, TypeOK
<1>3. LoadFromManifest \in Graph
  <2>1. ASSUME NEW f \in Files
        PROVE  LoadFromManifest[f] \in Versions \cup {Absent}
    <3>1. CASE RecordsOf(f) # {}
      <4>1. PICK r \in RecordsOf(f) : TRUE
        BY <3>1
      <4>2. QED
        BY <4>1, OnlyRecord DEF Partition
    <3>2. CASE RecordsOf(f) = {}
      BY <3>2 DEF LoadFromManifest, TypeOK, Graph
    <3>3. QED
      BY <3>1, <3>2
  <2>2. LoadFromManifest = [f \in Files |-> LoadFromManifest[f]]
    BY DEF LoadFromManifest
  <2>3. QED
    BY <2>1, <2>2 DEF Graph
<1>4. QED
  BY <1>1, <1>2, <1>3 DEF LoadLatest

-----------------------------------------------------------------------------
(* Type correctness.                                                       *)

\* One more partition of a new file keeps the batch free of duplicates.
LEMMA AppendDistinct ==
    ASSUME batch \in Seq(Partition), Distinct(batch),
           NEW p \in Partition, p.file \notin BatchFiles
    PROVE  /\ Append(batch, p) \in Seq(Partition)
           /\ Distinct(Append(batch, p))
<1>1. \A i \in DOMAIN batch : batch[i].file # p.file
  BY DEF BatchFiles
<1>2. QED
  BY <1>1 DEF Distinct

\* The steps of a full write keep the types.
LEMMA FullWriteTypes == TypeInv /\ FullWrite => TypeInv'
<1> SUFFICES ASSUME TypeInv, FullWrite PROVE TypeInv'
  OBVIOUS
<1> USE DEF TypeInv, TypeOK, Steps, Goto, disk, LineHasPartition
<1>1. CASE BeginFull
  BY <1>1 DEF BeginFull, Distinct
<1>2. ASSUME NEW p \in Partition, StreamPartition(p) PROVE TypeInv'
  BY <1>2, AppendDistinct DEF StreamPartition
<1>3. CASE PublishPack
  BY <1>3 DEF PublishPack, Distinct
<1>4. CASE UnlinkSymbolShards
  BY <1>4 DEF UnlinkSymbolShards, SymbolIndex
<1>5. CASE RemoveSymbols
  BY <1>5 DEF RemoveSymbols, SymbolIndex, NoSymbols
<1>6. CASE PublishSymbols
  BY <1>6, BatchTypes DEF PublishSymbols, SymbolIndex
<1>7. CASE PublishManifest
  BY <1>7, BatchTypes DEF PublishManifest
<1>8. CASE UnlinkDepsShards
  BY <1>8 DEF UnlinkDepsShards, DependencyIndex
<1>9. CASE RemoveDeps
  BY <1>9 DEF RemoveDeps, DependencyIndex, NoDeps
<1>10. CASE PublishDeps
  BY <1>10, BatchTypes DEF PublishDeps, DependencyIndex
<1>11. CASE RemoveSnapshot
  BY <1>11 DEF RemoveSnapshot
<1>12. CASE FinishFull
  BY <1>12 DEF FinishFull, TruncateDelta, EmptyGraph, Graph
<1>13. QED
  BY <1>1, <1>2, <1>3, <1>4, <1>5, <1>6, <1>7, <1>8, <1>9, <1>10, <1>11, <1>12
     DEF FullWrite, Finish

\* The steps of an incremental write keep the types.
LEMMA IncrementalWriteTypes == TypeInv /\ IncrementalWrite => TypeInv'
<1> SUFFICES ASSUME TypeInv, IncrementalWrite PROVE TypeInv'
  OBVIOUS
<1> USE DEF TypeInv, TypeOK, Steps, Goto, disk, LineHasPartition
<1>1. CASE BeginIncremental
  BY <1>1 DEF BeginIncremental, Distinct
<1>2. ASSUME NEW p \in Partition, WritePartitionFile(p) PROVE TypeInv'
  <2>1. json' \in Graph
    BY <1>2 DEF WritePartitionFile, Graph, Partition
  <2>2. QED
    BY <1>2, <2>1, AppendDistinct DEF WritePartitionFile
<1>3. CASE StartDeltaLine
  BY <1>3 DEF StartDeltaLine
<1>4. CASE CompleteDeltaRecord
  <2>1. Current \in Partition
    BY <1>4 DEF CompleteDeltaRecord, Current
  <2>2. delta' \in Graph
    BY <1>4, <2>1 DEF CompleteDeltaRecord, Graph, Partition
  <2>3. QED
    BY <1>4, <2>2 DEF CompleteDeltaRecord
<1>5. CASE EndDeltaLine
  BY <1>5 DEF EndDeltaLine
<1>6. CASE FinishIncremental
  BY <1>6, BatchTypes DEF FinishIncremental, Return, Distinct, EmptyGraph, Graph
<1>7. QED
  BY <1>1, <1>2, <1>3, <1>4, <1>5, <1>6 DEF IncrementalWrite

\* The steps of a compaction, and stopping half way, keep the types.
LEMMA CompactionTypes == TypeInv /\ (Compaction \/ Abort) => TypeInv'
<1> SUFFICES ASSUME TypeInv, Compaction \/ Abort PROVE TypeInv'
  OBVIOUS
<1> USE DEF TypeInv, TypeOK, Steps, Goto, disk, LineHasPartition
<1>1. CASE BeginCompact
  BY <1>1, LoadTypes DEF BeginCompact, Distinct
<1>2. CASE SaveSnapshot
  BY <1>2 DEF SaveSnapshot
<1>3. CASE FinishCompact
  BY <1>3 DEF FinishCompact, TruncateDelta, Return, Distinct, EmptyGraph, Graph
<1>4. CASE Abort
  BY <1>4 DEF Abort, Return, Distinct, EmptyGraph, Graph
<1>5. QED
  BY <1>1, <1>2, <1>3, <1>4 DEF Compaction

\* The store starts well typed and stays so.
LEMMA InitTypes == Init => TypeInv
BY DEF Init, TypeInv, TypeOK, LineHasPartition, Steps, Distinct, EmptyGraph, Graph, NoSymbols, NoDeps,
       SymbolIndex, DependencyIndex

\* Nor does a stuttering step change a type.
LEMMA StutterTypes == TypeInv /\ UNCHANGED vars => TypeInv'
BY DEF TypeInv, TypeOK, Distinct, LineHasPartition, vars, disk

\* Every step of the store keeps the types.
LEMMA NextTypes == TypeInv /\ [Next]_vars => TypeInv'
BY FullWriteTypes, IncrementalWriteTypes, CompactionTypes, StutterTypes DEF Next, Undisturbed

\* The strengthened type invariant: no file has two records in the pack, and a
\* log line is only started for a partition that was handed to the writer.
THEOREM TypeInvariant == Spec => []TypeInv
BY InitTypes, NextTypes, PTL DEF Spec

\* Every reachable state is well typed.
THEOREM TypeCorrect == Spec => []TypeOK
<1>1. TypeInv => TypeOK
  BY DEF TypeInv
<1>2. QED
  BY <1>1, TypeInvariant, PTL

-----------------------------------------------------------------------------
(* A compaction keeps the graph.                                           *)

\* Before the snapshot is saved, memory holds what load_latest answers; once
\* it is saved, replaying the log that is still there changes nothing.
CompactInv ==
    /\ pc = "compact_save" => loaded = LoadLatest
    /\ pc = "compact_truncate" => Overlay(Saved, delta) = Saved

\* load_latest reads five files.
LEMMA SameReads ==
    ASSUME UNCHANGED <<pack, manifest, json, delta, snapshot>>
    PROVE  /\ LoadLatest' = LoadLatest /\ Replay' = Replay
           /\ LoadFromManifest' = LoadFromManifest
           /\ Saved' = Saved /\ Overlay(Saved, delta)' = Overlay(Saved, delta)
BY DEF LoadLatest, Replay, Overlay, Saved, LoadFromManifest, RecordsOf, NamedRecords

\* What load_latest returned already contains everything in the log.
LEMMA LoadedContainsLog ==
    ASSUME TypeInv
    PROVE  Overlay(LoadLatest, delta) = LoadLatest
<1>1. Saved \in Graph /\ delta \in Graph /\ LoadLatest \in Graph
  BY LoadTypes DEF TypeInv, TypeOK, Saved
<1>2. CASE Replay # EmptyGraph
  <2>1. LoadLatest = Overlay(Saved, delta)
    BY <1>2 DEF LoadLatest, Replay
  <2>2. QED
    BY <1>1, <2>1, OverlayIdempotent
<1>3. CASE Replay = EmptyGraph
  <2>1. \A f \in Files : delta[f] = Absent
    BY <1>3 DEF Replay, Overlay, EmptyGraph
  <2>2. delta = EmptyGraph
    BY <1>1, <2>1 DEF Graph, EmptyGraph
  <2>3. QED
    BY <1>1, <2>2, OverlayEmpty
<1>4. QED
  BY <1>2, <1>3

\* Saving the loaded graph as the snapshot.
LEMMA SaveKeepsGraph ==
    ASSUME TypeInv, CompactInv, SaveSnapshot
    PROVE  Overlay(Saved, delta)' = Saved' /\ LoadLatest' = LoadLatest
<1>1. /\ snapshot' = LoadLatest /\ LoadLatest \in Graph
      /\ UNCHANGED <<pack, manifest, json, delta>>
  BY LoadTypes DEF SaveSnapshot, CompactInv, TypeInv
<1>2. Saved' = LoadLatest
  BY <1>1, ConstantsAssumption DEF Saved
<1>3. Replay' = LoadLatest /\ Overlay(Saved, delta)' = Saved'
  BY <1>1, <1>2, LoadedContainsLog DEF Replay, Overlay
<1>4. LoadFromManifest' = LoadFromManifest
  BY <1>1 DEF LoadFromManifest, RecordsOf, NamedRecords
<1>5. LoadLatest' = IF LoadLatest = EmptyGraph THEN LoadFromManifest ELSE LoadLatest
  BY <1>3, <1>4 DEF LoadLatest
<1>6. QED
  BY <1>3, <1>5, LoadTypes DEF LoadLatest, TypeInv

\* Emptying the log after that.
LEMMA TruncateKeepsGraph ==
    ASSUME TypeInv, CompactInv, FinishCompact
    PROVE  LoadLatest' = LoadLatest
<1>1. /\ delta' = EmptyGraph /\ Overlay(Saved, delta) = Saved
      /\ UNCHANGED <<pack, manifest, json, snapshot>>
  BY DEF FinishCompact, TruncateDelta, CompactInv
<1>2. Saved \in Graph /\ Saved' = Saved
  BY <1>1, LoadTypes DEF TypeInv, TypeOK, Saved
<1>3. Overlay(Saved, EmptyGraph) = Saved
  BY <1>2, OverlayEmpty
<1>4. Overlay(Saved, delta)' = Overlay(Saved, EmptyGraph)
  BY <1>1, <1>2 DEF Overlay, EmptyGraph
<1>5. Replay' = Replay
  BY <1>1, <1>3, <1>4 DEF Replay
<1>6. LoadFromManifest' = LoadFromManifest
  BY <1>1 DEF LoadFromManifest, RecordsOf, NamedRecords
<1>7. QED
  BY <1>5, <1>6 DEF LoadLatest

\* What compact() remembers of the disk stays true while it runs.
LEMMA CompactInvStep == TypeInv /\ CompactInv /\ [Next]_vars => CompactInv'
<1> SUFFICES ASSUME TypeInv, CompactInv, [Next]_vars PROVE CompactInv'
  OBVIOUS
<1>1. CASE BeginCompact
  <2>1. UNCHANGED <<pack, manifest, json, delta, snapshot>> /\ loaded' = LoadLatest
    BY <1>1 DEF BeginCompact, disk
  <2>2. LoadLatest' = LoadLatest
    BY <2>1, SameReads
  <2>3. QED
    BY <1>1, <2>1, <2>2 DEF BeginCompact, CompactInv, Goto
<1>2. CASE SaveSnapshot
  BY <1>2, SaveKeepsGraph DEF SaveSnapshot, CompactInv, Goto
<1>3. CASE FinishCompact
  BY <1>3 DEF FinishCompact, CompactInv, Return, Goto
<1>4. CASE UNCHANGED vars
  BY <1>4, SameReads DEF CompactInv, vars, disk
<1>5. CASE FullWrite \/ IncrementalWrite \/ Abort
  <2>1. pc' \notin {"compact_save", "compact_truncate"}
    BY <1>5 DEF FullWrite, Finish, BeginFull, StreamPartition, PublishPack,
       UnlinkSymbolShards, RemoveSymbols, PublishSymbols, PublishManifest,
       UnlinkDepsShards, RemoveDeps, PublishDeps, RemoveSnapshot, FinishFull,
       IncrementalWrite, BeginIncremental, WritePartitionFile, StartDeltaLine,
       CompleteDeltaRecord, EndDeltaLine, FinishIncremental, Abort, Return, Goto
  <2>2. QED
    BY <2>1 DEF CompactInv
<1>6. QED
  BY <1>1, <1>2, <1>3, <1>4, <1>5 DEF Next, Undisturbed, Compaction

\* The steps enabled inside a compaction are its own and Abort.
LEMMA StepInCompaction ==
    ASSUME [Next]_vars, pc \in {"compact_save", "compact_truncate"}
    PROVE  SaveSnapshot \/ FinishCompact \/ UNCHANGED disk
BY DEF Next, Undisturbed, FullWrite, Finish, BeginFull, StreamPartition, PublishPack,
       UnlinkSymbolShards, RemoveSymbols, PublishSymbols, PublishManifest,
       UnlinkDepsShards, RemoveDeps, PublishDeps, RemoveSnapshot, FinishFull,
       IncrementalWrite, BeginIncremental, WritePartitionFile, StartDeltaLine,
       CompleteDeltaRecord, EndDeltaLine, FinishIncremental, Compaction, BeginCompact,
       Abort, Ready, vars

\* compact() keeps what load_latest answers at each of its steps, and so if it
\* dies after any of them.
THEOREM CompactionCorrect == Spec => CompactionKeepsGraph
<1>1. Init => CompactInv
  BY DEF Init, CompactInv
<1>2. ASSUME TypeInv, CompactInv, [Next]_vars, pc \in {"compact_save", "compact_truncate"}
      PROVE  LoadLatest' = LoadLatest
  <2>1. CASE SaveSnapshot
    BY <1>2, <2>1, SaveKeepsGraph
  <2>2. CASE FinishCompact
    BY <1>2, <2>2, TruncateKeepsGraph
  <2>3. CASE UNCHANGED disk
    BY <2>3, SameReads DEF disk
  <2>4. QED
    BY <1>2, <2>1, <2>2, <2>3, StepInCompaction
<1>3. TypeInv /\ CompactInv /\ [Next]_vars
        => [(pc \in {"compact_save", "compact_truncate"}) => LoadLatest' = LoadLatest]_vars
  BY <1>2
<1>4. Spec => []CompactInv
  BY <1>1, TypeInvariant, CompactInvStep, PTL DEF Spec
<1>5. QED
  BY <1>3, <1>4, TypeInvariant, PTL DEF Spec, CompactionKeepsGraph

-----------------------------------------------------------------------------
(* A full index that returns Ok leaves a coherent store.                   *)

\* What the steps of finish() have made true so far, whatever was on disk
\* before: each published file stays the one made from this batch.
FullInv ==
    /\ pc \in {"full_symbols_clear", "full_symbols_rename", "full_manifest",
               "full_deps_clear", "full_deps_rename", "full_snapshot", "full_delta",
               "full_done"}
        => pack = batch
    /\ pc \in {"full_manifest", "full_deps_clear", "full_deps_rename", "full_snapshot",
               "full_delta", "full_done"}
        => symbols = [exists |-> TRUE, facts |-> BatchFacts]
    /\ pc \in {"full_deps_clear", "full_deps_rename", "full_snapshot", "full_delta", "full_done"}
        => manifest = FullManifest
    /\ pc \in {"full_snapshot", "full_delta", "full_done"}
        => deps = [exists |-> TRUE, paths |-> TRUE, edges |-> BatchImports]
    /\ pc \in {"full_delta", "full_done"} => snapshot = Absent
    /\ pc = "full_done" => delta = EmptyGraph /\ tail = "clean"

\* What is made from the batch stays while the batch does.
LEMMA SameBatch ==
    ASSUME batch' = batch
    PROVE  /\ BatchFacts' = BatchFacts /\ BatchImports' = BatchImports
           /\ FullManifest' = FullManifest /\ BatchGraph' = BatchGraph
BY DEF BatchFacts, BatchImports, FullManifest, BatchGraph, BatchFiles, Position

\* Every step of a full write keeps what the steps before it have published.
LEMMA FullInvStep == FullInv /\ [Next]_vars => FullInv'
<1> SUFFICES ASSUME FullInv, [Next]_vars PROVE FullInv'
  OBVIOUS
<1> USE DEF FullInv, Goto, disk
<1>1. CASE BeginFull
  BY <1>1 DEF BeginFull
<1>2. ASSUME NEW p \in Partition, StreamPartition(p) PROVE FullInv'
  BY <1>2 DEF StreamPartition
<1>3. CASE PublishPack
  BY <1>3 DEF PublishPack
<1>4. CASE UnlinkSymbolShards
  BY <1>4 DEF UnlinkSymbolShards
<1>5. CASE RemoveSymbols
  BY <1>5 DEF RemoveSymbols
<1>6. CASE PublishSymbols
  BY <1>6, SameBatch DEF PublishSymbols
<1>7. CASE PublishManifest
  BY <1>7, SameBatch DEF PublishManifest
<1>8. CASE UnlinkDepsShards
  <2>1. pc' = "full_deps_clear" /\ pc = "full_deps_clear" /\ batch' = batch
        /\ UNCHANGED <<pack, symbols, manifest>>
    BY <1>8 DEF UnlinkDepsShards
  <2>2. QED
    BY <2>1, SameBatch
<1>9. CASE RemoveDeps
  BY <1>9, SameBatch DEF RemoveDeps
<1>10. CASE PublishDeps
  BY <1>10, SameBatch DEF PublishDeps
<1>11. CASE RemoveSnapshot
  BY <1>11, SameBatch DEF RemoveSnapshot
<1>12. CASE FinishFull
  BY <1>12, SameBatch DEF FinishFull, TruncateDelta
<1>13. CASE UNCHANGED vars
  BY <1>13, SameBatch DEF vars, EmptyGraph
<1>14. CASE IncrementalWrite \/ Compaction \/ Abort
  <2>1. pc' \in {"idle", "incr_open", "incr_delta", "incr_line", "incr_newline",
                 "compact_save", "compact_truncate"}
    BY <1>14 DEF IncrementalWrite, BeginIncremental, WritePartitionFile, StartDeltaLine,
       CompleteDeltaRecord, EndDeltaLine, FinishIncremental, Compaction, BeginCompact,
       SaveSnapshot, FinishCompact, Abort, Return
  <2>2. QED
    BY <2>1
<1>15. QED
  BY <1>1, <1>2, <1>3, <1>4, <1>5, <1>6, <1>7, <1>8, <1>9, <1>10, <1>11, <1>12, <1>13, <1>14
     DEF Next, Undisturbed, FullWrite, Finish

\* With the pack and the manifest made from the batch, the manifest leads to
\* exactly the batch.
LEMMA PublishedManifestReads ==
    ASSUME TypeInv, pack = batch, manifest = FullManifest
    PROVE  LoadFromManifest = BatchGraph /\ PartitionFileProblems = {}
<1>1. ASSUME NEW f \in Files
      PROVE  LoadFromManifest[f] = BatchGraph[f] /\ ~(manifest[f] # Absent /\ EntryMismatch(f))
  <2>1. CASE f \in BatchFiles
    <3>1. /\ Position(f) \in DOMAIN batch /\ batch[Position(f)].file = f
          /\ Position(f) # 0 /\ batch[Position(f)] \in Partition
      BY <2>1, PositionOfBatchFile DEF TypeInv, TypeOK
    <3>2. manifest[f] = [version |-> batch[Position(f)].version, record |-> Position(f)]
      BY <2>1 DEF FullManifest
    <3>3. manifest[f] \in Entry
      BY <3>1, <3>2, PositionOfBatchFile DEF TypeInv, TypeOK, Entry, Partition
    <3>4. manifest[f] # Absent
      BY <3>3, ConstantsAssumption
    <3>5. Position(f) \in RecordsOf(f)
      BY <3>1, <3>2, <3>4 DEF RecordsOf, NamedRecords
    <3>6. LoadFromManifest[f] = pack[Position(f)].version
      BY <3>5, OnlyRecord DEF TypeInv
    <3>7. BatchGraph[f] = batch[Position(f)].version
      BY <2>1 DEF BatchGraph
    <3>8. pack[Position(f)] = [file |-> f, version |-> batch[Position(f)].version]
      BY <3>1 DEF Partition
    <3>9. manifest[f].record = Position(f) /\ manifest[f].version = batch[Position(f)].version
      BY <3>2
    <3>10. ~EntryMismatch(f)
      BY <3>1, <3>8, <3>9 DEF EntryMismatch
    <3>11. QED
      BY <3>6, <3>7, <3>10
  <2>2. CASE f \notin BatchFiles
    <3>1. manifest[f] = Absent
      BY <2>2 DEF FullManifest
    <3>2. RecordsOf(f) = {}
      BY <2>2 DEF RecordsOf, NamedRecords, BatchFiles
    <3>3. QED
      BY <2>2, <3>1, <3>2 DEF LoadFromManifest, BatchGraph
  <2>3. QED
    BY <2>1, <2>2
<1>2. LoadFromManifest = [f \in Files |-> LoadFromManifest[f]]
  BY DEF LoadFromManifest
<1>3. BatchGraph = [f \in Files |-> BatchGraph[f]]
  BY DEF BatchGraph
<1>4. LoadFromManifest = BatchGraph
  BY <1>1, <1>2, <1>3
<1>5. QED
  BY <1>1, <1>4 DEF PartitionFileProblems

\* The two indexes made from the batch describe the graph of the batch.
LEMMA PublishedIndexes ==
    ASSUME TypeInv
    PROVE  /\ BatchFacts = SymbolFacts(BatchGraph)
           /\ \A f \in Files :
                GraphImporters(BatchGraph, f) = {g \in Files \ {f} : <<f, g>> \in BatchImports}
<1>1. ASSUME NEW i \in DOMAIN batch
      PROVE  /\ batch[i].file \in BatchFiles /\ batch[i].file \in Files
             /\ batch[i].version \in Versions
             /\ BatchGraph[batch[i].file] = batch[i].version
  <2>1. batch[i] \in Partition
    BY DEF TypeInv, TypeOK
  <2>2. batch[i].file \in BatchFiles /\ batch[i].file \in Files /\ batch[i].version \in Versions
    BY <2>1 DEF BatchFiles, Partition
  <2>3. Position(batch[i].file) = i
    BY <2>2, PositionOfBatchFile DEF TypeInv, TypeOK, Distinct
  <2>4. QED
    BY <2>2, <2>3 DEF BatchGraph
<1>2. ASSUME NEW f \in Files, BatchGraph[f] # Absent
      PROVE  \E i \in DOMAIN batch : batch[i].file = f /\ BatchGraph[f] = batch[i].version
  <2>1. f \in BatchFiles
    BY <1>2 DEF BatchGraph
  <2>2. QED
    BY <2>1, PositionOfBatchFile DEF BatchGraph, TypeInv, TypeOK
<1>3. \A v \in Versions : v # Absent
  BY ConstantsAssumption
<1>4. BatchFacts = SymbolFacts(BatchGraph)
  BY <1>1, <1>2, <1>3 DEF BatchFacts, SymbolFacts
<1>5. ASSUME NEW f \in Files
      PROVE  GraphImporters(BatchGraph, f) = {g \in Files \ {f} : <<f, g>> \in BatchImports}
  BY <1>1, <1>2, <1>3 DEF GraphImporters, BatchImports
<1>6. QED
  BY <1>4, <1>5

\* After a full index that returned Ok every reader agrees with what was
\* indexed, whatever crashes came before it.
THEOREM FullIndexCorrect == Spec => []FullIndexIsCoherent
<1>1. Init => FullInv
  BY DEF Init, FullInv
<1>2. TypeInv /\ FullInv => FullIndexIsCoherent
  <2> SUFFICES ASSUME TypeInv, FullInv, pc = "full_done"
               PROVE  /\ ~DeltaUnreadable
                      /\ LoadLatest = BatchGraph
                      /\ ~NotIndexed /\ symbols.facts = SymbolFacts(BatchGraph)
                      /\ ~PlanFails
                      /\ \A f \in Files : ReverseDependencies(f) = GraphImporters(BatchGraph, f)
                      /\ PartitionFileProblems = {}
    BY DEF FullIndexIsCoherent
  <2>1. /\ pack = batch /\ manifest = FullManifest /\ snapshot = Absent
        /\ symbols = [exists |-> TRUE, facts |-> BatchFacts]
        /\ deps = [exists |-> TRUE, paths |-> TRUE, edges |-> BatchImports]
        /\ delta = EmptyGraph /\ tail = "clean"
    BY DEF FullInv
  <2>2. LoadFromManifest = BatchGraph /\ PartitionFileProblems = {}
    BY <2>1, PublishedManifestReads
  <2>3. Replay = EmptyGraph
    BY <2>1 DEF Replay, Saved, Overlay, EmptyGraph
  <2>4. LoadLatest = BatchGraph
    BY <2>2, <2>3 DEF LoadLatest
  <2>5. ~DeltaUnreadable /\ ~NotIndexed /\ ~PlanFails
    BY <2>1 DEF DeltaUnreadable, NotIndexed, PlanFails
  <2>6. symbols.facts = SymbolFacts(BatchGraph)
    BY <2>1, PublishedIndexes
  <2>7. \A f \in Files : ReverseDependencies(f) = GraphImporters(BatchGraph, f)
    BY <2>1, PublishedIndexes DEF ReverseDependencies
  <2>8. QED
    BY <2>2, <2>4, <2>5, <2>6, <2>7
<1>3. Spec => []FullInv
  BY <1>1, FullInvStep, PTL DEF Spec
<1>4. QED
  BY <1>2, <1>3, TypeInvariant, PTL

-----------------------------------------------------------------------------
(* Replacements and compactions implement the promised map.                *)

\* In a store without full writes the pack stays empty, and as long as the log
\* is not spoilt every file the manifest names, and every file written by the
\* running operation but for the one whose line is not complete, is in the
\* log or the snapshot.
LogInv ==
    /\ pack = <<>>
    /\ tail # "corrupt" => \A f \in Files : manifest[f] # Absent => Replay[f] # Absent
    /\ tail # "corrupt" =>
            \A i \in DOMAIN batch :
                \/ pc \in {"incr_delta", "incr_line"} /\ i = Len(batch)
                \/ Replay[batch[i].file] # Absent
    /\ pc = "incr_line" => tail \in {"partial", "corrupt"}
    /\ pc \in {"compact_save", "compact_truncate"} => tail \in {"clean", "unterminated"}
    /\ pc \in {"idle", "full_done", "compact_save", "compact_truncate"} => batch = <<>>

LogNext == IncrementalWrite \/ Compaction \/ Abort

\* Under LogInv the manifest is never the source of a readable store.
LEMMA LogInvGraph == TypeInv /\ LogInv => LogIsTheGraph
<1> SUFFICES ASSUME TypeInv, LogInv, ~DeltaUnreadable, Replay = EmptyGraph
             PROVE  LoadFromManifest = EmptyGraph
  BY DEF LogIsTheGraph, LoadLatest
<1>1. \A f \in Files : manifest[f] = Absent
  BY DEF LogInv, DeltaUnreadable, EmptyGraph
<1>2. \A f \in Files : RecordsOf(f) = {}
  BY DEF LogInv, RecordsOf, NamedRecords
<1>3. QED
  BY <1>1, <1>2 DEF LoadFromManifest, EmptyGraph

\* A replayed file never disappears when its record is appended again.
LEMMA AppendKeeps ==
    ASSUME TypeInv, CompleteDeltaRecord, tail = "partial"
    PROVE  /\ Current.file \in Files /\ Current.version \in Versions
           /\ Replay' = [Replay EXCEPT ![Current.file] = Current.version]
           /\ \A f \in Files : Replay[f] # Absent => Replay'[f] # Absent
           /\ Replay'[Current.file] # Absent
<1>1. Current \in Partition
  BY DEF CompleteDeltaRecord, Current, TypeInv, TypeOK, LineHasPartition
<1>2. Current.file \in Files /\ Current.version \in Versions /\ Current.version # Absent
  BY <1>1, ConstantsAssumption DEF Partition
<1>3. /\ delta' = [delta EXCEPT ![Current.file] = Current.version]
      /\ delta \in Graph /\ snapshot' = snapshot
  BY DEF CompleteDeltaRecord, TypeInv, TypeOK
<1>4. Saved' = Saved
  BY <1>3 DEF Saved, EmptyGraph
<1>5. Replay' = [Replay EXCEPT ![Current.file] = Current.version]
  BY <1>2, <1>3, <1>4 DEF Replay, Overlay, Graph
<1>6. Replay \in Graph
  BY LoadTypes DEF TypeInv
<1>7. QED
  BY <1>2, <1>5, <1>6 DEF Graph

\* Saving the snapshot and emptying the log each replay to the same graph.
LEMMA CompactReplay ==
    ASSUME TypeInv, LogInv, CompactInv, SaveSnapshot \/ FinishCompact
    PROVE  Replay' = Replay
<1>1. CASE SaveSnapshot
  <2>1. LoadLatest = Replay /\ LoadLatest \in Graph
    BY <1>1, LogInvGraph, LoadTypes DEF SaveSnapshot, LogInv, LogIsTheGraph, DeltaUnreadable, TypeInv
  <2>2. snapshot' = LoadLatest /\ delta' = delta
    BY <1>1 DEF SaveSnapshot, CompactInv
  <2>3. Saved' = LoadLatest
    BY <2>1, <2>2, ConstantsAssumption DEF Saved
  <2>4. QED
    BY <2>1, <2>2, <2>3, LoadedContainsLog DEF Replay, Overlay
<1>2. CASE FinishCompact
  <2>1. /\ delta' = EmptyGraph /\ Overlay(Saved, delta) = Saved /\ snapshot' = snapshot
    BY <1>2 DEF FinishCompact, TruncateDelta, CompactInv
  <2>2. Saved \in Graph /\ Saved' = Saved
    BY <2>1, LoadTypes DEF TypeInv, TypeOK, Saved, EmptyGraph
  <2>3. Overlay(Saved, EmptyGraph) = Saved
    BY <2>2, OverlayEmpty
  <2>4. Replay' = Overlay(Saved, EmptyGraph)
    BY <2>1, <2>2 DEF Replay, Overlay, EmptyGraph
  <2>5. QED
    BY <2>1, <2>3, <2>4 DEF Replay
<1>3. QED
  BY <1>1, <1>2

\* Replacements and compactions keep every logged file in snapshot or log.
LEMMA LogInvStep == TypeInv /\ CompactInv /\ LogInv /\ [LogNext]_vars => LogInv'
<1> SUFFICES ASSUME TypeInv, CompactInv, LogInv, [LogNext]_vars PROVE LogInv'
  OBVIOUS
<1>0. Replay \in Graph /\ (\A v \in Versions : v # Absent)
  BY LoadTypes, ConstantsAssumption DEF TypeInv
<1>1. ASSUME UNCHANGED <<pack, manifest, json, delta, snapshot>>
      PROVE  Replay' = Replay
  BY <1>1, SameReads
<1>2. CASE BeginIncremental
  BY <1>1, <1>2 DEF BeginIncremental, LogInv, Goto, disk
<1>3. ASSUME NEW p \in Partition, WritePartitionFile(p) PROVE LogInv'
  <2>1. /\ UNCHANGED <<pack, manifest, delta, snapshot, tail>>
        /\ batch' = Append(batch, p) /\ pc' = "incr_delta" /\ pc = "incr_open"
    BY <1>3 DEF WritePartitionFile, Goto
  <2>2. Replay' = Replay
    BY <2>1 DEF Replay, Overlay, Saved, EmptyGraph
  <2>3. \A i \in DOMAIN batch' : i = Len(batch') \/ (i \in DOMAIN batch /\ batch'[i] = batch[i])
    BY <2>1 DEF TypeInv, TypeOK
  <2>4. QED
    BY <2>1, <2>2, <2>3 DEF LogInv
<1>4. CASE StartDeltaLine
  BY <1>1, <1>4 DEF StartDeltaLine, LogInv, Goto
<1>5. CASE CompleteDeltaRecord
  <2>1. UNCHANGED <<pack, manifest, batch, snapshot>> /\ pc' = "incr_newline" /\ pc = "incr_line"
    BY <1>5 DEF CompleteDeltaRecord, Goto
  <2>2. CASE tail = "partial"
    <3>1. \A f \in Files : Replay[f] # Absent => Replay'[f] # Absent
      BY <1>5, <2>2, AppendKeeps
    <3>2. Replay'[batch[Len(batch)].file] # Absent
      BY <1>5, <2>2, AppendKeeps DEF Current
    <3>3. \A i \in DOMAIN batch : batch[i].file \in Files
      <4>1. \A i \in DOMAIN batch : batch[i] \in Partition
        BY DEF TypeInv, TypeOK
      <4>2. QED
        BY <4>1 DEF Partition
    <3>4. \A i \in DOMAIN batch : Replay'[batch[i].file] # Absent
      BY <2>1, <2>2, <3>1, <3>2, <3>3 DEF LogInv
    <3>5. \A f \in Files : manifest[f] # Absent => Replay'[f] # Absent
      BY <2>2, <3>1 DEF LogInv
    <3>6. QED
      BY <2>1, <3>4, <3>5 DEF LogInv
  <2>3. CASE tail = "corrupt"
    BY <1>5, <2>1, <2>3 DEF CompleteDeltaRecord, LogInv
  <2>4. QED
    BY <2>1, <2>2, <2>3 DEF LogInv
<1>6. CASE EndDeltaLine
  BY <1>1, <1>6 DEF EndDeltaLine, LogInv, Goto
<1>7. CASE FinishIncremental
  <2>1. /\ UNCHANGED <<pack, delta, tail, snapshot, json>> /\ pc = "incr_open" /\ pc' = "idle"
        /\ batch' = <<>> /\ manifest' = PatchedManifest
    BY <1>7 DEF FinishIncremental, Return, Goto
  <2>2. Replay' = Replay
    BY <2>1 DEF Replay, Overlay, Saved, EmptyGraph
  <2>3. ASSUME tail # "corrupt", NEW f \in Files, manifest'[f] # Absent
        PROVE  Replay[f] # Absent
    <3>1. CASE f \in BatchFiles
      BY <2>1, <2>3, <3>1, PositionOfBatchFile DEF LogInv, TypeInv, TypeOK
    <3>2. CASE f \notin BatchFiles
      BY <2>1, <2>3, <3>2 DEF PatchedManifest, LogInv
    <3>3. QED
      BY <3>1, <3>2
  <2>4. QED
    BY <2>1, <2>2, <2>3 DEF LogInv
<1>8. CASE BeginCompact
  BY <1>1, <1>8 DEF BeginCompact, LogInv, Goto, disk, DeltaUnreadable, TypeInv, TypeOK
<1>9. CASE SaveSnapshot \/ FinishCompact
  <2>1. Replay' = Replay
    BY <1>9, CompactReplay
  <2>2. QED
    BY <1>9, <2>1 DEF SaveSnapshot, FinishCompact, TruncateDelta, Return, Goto, LogInv
<1>10. CASE Abort
  BY <1>1, <1>10 DEF Abort, Return, LogInv, Goto, disk
<1>11. CASE UNCHANGED vars
  BY <1>1, <1>11 DEF vars, disk, LogInv
<1>12. QED
  BY <1>2, <1>3, <1>4, <1>5, <1>6, <1>7, <1>8, <1>9, <1>10, <1>11
     DEF LogNext, IncrementalWrite, Compaction

\* The invariants of a store that is built up by replacements alone.
LEMMA LogInvariants == LogSpec => [](TypeInv /\ CompactInv /\ LogInv)
<1>1. Init => TypeInv /\ CompactInv /\ LogInv
  BY InitTypes DEF Init, CompactInv, LogInv, EmptyGraph
<1>2. [LogNext]_vars => [Next]_vars
  BY DEF LogNext, Next, Undisturbed
<1>3. TypeInv /\ CompactInv /\ LogInv /\ [LogNext]_vars => (TypeInv /\ CompactInv /\ LogInv)'
  BY <1>2, NextTypes, CompactInvStep, LogInvStep
<1>4. QED
  BY <1>1, <1>3, PTL DEF LogSpec, LogNext

\* In such a store a readable log and the snapshot hold the whole graph.
THEOREM LogIsTheGraphCorrect == LogSpec => []LogIsTheGraph
BY LogInvariants, LogInvGraph, PTL

\* Snapshot and log implement the map the store promises, however often an
\* operation stops half way: each step replaces one file or changes nothing.
THEOREM ReplayImplementsMap == LogSpec => ReplayIsPartitionMap
<1>1. Init => Replaced!Init
  BY DEF Init, Replaced!Init, Replaced!Empty, Replay, Saved, Overlay, EmptyGraph
<1>2. ASSUME TypeInv, CompactInv, LogInv, [LogNext]_vars
      PROVE  [Replaced!Next]_Replay
  <2>1. CASE CompleteDeltaRecord /\ tail = "partial"
    BY <2>1, AppendKeeps, <1>2 DEF Replaced!Next, Replaced!Replace
  <2>2. CASE SaveSnapshot \/ FinishCompact
    BY <1>2, <2>2, CompactReplay
  <2>3. CASE UNCHANGED <<delta, snapshot>>
    BY <2>3 DEF Replay, Overlay, Saved, EmptyGraph
  <2>4. QED
    BY <1>2, <2>1, <2>2, <2>3 DEF LogNext, IncrementalWrite, Compaction, BeginIncremental,
       WritePartitionFile, StartDeltaLine, CompleteDeltaRecord, EndDeltaLine,
       FinishIncremental, BeginCompact, Abort, vars, disk
<1>3. QED
  BY <1>1, <1>2, LogInvariants, PTL DEF LogSpec, LogNext, ReplayIsPartitionMap, Replaced!Spec
-----------------------------------------------------------------------------
(* What partition_file_check notices.                                      *)

\* Where it has nothing to report, the reader of the manifest meets under every
\* file the version its entry announces: an entry's record is of its own file, so
\* no record is read through the entry of another one.
LEMMA NoProblemMeansNoMisread ==
    ASSUME TypeOK, PartitionFileProblems = {}
    PROVE  LoadFromManifest = ManifestGraph
<1>1. ASSUME NEW f \in Files, NEW r \in RecordsOf(f)
      PROVE  manifest[f] # Absent /\ manifest[f].record = r /\ r # 0
  <2>1. PICK g \in Files : manifest[g] # Absent /\ manifest[g].record = r
    BY DEF RecordsOf, NamedRecords
  <2>2. r \in DOMAIN pack /\ r # 0 /\ pack[r].file = f
    BY DEF RecordsOf, NamedRecords, TypeOK
  <2>3. pack[r] = [file |-> g, version |-> manifest[g].version]
    BY <2>1, <2>2 DEF PartitionFileProblems, EntryMismatch
  <2>4. QED
    BY <2>1, <2>2, <2>3
<1>2. ASSUME NEW f \in Files
      PROVE  LoadFromManifest[f] = ManifestGraph[f]
  <2>1. CASE manifest[f] = Absent
    <3>1. RecordsOf(f) = {}
      BY <1>1, <2>1
    <3>2. QED
      BY <2>1, <3>1 DEF LoadFromManifest, ManifestGraph
  <2>2. CASE manifest[f] # Absent /\ manifest[f].record = 0
    <3>1. RecordsOf(f) = {}
      BY <1>1, <2>2
    <3>2. json[f] = manifest[f].version
      BY <2>2 DEF PartitionFileProblems, EntryMismatch
    <3>3. QED
      BY <2>2, <3>1, <3>2 DEF LoadFromManifest, ManifestGraph
  <2>3. CASE manifest[f] # Absent /\ manifest[f].record # 0
    <3> DEFINE r == manifest[f].record
    <3>1. r \in DOMAIN pack /\ pack[r] = [file |-> f, version |-> manifest[f].version] /\ r \in Nat
      BY <2>3 DEF PartitionFileProblems, EntryMismatch, TypeOK
    <3>2. RecordsOf(f) = {r}
      BY <1>1, <2>3, <3>1 DEF RecordsOf, NamedRecords
    <3> HIDE DEF r
    <3>3. (CHOOSE i \in RecordsOf(f) : \A j \in RecordsOf(f) : j <= i) = r
      BY <3>1, <3>2
    <3>4. LoadFromManifest[f] = pack[r].version
      BY <3>2, <3>3 DEF LoadFromManifest
    <3>5. QED
      BY <2>3, <3>1, <3>4 DEF ManifestGraph
  <2>4. QED
    BY <2>1, <2>2, <2>3
<1>3. LoadFromManifest = [f \in Files |-> LoadFromManifest[f]]
  BY DEF LoadFromManifest
<1>4. ManifestGraph = [f \in Files |-> ManifestGraph[f]]
  BY DEF ManifestGraph
<1>5. QED
  BY <1>2, <1>3, <1>4

\* In every state, in the middle of an operation and after any crash: a graph read
\* under the wrong manifest never goes unnoticed by partition_file_check.
THEOREM MisreadIsReportedCorrect == Spec => []MisreadIsReported
<1>1. TypeOK => MisreadIsReported
  BY NoProblemMeansNoMisread DEF MisreadIsReported
<1>2. QED
  BY <1>1, TypeCorrect, PTL

-----------------------------------------------------------------------------
(* A replacement is local.                                                 *)

\* The steps enabled inside an incremental write are its own and Abort; one of
\* them changes the log, one a JSON file and one the manifest.
LEMMA StepInReplacement ==
    ASSUME [Next]_vars, pc \in {"incr_open", "incr_delta", "incr_line", "incr_newline"}
    PROVE  \/ CompleteDeltaRecord /\ tail = "partial"
           \/ UNCHANGED <<delta, snapshot>>
BY DEF Next, Undisturbed, FullWrite, Finish, BeginFull, StreamPartition, PublishPack,
       UnlinkSymbolShards, RemoveSymbols, PublishSymbols, PublishManifest,
       UnlinkDepsShards, RemoveDeps, PublishDeps, RemoveSnapshot, FinishFull,
       IncrementalWrite, BeginIncremental, WritePartitionFile, StartDeltaLine,
       CompleteDeltaRecord, EndDeltaLine, FinishIncremental, Compaction, BeginCompact,
       SaveSnapshot, FinishCompact, Abort, Ready, vars, disk

\* Once a store has a snapshot or a log, an incremental write is seen by readers
\* one file at a time, each at the version just written, and no other file of the
\* graph moves; so also on a log that an earlier crash has torn.
THEOREM ReplacementIsLocalCorrect == Spec => ReplacementIsLocal
<1>1. ASSUME TypeInv, [Next]_vars, Replay # EmptyGraph,
             pc \in {"incr_open", "incr_delta", "incr_line", "incr_newline"}
      PROVE  \A f \in Files : LoadLatest'[f] # LoadLatest[f] =>
                f \in BatchFiles' /\ LoadLatest'[f] = BatchGraph'[f]
  <2>1. CASE CompleteDeltaRecord /\ tail = "partial"
    <3>1. /\ Current.file \in Files /\ Current.version \in Versions
          /\ Replay' = [Replay EXCEPT ![Current.file] = Current.version]
          /\ Replay'[Current.file] # Absent /\ Replay \in Graph
      BY <1>1, <2>1, AppendKeeps, LoadTypes DEF TypeInv
    <3>2. Replay' # EmptyGraph
      BY <3>1 DEF EmptyGraph
    <3>3. LoadLatest = Replay /\ LoadLatest' = Replay'
      BY <1>1, <3>2 DEF LoadLatest, EmptyGraph
    <3>4. batch' = batch /\ Len(batch) \in DOMAIN batch
      BY <1>1, <2>1 DEF CompleteDeltaRecord, TypeInv, TypeOK, LineHasPartition
    <3>5. Current.file \in BatchFiles /\ Current = batch[Len(batch)]
      BY <3>4 DEF BatchFiles, Current
    <3>6. Position(Current.file) = Len(batch)
      BY <1>1, <3>4, <3>5, PositionOfBatchFile DEF TypeInv, TypeOK, Distinct
    <3>7. BatchGraph[Current.file] = Current.version
      BY <3>1, <3>5, <3>6 DEF BatchGraph
    <3>8. BatchGraph' = BatchGraph /\ BatchFiles' = BatchFiles
      BY <3>4, SameBatch DEF BatchFiles
    <3>9. \A f \in Files : f # Current.file => Replay'[f] = Replay[f]
      BY <3>1 DEF Graph
    <3>10. Replay'[Current.file] = Current.version
      BY <3>1 DEF Graph
    <3>11. QED
      BY <3>3, <3>5, <3>7, <3>8, <3>9, <3>10
  <2>2. CASE UNCHANGED <<delta, snapshot>>
    <3>1. Replay' = Replay
      BY <2>2 DEF Replay, Overlay, Saved, EmptyGraph
    <3>2. LoadLatest' = LoadLatest
      BY <1>1, <3>1 DEF LoadLatest, EmptyGraph
    <3>3. QED
      BY <3>2
  <2>3. QED
    BY <1>1, <2>1, <2>2, StepInReplacement
<1>2. TypeInv /\ [Next]_vars
        => [(pc \in {"incr_open", "incr_delta", "incr_line", "incr_newline"} /\ Replay # EmptyGraph)
              => \A f \in Files : LoadLatest'[f] # LoadLatest[f] =>
                    f \in BatchFiles' /\ LoadLatest'[f] = BatchGraph'[f]]_vars
  BY <1>1
<1>3. QED
  BY <1>2, TypeInvariant, PTL DEF Spec, ReplacementIsLocal
-----------------------------------------------------------------------------
(* A bounded number of failures.  BoundedSpec refines Spec, so every       *)
(* theorem above holds of it too.                                          *)

bvars == <<vars, failures, before>>

\* Every behaviour with a bounded number of failures is one of the store.
LEMMA BoundedRefinesSpec == BoundedSpec => Spec
<1>1. [BoundedNext]_bvars => [Next]_vars
  BY DEF BoundedNext, BoundedAbort, Next, bvars
<1>2. QED
  BY <1>1, PTL DEF BoundedSpec, Spec, bvars

\* Nothing to report of f.
Matches(f) == ~(manifest[f] # Absent /\ EntryMismatch(f))

\* The running replacement has written the JSON files of its batch.
JsonIsWritten ==
    pc \in Replacing => \A i \in DOMAIN batch : json[batch[i].file] = batch[i].version

\* Between operations and in a compaction, and but for the files a replacement is
\* writing, manifest and partitions agree.
FilesInv ==
    /\ pc \in {"idle", "compact_save", "compact_truncate"} => \A f \in Files : Matches(f)
    /\ pc \in Replacing => \A f \in Files \ BatchFiles : Matches(f)

\* The log ends in a whole line except while one is written, and is not empty once
\* a replacement has written one; so a store without a snapshot is idle only before
\* its first index or with a log that turns the symbol index off.
SymbolsInv ==
    /\ pc = "incr_line" => tail = "partial"
    /\ pc = "incr_newline" => tail = "unterminated"
    /\ pc \notin {"incr_line", "incr_newline"} => tail = "clean"
    /\ pc = "incr_newline" \/ (pc = "incr_open" /\ batch # <<>>) => delta # EmptyGraph
    /\ pc = "compact_truncate" => snapshot # Absent
    /\ pc = "idle" => NotIndexed \/ snapshot # Absent
-----------------------------------------------------------------------------
\* JSON files are written before anything else of a partition, and by rename.
LEMMA JsonStep == TypeInv /\ JsonIsWritten /\ [Next]_vars => JsonIsWritten'
<1> SUFFICES ASSUME TypeInv, JsonIsWritten, [Next]_vars PROVE JsonIsWritten'
  OBVIOUS
<1>1. CASE BeginIncremental
  BY <1>1 DEF BeginIncremental, JsonIsWritten
<1>2. ASSUME NEW p \in Partition, WritePartitionFile(p) PROVE JsonIsWritten'
  <2>1. /\ p.file \in Files /\ json \in Graph /\ pc \in Replacing /\ p.file \notin BatchFiles
        /\ json' = [json EXCEPT ![p.file] = p.version] /\ batch' = Append(batch, p)
    BY <1>2 DEF WritePartitionFile, TypeInv, TypeOK, Partition, Replacing
  <2>2. json'[p.file] = p.version /\ \A g \in Files : g # p.file => json'[g] = json[g]
    BY <2>1 DEF Graph
  <2>3. \A i \in DOMAIN batch' : (i \in DOMAIN batch /\ batch'[i] = batch[i]) \/ batch'[i] = p
    BY <2>1 DEF TypeInv, TypeOK
  <2>4. \A i \in DOMAIN batch : batch[i].file # p.file /\ batch[i].file \in Files
    <3>1. \A i \in DOMAIN batch : batch[i] \in Partition
      BY DEF TypeInv, TypeOK
    <3>2. QED
      BY <2>1, <3>1 DEF BatchFiles, Partition
  <2>5. \A i \in DOMAIN batch : json[batch[i].file] = batch[i].version
    BY <2>1 DEF JsonIsWritten
  <2>6. QED
    BY <2>2, <2>3, <2>4, <2>5 DEF JsonIsWritten
<1>3. CASE StartDeltaLine \/ CompleteDeltaRecord \/ EndDeltaLine
  BY <1>3 DEF StartDeltaLine, CompleteDeltaRecord, EndDeltaLine, JsonIsWritten, Replacing
<1>4. CASE UNCHANGED vars
  BY <1>4 DEF vars, disk, JsonIsWritten
<1>5. CASE FullWrite \/ Compaction \/ Abort \/ FinishIncremental
  <2>1. pc' \notin Replacing
    BY <1>5 DEF FullWrite, Finish, BeginFull, StreamPartition, PublishPack,
       UnlinkSymbolShards, RemoveSymbols, PublishSymbols, PublishManifest,
       UnlinkDepsShards, RemoveDeps, PublishDeps, RemoveSnapshot, FinishFull,
       FinishIncremental, Compaction, BeginCompact, SaveSnapshot, FinishCompact,
       Abort, Return, Goto, Replacing
  <2>2. QED
    BY <2>1 DEF JsonIsWritten
<1>6. QED
  BY <1>1, <1>2, <1>3, <1>4, <1>5 DEF Next, Undisturbed, IncrementalWrite

\* An incremental write that returns makes the entries of its batch right, and
\* takes the entries of the other files over as they are.
LEMMA FinishedEntries ==
    ASSUME TypeInv, JsonIsWritten, FinishIncremental
    PROVE  /\ \A f \in BatchFiles : Matches(f)' /\ ManifestGraph'[f] = BatchGraph[f]
           /\ \A f \in Files \ BatchFiles :
                (Matches(f)' <=> Matches(f)) /\ ManifestGraph'[f] = ManifestGraph[f]
<1>1. /\ manifest' = PatchedManifest /\ UNCHANGED <<pack, json>> /\ pc \in Replacing
      /\ batch \in Seq(Partition)
  BY DEF FinishIncremental, Replacing, TypeInv, TypeOK
<1>2. ASSUME NEW f \in BatchFiles
      PROVE  Matches(f)' /\ ManifestGraph'[f] = BatchGraph[f]
  <2> DEFINE entry == [version |-> batch[Position(f)].version, record |-> 0]
  <2>1. /\ Position(f) \in DOMAIN batch /\ batch[Position(f)].file = f
        /\ batch[Position(f)] \in Partition
    BY <1>1, PositionOfBatchFile
  <2>2. f \in Files
    BY <2>1 DEF Partition
  <2>3. manifest'[f] = entry
    BY <1>1, <2>2 DEF PatchedManifest
  <2>4. entry \in Entry /\ entry.record = 0 /\ entry.version = batch[Position(f)].version
    BY <2>1 DEF Entry, Partition
  <2>5. json'[f] = entry.version
    BY <1>1, <2>1 DEF JsonIsWritten
  <2> HIDE DEF entry
  <2>6. Matches(f)'
    BY <2>3, <2>4, <2>5 DEF Matches, EntryMismatch
  <2>7. manifest'[f] # Absent
    BY <2>3, <2>4, ConstantsAssumption
  <2>8. QED
    BY <2>2, <2>3, <2>4, <2>6, <2>7 DEF ManifestGraph, BatchGraph
<1>3. ASSUME NEW f \in Files \ BatchFiles
      PROVE  (Matches(f)' <=> Matches(f)) /\ ManifestGraph'[f] = ManifestGraph[f]
  <2>1. manifest'[f] = manifest[f]
    BY <1>1 DEF PatchedManifest
  <2>2. QED
    BY <1>1, <2>1 DEF Matches, EntryMismatch, ManifestGraph
<1>4. QED
  BY <1>2, <1>3

\* No step of a running replacement touches what the manifest announces or the
\* partition of a file outside its batch.
LEMMA OtherEntries ==
    ASSUME TypeInv, [Next]_vars, pc \in Replacing, pc' \in Replacing
    PROVE  /\ ManifestGraph' = ManifestGraph
           /\ \A f \in Files \ BatchFiles' : f \notin BatchFiles /\ (Matches(f)' <=> Matches(f))
<1>1. UNCHANGED <<pack, manifest>>
  BY DEF Next, Undisturbed, FullWrite, Finish, BeginFull, StreamPartition, PublishPack,
       UnlinkSymbolShards, RemoveSymbols, PublishSymbols, PublishManifest,
       UnlinkDepsShards, RemoveDeps, PublishDeps, RemoveSnapshot, FinishFull,
       IncrementalWrite, BeginIncremental, WritePartitionFile, StartDeltaLine,
       CompleteDeltaRecord, EndDeltaLine, FinishIncremental, Compaction, BeginCompact,
       SaveSnapshot, FinishCompact, Abort, Return, Goto, Replacing, vars, disk
<1>2. (\E p \in Partition : WritePartitionFile(p)) \/ UNCHANGED <<json, batch>>
  BY DEF Next, Undisturbed, FullWrite, Finish, BeginFull, StreamPartition, PublishPack,
       UnlinkSymbolShards, RemoveSymbols, PublishSymbols, PublishManifest,
       UnlinkDepsShards, RemoveDeps, PublishDeps, RemoveSnapshot, FinishFull, Ready,
       IncrementalWrite, BeginIncremental, StartDeltaLine,
       CompleteDeltaRecord, EndDeltaLine, FinishIncremental, Compaction, BeginCompact,
       SaveSnapshot, FinishCompact, Abort, Return, Goto, Replacing, vars, disk
<1>3. ManifestGraph' = ManifestGraph
  BY <1>1 DEF ManifestGraph
<1>4. CASE UNCHANGED <<json, batch>>
  BY <1>1, <1>3, <1>4 DEF Matches, EntryMismatch, BatchFiles
<1>5. ASSUME NEW p \in Partition, WritePartitionFile(p)
      PROVE  \A f \in Files \ BatchFiles' : f \notin BatchFiles /\ (Matches(f)' <=> Matches(f))
  <2>1. /\ batch' = Append(batch, p) /\ json' = [json EXCEPT ![p.file] = p.version]
        /\ batch \in Seq(Partition) /\ json \in Graph /\ p.file \in Files
    BY <1>5 DEF WritePartitionFile, TypeInv, TypeOK, Partition
  <2>2. BatchFiles \subseteq BatchFiles' /\ p.file \in BatchFiles'
    <3>1. /\ \A i \in DOMAIN batch : i \in DOMAIN batch' /\ batch'[i] = batch[i]
          /\ Len(batch) + 1 \in DOMAIN batch' /\ batch'[Len(batch) + 1] = p
      BY <2>1
    <3>2. QED
      BY <3>1 DEF BatchFiles
  <2>3. QED
    BY <1>1, <2>1, <2>2 DEF Matches, EntryMismatch, Graph
<1>6. QED
  BY <1>2, <1>3, <1>4, <1>5

\* What a replacement remembers of a sound store is what its manifest still
\* announces, and the files it has not come to are still sound.
Remembered ==
    before # Absent =>
        /\ pc \in Replacing
        /\ before = ManifestGraph
        /\ \A f \in Files \ BatchFiles : Matches(f)

\* Each step of a replacement keeps what it remembers true.
LEMMA RememberedStep ==
    ASSUME TypeInv, Remembered, [BoundedNext]_bvars
    PROVE  Remembered'
<1>1. CASE UNCHANGED bvars
  BY <1>1 DEF bvars, vars, disk, Remembered, ManifestGraph, Matches, EntryMismatch, BatchFiles
<1>2. CASE BoundedNext /\ pc' \notin Replacing
  BY <1>2 DEF BoundedNext, Remember, Remembered
<1>3. CASE BoundedNext /\ pc' \in Replacing /\ pc \in Replacing
  <2>1. before' = before /\ [Next]_vars
    BY <1>3 DEF BoundedNext, BoundedAbort, Next, Remember
  <2>2. QED
    BY <1>3, <2>1, OtherEntries DEF Remembered
<1>4. CASE BoundedNext /\ pc' \in Replacing /\ pc \notin Replacing
  <2>1. BeginIncremental
    BY <1>4 DEF BoundedNext, BoundedAbort, Undisturbed, FullWrite, Finish,
       BeginFull, StreamPartition, PublishPack, UnlinkSymbolShards, RemoveSymbols, PublishSymbols,
       PublishManifest, UnlinkDepsShards, RemoveDeps, PublishDeps, RemoveSnapshot, FinishFull,
       IncrementalWrite, WritePartitionFile, StartDeltaLine, CompleteDeltaRecord, Return, Abort,
       EndDeltaLine, FinishIncremental, Compaction, BeginCompact, SaveSnapshot, FinishCompact, Goto,
       Replacing
  <2>2. UNCHANGED <<pack, manifest, json>>
    BY <2>1 DEF BeginIncremental, disk
  <2>3. CASE PartitionFileProblems = {}
    <3>1. before' = ManifestGraph
      BY <1>4, <2>3, NoProblemMeansNoMisread DEF BoundedNext, Remember, TypeInv
    <3>2. \A f \in Files : Matches(f)'
      BY <2>2, <2>3 DEF PartitionFileProblems, Matches, EntryMismatch
    <3>3. ManifestGraph' = ManifestGraph
      BY <2>2 DEF ManifestGraph
    <3>4. QED
      BY <1>4, <3>1, <3>2, <3>3 DEF Remembered
  <2>4. CASE PartitionFileProblems # {}
    BY <1>4, <2>4 DEF BoundedNext, Remember, Remembered
  <2>5. QED
    BY <2>3, <2>4
<1>5. QED
  BY <1>1, <1>2, <1>3, <1>4

\* The count of failures, what is on disk during a replacement and what it remembers.
BoundedInv == failures \in Nat /\ JsonIsWritten /\ Remembered

\* All of it holds in every state.
LEMMA BoundedInvariant == BoundedSpec => [](TypeInv /\ BoundedInv)
<1>1. Init /\ failures = 0 /\ before = Absent => BoundedInv
  BY DEF Init, BoundedInv, JsonIsWritten, Replacing, Remembered
<1>2. TypeInv /\ BoundedInv /\ [BoundedNext]_bvars => BoundedInv'
  <2> SUFFICES ASSUME TypeInv, BoundedInv, [BoundedNext]_bvars PROVE BoundedInv'
    OBVIOUS
  <2>1. [Next]_vars /\ failures' \in Nat
    BY DEF BoundedInv, BoundedNext, BoundedAbort, Next, bvars
  <2>2. QED
    BY <2>1, JsonStep, RememberedStep DEF BoundedInv
<1>3. BoundedSpec => []TypeInv
  BY BoundedRefinesSpec, TypeInvariant, PTL
<1>4. QED
  BY <1>1, <1>2, <1>3, PTL DEF BoundedSpec, bvars

\* An incremental write that returns Ok and began on a store whose files matched its
\* manifest leaves every other file in the manifest as it was and adds its own: also
\* when earlier operations had failed, and when it replaces a file once more.
THEOREM ManifestKeepsTheRestCorrect == BoundedSpec => ManifestKeepsTheRest
<1>1. ASSUME TypeInv, BoundedInv, MisreadIsReported', [BoundedNext]_bvars,
             pc = "incr_open", pc' = "idle", failures' = failures, before # Absent
      PROVE  LoadFromManifest' = Overlay(before, BatchGraph) /\ PartitionFileProblems' = {}
  <2>1. FinishIncremental
    BY <1>1 DEF BoundedInv, BoundedNext, BoundedAbort, Undisturbed, bvars, vars, FullWrite, Finish,
       BeginFull, StreamPartition, PublishPack, UnlinkSymbolShards, RemoveSymbols, PublishSymbols,
       PublishManifest, UnlinkDepsShards, RemoveDeps, PublishDeps, RemoveSnapshot, FinishFull,
       IncrementalWrite, BeginIncremental, WritePartitionFile, StartDeltaLine, CompleteDeltaRecord,
       EndDeltaLine, Compaction, BeginCompact, SaveSnapshot, FinishCompact, Goto
  <2>2. before = ManifestGraph /\ \A f \in Files \ BatchFiles : Matches(f)
    BY <1>1 DEF BoundedInv, Remembered
  <2>3. PartitionFileProblems' = {}
    <3>1. \A f \in Files : Matches(f)'
      BY <1>1, <2>1, <2>2, FinishedEntries DEF BoundedInv
    <3>2. QED
      BY <3>1 DEF PartitionFileProblems, Matches
  <2>4. LoadFromManifest' = ManifestGraph'
    BY <1>1, <2>3 DEF MisreadIsReported
  <2>5. ManifestGraph' = Overlay(ManifestGraph, BatchGraph)
    <3>1. ManifestGraph' = [f \in Files |-> ManifestGraph'[f]]
      BY DEF ManifestGraph
    <3>2. ASSUME NEW f \in Files
          PROVE  ManifestGraph'[f] = IF BatchGraph[f] # Absent THEN BatchGraph[f] ELSE ManifestGraph[f]
      <4>1. CASE f \in BatchFiles
        <5>1. BatchGraph[f] # Absent
          BY <1>1, <4>1, PositionOfBatchFile, ConstantsAssumption
             DEF BatchGraph, Partition, TypeInv, TypeOK
        <5>2. QED
          BY <1>1, <2>1, <4>1, <5>1, FinishedEntries DEF BoundedInv
      <4>2. CASE f \notin BatchFiles
        BY <1>1, <2>1, <4>2, FinishedEntries DEF BatchGraph, BoundedInv
      <4>3. QED
        BY <4>1, <4>2
    <3>3. QED
      BY <3>1, <3>2 DEF Overlay
  <2>6. QED
    BY <2>2, <2>3, <2>4, <2>5
<1>2. TypeInv /\ BoundedInv /\ MisreadIsReported' /\ [BoundedNext]_bvars
        => [pc = "incr_open" /\ pc' = "idle" /\ failures' = failures /\ before # Absent
              => /\ LoadFromManifest' = Overlay(before, BatchGraph)
                 /\ PartitionFileProblems' = {}]_bvars
  BY <1>1
<1>3. QED
  BY <1>2, BoundedInvariant, BoundedRefinesSpec, MisreadIsReportedCorrect, PTL
     DEF BoundedSpec, ManifestKeepsTheRest, bvars
-----------------------------------------------------------------------------
(* Stores on which nothing failed.                                         *)

\* The steps other than Abort keep manifest and partitions together.
LEMMA FilesStep ==
    ASSUME TypeInv, FullInv, JsonIsWritten, FilesInv, Undisturbed
    PROVE  FilesInv'
<1>0. pc \in {"idle", "full_done"} => \A f \in Files : Matches(f)
  BY PublishedManifestReads DEF FullInv, FilesInv, Matches, PartitionFileProblems
<1>1. ASSUME UNCHANGED <<pack, manifest, json>>
      PROVE  \A f \in Files : Matches(f)' <=> Matches(f)
  BY <1>1 DEF Matches, EntryMismatch
<1>2. CASE FullWrite
  <2>1. pc' \notin Replacing \cup {"idle", "compact_save", "compact_truncate"}
    BY <1>2 DEF FullWrite, Finish, BeginFull, StreamPartition, PublishPack,
       UnlinkSymbolShards, RemoveSymbols, PublishSymbols, PublishManifest,
       UnlinkDepsShards, RemoveDeps, PublishDeps, RemoveSnapshot, FinishFull, Goto, Replacing
  <2>2. QED
    BY <2>1 DEF FilesInv
<1>3. CASE BeginIncremental \/ BeginCompact
  <2>1. UNCHANGED <<pack, manifest, json>> /\ pc \in {"idle", "full_done"}
    BY <1>3 DEF BeginIncremental, BeginCompact, Ready, disk
  <2>2. QED
    BY <1>0, <1>1, <2>1 DEF FilesInv
<1>4. ASSUME NEW p \in Partition, WritePartitionFile(p) PROVE FilesInv'
  <2>1. /\ pc = "incr_open" /\ pc' = "incr_delta" /\ batch' = Append(batch, p)
        /\ json' = [json EXCEPT ![p.file] = p.version] /\ UNCHANGED <<pack, manifest>>
        /\ batch \in Seq(Partition) /\ json \in Graph /\ p.file \in Files
    BY <1>4 DEF WritePartitionFile, Goto, TypeInv, TypeOK, Partition
  <2>2. BatchFiles \subseteq BatchFiles' /\ p.file \in BatchFiles'
    <3>1. /\ \A i \in DOMAIN batch : i \in DOMAIN batch' /\ batch'[i] = batch[i]
          /\ Len(batch) + 1 \in DOMAIN batch' /\ batch'[Len(batch) + 1] = p
      BY <2>1
    <3>2. QED
      BY <3>1 DEF BatchFiles
  <2>3. \A f \in Files \ BatchFiles' : Matches(f)' <=> Matches(f)
    BY <2>1, <2>2 DEF Matches, EntryMismatch, Graph
  <2>4. QED
    BY <2>1, <2>2, <2>3 DEF FilesInv, Replacing
<1>5. CASE StartDeltaLine \/ CompleteDeltaRecord \/ EndDeltaLine
  <2>1. /\ UNCHANGED <<pack, manifest, json, batch>> /\ pc \in Replacing
        /\ pc' \in {"incr_line", "incr_newline", "incr_open"}
    BY <1>5 DEF StartDeltaLine, CompleteDeltaRecord, EndDeltaLine, Goto, Replacing
  <2>2. BatchFiles' = BatchFiles
    BY <2>1 DEF BatchFiles
  <2>3. QED
    BY <1>1, <2>1, <2>2 DEF FilesInv
<1>6. CASE FinishIncremental
  <2>1. pc = "incr_open" /\ pc' = "idle"
    BY <1>6 DEF FinishIncremental, Return, Goto
  <2>2. \A f \in Files : Matches(f)'
    BY <1>6, <2>1, FinishedEntries DEF FilesInv, Replacing
  <2>3. QED
    BY <2>1, <2>2 DEF FilesInv, Replacing
<1>7. CASE SaveSnapshot \/ FinishCompact
  <2>1. /\ UNCHANGED <<pack, manifest, json>> /\ pc \in {"compact_save", "compact_truncate"}
        /\ pc' \notin Replacing
    BY <1>7 DEF SaveSnapshot, FinishCompact, Return, Goto, Replacing
  <2>2. QED
    BY <1>1, <2>1 DEF FilesInv
<1>8. QED
  BY <1>2, <1>3, <1>4, <1>5, <1>6, <1>7 DEF Undisturbed, IncrementalWrite, Compaction

\* The steps other than Abort keep the log whole.
LEMMA SymbolsStep ==
    ASSUME TypeInv, CompactInv, FullInv, SymbolsInv, Undisturbed
    PROVE  SymbolsInv'
<1>1. CASE FullWrite
  BY <1>1 DEF FullWrite, Finish, BeginFull, StreamPartition, PublishPack, Ready,
     UnlinkSymbolShards, RemoveSymbols, PublishSymbols, PublishManifest, UnlinkDepsShards,
     RemoveDeps, PublishDeps, RemoveSnapshot, FinishFull, TruncateDelta, Goto, disk, SymbolsInv
<1>2. CASE BeginIncremental
  BY <1>2 DEF BeginIncremental, Ready, Goto, disk, SymbolsInv
<1>3. ASSUME NEW p \in Partition, WritePartitionFile(p) PROVE SymbolsInv'
  BY <1>3 DEF WritePartitionFile, Goto, SymbolsInv
<1>4. CASE StartDeltaLine
  BY <1>4 DEF StartDeltaLine, Goto, SymbolsInv
<1>5. CASE CompleteDeltaRecord
  <2>1. /\ pc' = "incr_newline" /\ tail = "partial" /\ tail' = "unterminated"
        /\ delta' = [delta EXCEPT ![Current.file] = Current.version]
    BY <1>5 DEF CompleteDeltaRecord, Goto, SymbolsInv
  <2>2. Current.file \in Files /\ Current.version # Absent
    BY <1>5, <2>1, AppendKeeps, ConstantsAssumption
  <2>3. delta'[Current.file] = Current.version
    BY <2>1, <2>2 DEF TypeInv, TypeOK, Graph
  <2>4. delta' # EmptyGraph
    BY <2>2, <2>3 DEF EmptyGraph
  <2>5. EmptyGraph' = EmptyGraph
    BY DEF EmptyGraph
  <2>6. QED
    BY <2>1, <2>4, <2>5 DEF SymbolsInv
<1>6. CASE EndDeltaLine
  BY <1>6 DEF EndDeltaLine, Goto, SymbolsInv, EmptyGraph
<1>7. CASE FinishIncremental
  <2>1. /\ pc' = "idle" /\ pc = "incr_open" /\ batch # <<>> /\ UNCHANGED <<tail, delta, symbols>>
    BY <1>7 DEF FinishIncremental, Return, Goto
  <2>2. NotIndexed'
    BY <2>1 DEF SymbolsInv, NotIndexed, EmptyGraph
  <2>3. QED
    BY <2>1, <2>2 DEF SymbolsInv
<1>8. CASE BeginCompact
  BY <1>8 DEF BeginCompact, Ready, Goto, disk, SymbolsInv
<1>9. CASE SaveSnapshot
  <2>1. snapshot' \in Graph /\ pc' = "compact_truncate" /\ pc = "compact_save" /\ tail' = tail
    BY <1>9 DEF SaveSnapshot, Goto, TypeInv, TypeOK
  <2>2. QED
    BY <2>1, ConstantsAssumption DEF SymbolsInv
<1>10. CASE FinishCompact
  BY <1>10 DEF FinishCompact, TruncateDelta, Return, Goto, SymbolsInv
<1>11. QED
  BY <1>1, <1>2, <1>3, <1>4, <1>5, <1>6, <1>7, <1>8, <1>9, <1>10
     DEF Undisturbed, IncrementalWrite, Compaction

\* As long as no operation stopped half way, both hold.
LEMMA FailureFreeInvariant == BoundedSpec => [](NothingWentWrong => FilesInv /\ SymbolsInv)
<1>1. Init => FilesInv /\ SymbolsInv
  BY DEF Init, FilesInv, SymbolsInv, Replacing, Matches, EmptyGraph, NotIndexed, NoSymbols
<1>2. TypeInv /\ CompactInv /\ FullInv /\ BoundedInv /\ (NothingWentWrong => FilesInv /\ SymbolsInv)
        /\ [BoundedNext]_bvars => (NothingWentWrong => FilesInv /\ SymbolsInv)'
  <2> SUFFICES ASSUME TypeInv, CompactInv, FullInv, BoundedInv,
                      NothingWentWrong => FilesInv /\ SymbolsInv,
                      [BoundedNext]_bvars, NothingWentWrong'
               PROVE  FilesInv' /\ SymbolsInv'
    OBVIOUS
  <2>1. NothingWentWrong /\ (Undisturbed \/ UNCHANGED vars)
    BY DEF NothingWentWrong, BoundedInv, BoundedNext, BoundedAbort, bvars
  <2>2. CASE Undisturbed
    BY <2>1, <2>2, FilesStep, SymbolsStep DEF BoundedInv
  <2>3. CASE UNCHANGED vars
    BY <2>1, <2>3 DEF vars, disk, FilesInv, SymbolsInv, Matches, EntryMismatch, BatchFiles,
       EmptyGraph, NotIndexed
  <2>4. QED
    BY <2>1, <2>2, <2>3
<1>3. Init => CompactInv /\ FullInv
  BY DEF Init, CompactInv, FullInv
<1>4. Spec => [](CompactInv /\ FullInv)
  BY <1>3, TypeInvariant, CompactInvStep, FullInvStep, PTL DEF Spec
<1>5. QED
  BY <1>1, <1>2, <1>4, BoundedRefinesSpec, BoundedInvariant, PTL DEF BoundedSpec, bvars

\* While no operation failed half way, every operation leaves pack, partition files
\* and manifest in agreement: partition_file_check has nothing to report.
THEOREM FilesMatchUntilAFailureCorrect == BoundedSpec => []FilesMatchUntilAFailure
<1>1. FullIndexIsCoherent /\ (NothingWentWrong => FilesInv /\ SymbolsInv) => FilesMatchUntilAFailure
  BY DEF FullIndexIsCoherent, FilesInv, FilesMatchUntilAFailure, ManifestMatchesFiles, Ready,
     Matches, PartitionFileProblems
<1>2. QED
  BY <1>1, FailureFreeInvariant, FullIndexCorrect, BoundedRefinesSpec, PTL

\* With the calls the command line makes and none that failed, the symbol index
\* answers exactly what the graph would, or declines.
THEOREM SymbolsOfTheCommandLineCorrect == BoundedSpec => []SymbolsOfTheCommandLine
<1>1. FullIndexIsCoherent /\ (NothingWentWrong => FilesInv /\ SymbolsInv) => SymbolsOfTheCommandLine
  BY DEF FullIndexIsCoherent, SymbolsInv, SymbolsOfTheCommandLine, OnlyTheCommandLine,
     SymbolAnswerIsCurrent, Ready
<1>2. QED
  BY <1>1, FailureFreeInvariant, FullIndexCorrect, BoundedRefinesSpec, PTL
=============================================================================
