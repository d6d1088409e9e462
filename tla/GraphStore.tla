----------------------------- MODULE GraphStore -----------------------------
(***************************************************************************)
(* The on-disk graph store of the aci-store crate: what is in each file of *)
(* the store directory after every rename, append, truncation and removal  *)
(* that a full write, an incremental write and a compaction perform, and   *)
(* what the readers answer from those files.                               *)
(*                                                                         *)
(* A partition is reduced to its file and the version (the fingerprint) of *)
(* that file it was extracted from.  One operation runs at a time; it may  *)
(* stop between any two steps (an I/O error returned to the caller, or the *)
(* process killed), leaving the disk as it is.  Readers are operators over *)
(* the disk, so a property about a reader is a property of a read that     *)
(* happens at that moment, during an operation included.                   *)
(***************************************************************************)
EXTENDS Naturals, Sequences, FiniteSets

CONSTANTS
    Files,     \* file ids (one per source path and language)
    Versions,  \* versions a source file can have
    Absent,    \* "no such entry", "no such file on disk"
    Imports    \* Imports[f][v]: the files that version v of f imports

VARIABLES
    pack,      \* partitions/pack-00000.bin: the records, in write order
    manifest,  \* manifest.jsonl: file -> entry, last line of a file wins
    json,      \* partitions/<hash>.json: file -> version stored there
    delta,     \* delta.jsonl: file -> version of its last complete record
    tail,      \* how the last line of delta.jsonl ends
    snapshot,  \* snapshot.json, or Absent
    symbols,   \* symbols/: the symbol facts of all shards
    deps,      \* deps/: the path table and the reverse-import shards
    pc,        \* the step the running operation is about to take
    batch,     \* partitions handed to the writer so far, in order
    loaded     \* the graph compact() holds in memory

disk == <<pack, manifest, json, delta, tail, snapshot, symbols, deps>>
vars == <<disk, pc, batch, loaded>>
-----------------------------------------------------------------------------
Partition == [file: Files, version: Versions]
Graph == [Files -> Versions \cup {Absent}]
EmptyGraph == [f \in Files |-> Absent]

\* A manifest entry: the fingerprint of the partition and where it is, packed
\* record number "record", or (record = 0) the JSON file of its own.  Record
\* i of the code is record i + 1 here.
Entry == [version: Versions, record: Nat]

\* The directory symbols/ with one fact per indexed symbol, the directory deps/
\* with its path table and, per import stem, the files that import it.
SymbolIndex == [exists: BOOLEAN, facts: SUBSET (Files \X Versions)]
DependencyIndex == [exists: BOOLEAN, paths: BOOLEAN, edges: SUBSET (Files \X Files)]
NoSymbols == [exists |-> FALSE, facts |-> {}]
NoDeps == [exists |-> FALSE, paths |-> FALSE, edges |-> {}]

ASSUME ConstantsAssumption ==
    /\ Imports \in [Files -> [Versions -> SUBSET Files]]
    /\ Absent \notin Versions
    /\ Absent \notin Entry
    /\ Absent \notin Graph

BatchFiles == {batch[i].file : i \in DOMAIN batch}
Current == batch[Len(batch)]

\* Where the writer has been given a partition of f.
Position(f) == CHOOSE i \in DOMAIN batch : batch[i].file = f

BatchFacts == {<<batch[i].file, batch[i].version>> : i \in DOMAIN batch}
BatchImports ==
    {edge \in Files \X Files :
        \E i \in DOMAIN batch :
            /\ batch[i].file = edge[2]
            /\ edge[1] \in Imports[batch[i].file][batch[i].version]}

\* Mutations.  Each operator named ..._Mut... is a plausible wrong version of the
\* definition that follows it; PROJECT.json names the property it breaks.
PatchedManifest_MutLosesRecordIndex ==
    [f \in Files |->
        IF f \in BatchFiles
        THEN [version |-> batch[Position(f)].version]
        ELSE manifest[f]]
PatchedManifest_MutKeepsOldEntry ==
    [f \in Files |->
        IF f \in BatchFiles /\ manifest[f] = Absent
        THEN [version |-> batch[Position(f)].version, record |-> 0]
        ELSE manifest[f]]
PatchedManifest_MutStartsEmpty ==
    [f \in Files |->
        IF f \in BatchFiles
        THEN [version |-> batch[Position(f)].version, record |-> 0]
        ELSE Absent]

\* manifest.jsonl.tmp as the writer leaves it: a full writer starts it empty,
\* an incremental one from the entries the manifest already has.
FullManifest ==
    [f \in Files |->
        IF f \in BatchFiles
        THEN [version |-> batch[Position(f)].version, record |-> Position(f)]
        ELSE Absent]
PatchedManifest ==
    [f \in Files |->
        IF f \in BatchFiles
        THEN [version |-> batch[Position(f)].version, record |-> 0]
        ELSE manifest[f]]
-----------------------------------------------------------------------------
(* Readers.                                                                *)

\* A line that is not one whole record makes every read of the log an error.
DeltaUnreadable == tail \in {"partial", "corrupt"}

\* The packed records the manifest names that are there to be read, and those
\* among them that turn out to hold a partition of f.
NamedRecords ==
    {i \in DOMAIN pack : \E f \in Files : manifest[f] # Absent /\ manifest[f].record = i}
RecordsOf(f) == {i \in NamedRecords : pack[i].file = f}

\* JSON entries are read first, packed records replace them in record order.
LoadFromManifest ==
    [f \in Files |->
        IF RecordsOf(f) # {}
        THEN pack[CHOOSE i \in RecordsOf(f) : \A j \in RecordsOf(f) : j <= i].version
        ELSE IF manifest[f] # Absent /\ manifest[f].record = 0
             THEN json[f]
             ELSE Absent]

Overlay(base, log) == [f \in Files |-> IF log[f] # Absent THEN log[f] ELSE base[f]]
Saved == IF snapshot = Absent THEN EmptyGraph ELSE snapshot
Replay == Overlay(Saved, delta)

\* Meaningful when ~DeltaUnreadable; otherwise load_latest returns an error.
LoadLatest == IF Replay = EmptyGraph THEN LoadFromManifest ELSE Replay

NotIndexed_MutIgnoresLog == ~symbols.exists

\* The symbol index answers only when the log is empty; NotIndexed sends the
\* caller to the graph itself.
NotIndexed == delta # EmptyGraph \/ ~symbols.exists
SymbolFacts(graph) == {<<f, graph[f]>> : f \in {g \in Files : graph[g] # Absent}}

\* Files the incremental planner adds to a change of f: from deps/ when it
\* exists, otherwise from the import nodes of the loaded graph.
GraphImporters(graph, f) ==
    {g \in Files \ {f} : graph[g] # Absent /\ f \in Imports[g][graph[g]]}
PlanFails == deps.exists /\ ~deps.paths
ReverseDependencies(f) ==
    IF ~deps.exists
    THEN GraphImporters(LoadLatest, f)
    ELSE {g \in Files \ {f} : <<f, g>> \in deps.edges}

EntryMismatch_MutPresenceOnly(f) ==
    IF manifest[f].record = 0
    THEN json[f] = Absent
    ELSE manifest[f].record \notin DOMAIN pack

\* Files partition_file_check complains about: the record is not there, is of
\* another file, or has another fingerprint than the manifest says.
EntryMismatch(f) ==
    LET entry == manifest[f] IN
    IF entry.record = 0
    THEN json[f] # entry.version
    ELSE \/ entry.record \notin DOMAIN pack
         \/ pack[entry.record] # [file |-> f, version |-> entry.version]
PartitionFileProblems == {f \in Files : manifest[f] # Absent /\ EntryMismatch(f)}
-----------------------------------------------------------------------------
(* Operations.                                                             *)

\* GraphStore::open on a directory that is not there yet.
Init ==
    /\ pack = <<>>
    /\ manifest = EmptyGraph
    /\ json = EmptyGraph
    /\ delta = EmptyGraph
    /\ tail = "clean"
    /\ snapshot = Absent
    /\ symbols = NoSymbols
    /\ deps = NoDeps
    /\ pc = "idle"
    /\ batch = <<>>
    /\ loaded = EmptyGraph

Goto(step) == pc' = step

\* No operation is running: either nothing is known of the last one, or it was
\* a full write that returned Ok (batch then still holds what it wrote).
Ready == pc \in {"idle", "full_done"}

\* The operation returns and drops what it held in memory.
Return ==
    /\ Goto("idle")
    /\ batch' = <<>>
    /\ loaded' = EmptyGraph

\* replace_all_writer: all of its files are fresh temporaries.
BeginFull ==
    /\ Ready
    /\ Goto("full_stream")
    /\ batch' = <<>>
    /\ UNCHANGED <<disk, loaded>>

\* One partition of the index stream; discovery yields each file once.
StreamPartition(p) ==
    /\ pc = "full_stream"
    /\ p.file \notin BatchFiles
    /\ batch' = Append(batch, p)
    /\ UNCHANGED <<disk, pc, loaded>>

\* PartitionWriter::finish, one step per change of a file that readers see.
PublishPack ==
    /\ pc = "full_stream"
    /\ pack' = batch
    /\ Goto("full_symbols_clear")
    /\ UNCHANGED <<manifest, json, delta, tail, snapshot, symbols, deps, batch, loaded>>

\* remove_dir_all unlinks the shards one after the other, then the directory.
UnlinkSymbolShards ==
    /\ pc = "full_symbols_clear"
    /\ \E shards \in (SUBSET symbols.facts) \ {{}} :
            symbols' = [symbols EXCEPT !.facts = @ \ shards]
    /\ UNCHANGED <<pack, manifest, json, delta, tail, snapshot, deps, pc, batch, loaded>>

RemoveSymbols ==
    /\ pc = "full_symbols_clear"
    /\ symbols.facts = {}
    /\ symbols' = NoSymbols
    /\ Goto("full_symbols_rename")
    /\ UNCHANGED <<pack, manifest, json, delta, tail, snapshot, deps, batch, loaded>>

PublishSymbols ==
    /\ pc = "full_symbols_rename"
    /\ symbols' = [exists |-> TRUE, facts |-> BatchFacts]
    /\ Goto("full_manifest")
    /\ UNCHANGED <<pack, manifest, json, delta, tail, snapshot, deps, batch, loaded>>

PublishManifest ==
    /\ pc = "full_manifest"
    /\ manifest' = FullManifest
    /\ Goto("full_deps_clear")
    /\ UNCHANGED <<pack, json, delta, tail, snapshot, symbols, deps, batch, loaded>>

UnlinkDepsShards ==
    /\ pc = "full_deps_clear"
    /\ \/ \E shards \in (SUBSET deps.edges) \ {{}} :
            deps' = [deps EXCEPT !.edges = @ \ shards]
       \/ /\ deps.paths
          /\ deps' = [deps EXCEPT !.paths = FALSE]
    /\ UNCHANGED <<pack, manifest, json, delta, tail, snapshot, symbols, pc, batch, loaded>>

RemoveDeps ==
    /\ pc = "full_deps_clear"
    /\ ~deps.paths
    /\ deps.edges = {}
    /\ deps' = NoDeps
    /\ Goto("full_deps_rename")
    /\ UNCHANGED <<pack, manifest, json, delta, tail, snapshot, symbols, batch, loaded>>

PublishDeps ==
    /\ pc = "full_deps_rename"
    /\ deps' = [exists |-> TRUE, paths |-> TRUE, edges |-> BatchImports]
    /\ Goto("full_snapshot")
    /\ UNCHANGED <<pack, manifest, json, delta, tail, snapshot, symbols, batch, loaded>>

RemoveSnapshot ==
    /\ pc = "full_snapshot"
    /\ snapshot' = Absent
    /\ Goto("full_delta")
    /\ UNCHANGED <<pack, manifest, json, delta, tail, symbols, deps, batch, loaded>>

\* File::create empties the log, whatever its last line was.
TruncateDelta ==
    /\ delta' = EmptyGraph
    /\ tail' = "clean"

FinishFull_MutKeepsLog ==
    /\ pc = "full_delta"
    /\ Goto("full_done")
    /\ UNCHANGED <<disk, batch, loaded>>

FinishFull ==
    /\ pc = "full_delta"
    /\ TruncateDelta
    /\ Goto("full_done")
    /\ UNCHANGED <<pack, manifest, json, snapshot, symbols, deps, batch, loaded>>

\* replace_partitions: the manifest is copied, the log opened for append.
BeginIncremental ==
    /\ Ready
    /\ Goto("incr_open")
    /\ batch' = <<>>
    /\ UNCHANGED <<disk, loaded>>

\* PartitionWriter::write without a pack: first the JSON file, by rename; the
\* plan lists each file once.
WritePartitionFile(p) ==
    /\ pc = "incr_open"
    /\ p.file \notin BatchFiles
    /\ json' = [json EXCEPT ![p.file] = p.version]
    /\ batch' = Append(batch, p)
    /\ Goto("incr_delta")
    /\ UNCHANGED <<pack, manifest, delta, tail, snapshot, symbols, deps, loaded>>

\* The log file is unbuffered: serde_json writes the record piece by piece.
\* On a line that is not terminated the pieces spoil that line for good.
StartDeltaLine ==
    /\ pc = "incr_delta"
    /\ tail' = IF tail = "clean" THEN "partial" ELSE "corrupt"
    /\ Goto("incr_line")
    /\ UNCHANGED <<pack, manifest, json, delta, snapshot, symbols, deps, batch, loaded>>

CompleteDeltaRecord_MutRewritesLog ==
    /\ pc = "incr_line"
    /\ IF tail = "partial"
       THEN /\ delta' = [EmptyGraph EXCEPT ![Current.file] = Current.version]
            /\ tail' = "unterminated"
       ELSE UNCHANGED <<delta, tail>>
    /\ Goto("incr_newline")
    /\ UNCHANGED <<pack, manifest, json, snapshot, symbols, deps, batch, loaded>>
CompleteDeltaRecord_MutLosesRecord ==
    /\ pc = "incr_line"
    /\ tail' = IF tail = "partial" THEN "unterminated" ELSE tail
    /\ Goto("incr_newline")
    /\ UNCHANGED <<pack, manifest, json, delta, snapshot, symbols, deps, batch, loaded>>

CompleteDeltaRecord ==
    /\ pc = "incr_line"
    /\ IF tail = "partial"
       THEN /\ delta' = [delta EXCEPT ![Current.file] = Current.version]
            /\ tail' = "unterminated"
       ELSE UNCHANGED <<delta, tail>>
    /\ Goto("incr_newline")
    /\ UNCHANGED <<pack, manifest, json, snapshot, symbols, deps, batch, loaded>>

EndDeltaLine ==
    /\ pc = "incr_newline"
    /\ tail' = IF tail = "unterminated" THEN "clean" ELSE tail
    /\ Goto("incr_open")
    /\ UNCHANGED <<pack, manifest, json, delta, snapshot, symbols, deps, batch, loaded>>

\* The callers never write an empty list of partitions.
FinishIncremental ==
    /\ pc = "incr_open"
    /\ batch # <<>>
    /\ manifest' = PatchedManifest
    /\ Return
    /\ UNCHANGED <<pack, json, delta, tail, snapshot, symbols, deps>>

BeginCompact_MutForgetsLog ==
    /\ Ready
    /\ ~DeltaUnreadable
    /\ loaded' = Saved
    /\ batch' = <<>>
    /\ Goto("compact_save")
    /\ UNCHANGED disk

\* compact(): load, replace the snapshot by rename, empty the log.
BeginCompact ==
    /\ Ready
    /\ ~DeltaUnreadable
    /\ loaded' = LoadLatest
    /\ batch' = <<>>
    /\ Goto("compact_save")
    /\ UNCHANGED disk

SaveSnapshot_MutKeepsOld ==
    /\ pc = "compact_save"
    /\ snapshot' = IF snapshot = Absent THEN loaded ELSE snapshot
    /\ Goto("compact_truncate")
    /\ UNCHANGED <<pack, manifest, json, delta, tail, symbols, deps, batch, loaded>>

SaveSnapshot ==
    /\ pc = "compact_save"
    /\ snapshot' = loaded
    /\ Goto("compact_truncate")
    /\ UNCHANGED <<pack, manifest, json, delta, tail, symbols, deps, batch, loaded>>

FinishCompact ==
    /\ pc = "compact_truncate"
    /\ TruncateDelta
    /\ Return
    /\ UNCHANGED <<pack, manifest, json, snapshot, symbols, deps>>

\* The operation returns an error, or the process dies, before its next step.
Abort ==
    /\ ~Ready
    /\ Return
    /\ UNCHANGED disk
-----------------------------------------------------------------------------
Finish ==
    \/ PublishPack \/ UnlinkSymbolShards \/ RemoveSymbols \/ PublishSymbols
    \/ PublishManifest \/ UnlinkDepsShards \/ RemoveDeps \/ PublishDeps
    \/ RemoveSnapshot \/ FinishFull
FullWrite == BeginFull \/ (\E p \in Partition : StreamPartition(p)) \/ Finish
IncrementalWrite ==
    \/ BeginIncremental
    \/ \E p \in Partition : WritePartitionFile(p)
    \/ StartDeltaLine \/ CompleteDeltaRecord \/ EndDeltaLine
    \/ FinishIncremental
Compaction == BeginCompact \/ SaveSnapshot \/ FinishCompact

Undisturbed == FullWrite \/ IncrementalWrite \/ Compaction
Next == Undisturbed \/ Abort

\* Everything the crate can do, in any order, stopped anywhere.
Spec == Init /\ [][Next]_vars

\* What the command line does with a store while nothing goes wrong: the index
\* and watch commands never call compact().
CliSpec == Init /\ [][FullWrite \/ IncrementalWrite]_vars

\* A store that is only ever built up by replacements and compactions.
LogSpec == Init /\ [][IncrementalWrite \/ Compaction \/ Abort]_vars
-----------------------------------------------------------------------------
(* Properties.                                                             *)

Steps ==
    {"idle", "full_done", "full_stream", "full_symbols_clear", "full_symbols_rename",
     "full_manifest", "full_deps_clear", "full_deps_rename", "full_snapshot",
     "full_delta", "incr_open", "incr_delta", "incr_line", "incr_newline",
     "compact_save", "compact_truncate"}

\* Every variable has its type (all of aci-store's files and writer state).
TypeOK ==
    /\ pack \in Seq(Partition)
    /\ manifest \in [Files -> Entry \cup {Absent}]
    /\ json \in Graph
    /\ delta \in Graph
    /\ tail \in {"clean", "partial", "unterminated", "corrupt"}
    /\ snapshot \in Graph \cup {Absent}
    /\ symbols \in SymbolIndex
    /\ deps \in DependencyIndex
    /\ pc \in Steps
    /\ batch \in Seq(Partition)
    /\ loaded \in Graph

\* The graph a complete full index was given.
BatchGraph ==
    [f \in Files |-> IF f \in BatchFiles THEN batch[Position(f)].version ELSE Absent]

\* A full index that returns Ok leaves a store in which every reader agrees
\* with what was streamed into it: load_latest gives exactly those partitions,
\* both indexes describe exactly them, and partition_file_check is silent.
\* That must be so whatever an earlier crash left behind: a torn log line, a
\* half-removed index, a pack that is newer than its manifest.
FullIndexIsCoherent ==
    pc = "full_done" =>
        /\ ~DeltaUnreadable
        /\ LoadLatest = BatchGraph
        /\ ~NotIndexed /\ symbols.facts = SymbolFacts(BatchGraph)
        /\ ~PlanFails
        /\ \A f \in Files : ReverseDependencies(f) = GraphImporters(BatchGraph, f)
        /\ PartitionFileProblems = {}

\* compact() never changes what load_latest answers: not when it returns, not
\* at any step on the way, and so not when it dies between writing the
\* snapshot and emptying the log, which then replays onto its own effects.
CompactionKeepsGraph ==
    [][(pc \in {"compact_save", "compact_truncate"}) => LoadLatest' = LoadLatest]_vars

\* On a store with a snapshot or a log, a step of an incremental write changes
\* what load_latest answers for the file being replaced and for no other, and
\* then to the version just written.
ReplacementIsLocal ==
    [][(pc \in {"incr_open", "incr_delta", "incr_line", "incr_newline"} /\ Replay # EmptyGraph)
        => \A f \in Files : LoadLatest'[f] # LoadLatest[f] =>
                f \in BatchFiles' /\ LoadLatest'[f] = BatchGraph'[f]]_vars

\* While no operation failed half way, the manifest describes the partition
\* files exactly: partition_file_check has nothing to report.
ManifestMatchesFiles == Ready => PartitionFileProblems = {}

\* The graph the manifest announces.
ManifestGraph == [f \in Files |-> IF manifest[f] = Absent THEN Absent ELSE manifest[f].version]

\* A reader that goes through the manifest and meets records that are not
\* those the manifest was written with (a pack renamed under an old manifest)
\* does so only when partition_file_check reports a problem.
MisreadIsReported == LoadFromManifest # ManifestGraph => PartitionFileProblems # {}

\* Between operations the symbol index either declines or answers with the
\* symbols of the graph that load_latest returns (query symbols uses either).
SymbolAnswerIsCurrent ==
    Ready /\ ~NotIndexed => symbols.facts = SymbolFacts(LoadLatest)

\* A change of f makes the incremental planner add at least every file of the
\* current graph that imports f.
PlanCoversImporters ==
    Ready =>
        \A f \in Files : GraphImporters(LoadLatest, f) \subseteq ReverseDependencies(f)

\* An incremental write leaves the answer for the files it was not given alone.
IncrementalKeepsTheRest ==
    [][(pc \in {"incr_open", "incr_delta", "incr_line", "incr_newline"})
        => \A f \in Files \ BatchFiles' : LoadLatest'[f] = LoadLatest[f]]_vars

Replaced == INSTANCE PartitionMap WITH graph <- Replay

\* Snapshot and log implement the promised map, crashes included: Replay is
\* what load_latest computes from them before it considers the manifest.
ReplayIsPartitionMap == Replaced!Spec

\* In a store built by replacements alone the manifest is never the source: a
\* readable log and the snapshot hold everything.
LogIsTheGraph == ~DeltaUnreadable => LoadLatest = Replay
=============================================================================
