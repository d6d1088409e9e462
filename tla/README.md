# Verification of aci

`aci` indexes a repository into a code graph. A full index extracts one *partition* (nodes,
edges, fingerprint) per source file and writes all of them into a store directory; an
incremental index replaces the partitions of changed files; a watch command does the latter
whenever files change; queries, diffs and exports read the store. This directory holds TLA+
models of the parts whose correctness depends on order, interleaving and crashes, the TLC runs
that check them on small instances, and TLAPS proofs of the results that matter most for every
instance.

Source references below are relative to `src/crates/`.

## Inventory

| component | state it keeps | operations | hard behaviour | correct when |
|---|---|---|---|---|
| graph store (`aci-store`: `write.rs`, `load.rs`, `manifest.rs`, `integrity.rs`) | the files of the store directory: pack, manifest, partition JSON files, delta log, snapshot | full write (stream, then `finish`), incremental write, `compact`, `load_latest`, `partition_file_check` | a crash or an I/O error between any two renames, appends and removals; what an earlier crash left is read by the next operation | what a reader answers is what the completed writes wrote; a damaged store is noticed or repaired |
| symbol and dependency indexes (`symbols.rs`, `dependencies.rs`, `shard_cache.rs`) | `symbols/`, `deps/`: 256 shards each and a path table | built beside a full write, published by remove-and-rename, looked up by name or by import stem | half-removed directories; indexes that are older than the log or the snapshot | an index answers with the current graph or declines |
| record codec (`compact.rs`, `pack.rs`, `tags.rs`) | none (bytes of one pack) | write and read header, record, varint, strings, tags | truncation, limits of varints, string indices and tags | a record read back is the record written, one that is cut off is an error, no bytes are taken for those of another field |
| index stream (`aci-indexer/src/pipeline.rs`, `summary.rs`, `discover.rs`) | worker threads, a bounded channel, the summary | discover, index a file, send, receive, hand to the writer, join | workers blocked on a full channel when the writer fails, panics, the end of the stream | the call returns; Ok means everything was received once |
| incremental planning (`incremental.rs`, `dependencies.rs`) | none | changed paths to changed files and importers | plans from a stale index | every importer of a changed file is in the plan |
| watcher and watch command (`aci-watch/src/lib.rs`, `aci-cli/src/watch.rs`) | an event channel per pass, the collected events, two clocks | register, receive, time out, filter, re-index, loop or end | edits between passes, events dropped at the end of one, endless events, files that are gone when their event is handled, `--once` | every file the store is behind on is accounted for; passes and `--once` end |
| index command (`aci-cli/src/index.rs`) | none | full index, `--changed` | composes stream and store | error or complete index |
| query engine (`aci-query/src/lib.rs`, `aci-store/src/graph.rs`) | adjacency lists of one loaded graph | symbol lookup, callers, callees, references, impact, bounded traversal | cycles against the depth bound, facts of equal weight | the answer is the one the edges define |
| diff (`aci-diff`) | two worktrees, two indexed graphs | check out, index both, compare keyed items, report, clean up | failure half way, renames, duplicate keys | every difference is reported once, no worktree is left behind |
| export and import (`aci-export`) | the graph being built | write JSONL, LSIF, SCIP, KiteDB; read JSONL, SCIP and LSP documents | an export that stops anywhere, facts without their partition, one file named by several documents | import of an export is the graph; a part of one is a part of the graph or refused |
| parser pool (`aci-adapters/src/tree_sitter.rs`) | idle parsers behind a lock, the extraction mode | take, parse with a time limit, reset, return, fall back to the scanner | concurrent workers, timeouts that leave a parse unfinished, grammars that do not load, panics with a parser out, a mode that changes meanwhile | one worker per parser, nothing of an earlier parse in it, every partition is of its own file |
| language adapters (`aci-adapters`) | a stack of open declarations per file | source text to partition, from a tree or line by line | nesting, blocks closed by indentation, names declared twice, syntax errors | every fact belongs to the declaration it stands in and leads to a node of the partition |
| core model (`aci-core`) | the graph types | ids, `replace_partition`, `prefer_fact`, spans | score ties | one partition per file id |
| other commands, output, site, docs, benchmarks | none | print | none | not checked |

The components interact as follows. `aci index` opens a full writer on the store, runs the index
stream with `PartitionWriter::write` as its sink and calls `finish` only if the stream returned
Ok. `aci index --changed` and `aci watch` ask the store (the dependency index, else the loaded
graph) which files to re-index, index them, and pass the partitions to `replace_partitions`.
`aci query symbols` asks the symbol index and falls back to the graph; all other readers call
`load_latest`. `aci diff` uses no store: it indexes two worktrees into memory and compares the two
graphs. Nothing locks the store.

## Modules

| module | what it is |
|---|---|
| `PartitionMap` | abstract: the graph is a map from files to partitions, a replacement changes one file |
| `GraphStore` | the store directory and every step of its three operations, readers as operators |
| `GraphStoreFailures` | `GraphStore` with a count of the operations that stopped half way and a memory of what an incremental write found when it began |
| `MCGraphStore`, `MCGraphStoreCrash` | the instances of the two that TLC checks |
| `GraphStoreProofs` | theorems about the two |
| `IndexRun` | abstract: a full index replaces the parts of the store one after the other, by a complete run only, and says ok when all are replaced, or error at any moment |
| `IndexStream` | the workers, the channel and the calling thread of `stream_path`, then the writer's `finish`, step by step |
| `MCIndexStream` | its instance |
| `IndexStreamProofs` | theorems about `IndexStream` |
| `Watch` | passes of the watch command, its clocks, and the world that edits files |
| `WatchProofs` | theorems about `Watch` |
| `DiffRun` | the diff command: refs, worktrees, guards, failures; what git answers and how two trees compare are parameters |
| `GraphDiff` | the comparison of two indexed trees and the summary of a report, as operators |
| `RefDiff` | `DiffRun` with the comparison of `GraphDiff`, and what a report promises |
| `MCRefDiff` | its instances |
| `RefDiffProofs` | theorems about `DiffRun`, for any comparison, and about what a report of `RefDiff` says |
| `Query` | symbol lookup and bounded traversal, one fact and one edge at a time |
| `MCQuery` | its instance |
| `QueryProofs` | theorems about `Query` |
| `Pack` | the codec: a partition to bytes and back, with every error of the reader, as operators |
| `Exchange` | a graph through pack, manifest, JSONL, or from SCIP and LSP documents, step by step; uses `Pack` |
| `MCExchange` | its instance |
| `PackProofs` | `PartitionIsReadBack`, and the lemmas about lists, numbers and tables it rests on |
| `ExchangeProofs` | theorems about `Exchange` |
| `ParserPool` | workers, pools, modes, limits, timeouts and panics; what a partition contains is left open |
| `ParserPoolProofs` | theorems about `ParserPool` |
| `Adapters` | the visitors and scanners of all adapters, as operators over trees and lines |
| `Extraction` | `ParserPool` with the partitions of `Adapters`, and the same facts defined without a stack |
| `MCExtraction` | its instance |

### GraphStore

A partition is a file and the version (fingerprint) it was extracted from. Each variable before
`pc` is one file or directory of the store; `pc`, `batch` and `loaded` are the memory of the
operation that is running. `PartitionWriter::finish` is one action per change a reader can see:
`PublishPack`, `RemoveSymbols`/`PublishSymbols`, `PublishManifest`, `RemoveDeps`/`PublishDeps`,
`RemoveSnapshot`, `FinishFull`. `remove_dir_all` unlinks shards in any order and number
(`UnlinkSymbolShards`, `UnlinkDepsShards`). `PartitionWriter::write` without a pack renames the
partition's JSON file (`WritePartitionFile`) and then appends one line to `delta.jsonl` in three
steps (`StartDeltaLine`, `CompleteDeltaRecord`, `EndDeltaLine`), because serde writes to the
unbuffered file piece by piece; `tail` says how the last line ends, and `"corrupt"` is an
unterminated line that was appended to. `Abort` is an I/O error or a kill between any two steps.
Temporary files are not state: each operation creates them anew. `BatchFiles` keeps a stream from
delivering a file twice; `IndexStream`'s `OneCopy` is why that is justified.

The version `v2` of every file imports every other file and the other versions import nothing
(`CrossImports`), so a write can add and remove an import edge.

### IndexStream

`todo` is what no worker has taken; rayon hands candidates out in any order. A failed send sets
`cancelled` (`try_for_each_with` stops taking items), a panic drops the rest of the batch the
worker was going through. `ProducerDone` is both "the last sender is gone" (`recv` fails) and
"the producer can be joined". The flag behind `cancelled` is treated as seen by all workers at
once; a worker that sees it late indexes one more file and fails to send it, which changes
nothing that is checked here because the answer is settled by then.

Only an Ok of `stream_path` reaches `PartitionWriter::finish` (`BeginFinish`). It replaces pack, symbol
index, manifest and dependency index and then removes the snapshot and empties the log: `StoreParts`, in
this order. An index is a directory that is removed before the new one is renamed (`RemoveDirectory`,
`RenewPart`). Every one of these calls has a `?` (`FinishFails`), so an error of the command may leave
the first few parts new, one index removed or half removed (`Gone`), and the rest as it was;
`PublishesWholeRuns` says that it is never anything else. What readers make of such a store is
`GraphStore`'s subject, which is why the parts hold no more here than the files they were made of.

### Watch

One tick is a unit of time; `quiet`, `left` and `timer` count ticks since the last event, to the
deadline, and to the end of the current `recv_timeout`. Any number of ticks may pass between two
steps of the command (a slow thread). A change (`Edit`, `Remove`, `PutBack`) makes an event when a
pass listens and adds the file to `missed` when none does; `EndPass` drops the channel and what is in
it. `missed` is a history variable. `Filtered` are the other paths under the root that get events:
directories, the files of the store, and whatever `path_candidate` refuses. `FilterFiles` keeps of a batch what is
neither one of them nor gone (`Kept`): `normalize_changed_paths`, `is_file` and the store's prefix in one. A
batch of which nothing is kept sends the command back to waiting, with `--once` too; that is the
exception `PassAndCommandEnd` makes. `ReadFiles` looks once more which files are there and adds files
that depend on them. Reading the files and writing the store are two steps, so a change can fall between any two of
the three.

### DiffRun, GraphDiff, RefDiff

`DiffRun` has one action per line of `diff_refs` and of `checkout_pair`. A guard is a value whose
destructor removes what it stands for: `guards` are the values that exist, `present` what exists in
the file system, `stuck` what a destructor failed to remove. `Fail` is the `?` of any step; `Drop`
runs the destructors in the order Rust runs them. `MoveRef` is somebody else committing or resetting
while the command runs.

In `GraphDiff` a tree maps a path to a file: its language, its lines of code, its declarations with their place, and
what it exports, calls and imports. `IndexPath` are the indexes that may come of a tree. A
partition is made from the syntax tree (`Parsed`: qualified names begin with the file's stem, the file itself is a
module) or from the lines (`Scanned`: bare names, the first line as span, a diagnostic, another quality).
Of the `Slow` files the parser may give up within its time, on one side only, and `Unread` ones may
be missing; so the index of a tree is not a function of it, and `IndexRef` picks any.

`Symbols` and `Dependencies` are the two maps of `SnapshotIndex`, `CompareRefs` the report. A symbol's key has the path
as git follows it, the language, the kind and the name below the file; its fingerprint the lines of its span
(the span itself where the source is gone) and the quality of the fact. The lines of a class hold its
methods, so changing a method changes the class around it. `Dotted` are the languages whose adapters join names with `.`
and not `::` (Rust, C, C++), which decides what `strip_file_module` finds. `GitNameStatus` is git's
answer: any pairing of similar removed and added files may be told as renames.

The summary ranks paths by the scores of `top_changes` and keeps the first `MaxTopChanges` of them; `TopPaths` are the
paths before which fewer come than the list holds.

Limits of this model. Extraction is in the default mode, with the scanner as fallback. Parser and scanner are taken to
see the same imports and exports. Provenance and confidence are one value, `quality`, since each way of
extraction has one of both. A file stem has no dot of its own: for `app.test.ts` the code keeps
`test` in the name, so its symbols change their key when it is renamed. A symbol of kind module has one key per file
(`$module`), so the identity of a module in `SymbolReportIsExact` is its file. Languages whose scanner qualifies names
without the file's module (Python's) are `ScopedScanners`; no run has one, because there the first part
of a scanned name is cut as if it were the module. Left out are `review_focus`, the notes, statistics and wording, and git's type changes and copies.

### Query

The order in which facts arrive is any (ids in the graph, shards in the index). `Pop` and `Visit` are
the outer and inner loop of `traverse_dependencies`; `outgoing` is the adjacency index. `known` are
the nodes the snapshot has a record of, which is what `filter_map` keeps of the answer.

### Pack and Exchange

A byte is a number below twice `Base`, the upper half of which has the continuation flag; `Groups`,
`LastGroup` and `U32Max` are the widths of u64 and u32. With 3 bits for 7, three bytes for ten and 9
for `u32::MAX` every limit of the code has a partition that meets it and one that passes it. Encoding
and decoding of a tag are two tables, as in the code. `ReadCompact` goes through the fields of a record
in the order of `read_binary` and stops at the first that cannot be read; `Valid` are the lookups of
`into_partition`.

In `Exchange` a full index writes some records and publishes the pack; `LosePackEnd` is what a power
loss may do to a file that was renamed without a sync; a reader takes the records that some manifest
names, one action each. The loaded graph is exported whole or up to any line (`Export`, `torn`) and
imported line by line. Or it is built by `ImportDocument` from SCIP or LSP documents. Ids are what is
hashed into them.

### ParserPool, Adapters, Extraction

`left` has, for every parser there is, the file whose parse it has not finished; `FinishParse` of a
parser with something left would give the tree of that file, which is what tree-sitter does and what
`ResetParser` prevents. `SetExtractionMode` may come at any moment; a file uses the mode of when it was
begun. `Panic` drops the worker's parser with its stack and loses the rest of the batch.

In `Adapters` a tree is the sequence of its nodes in document order with kind, parent, field and text,
and a line is what the scanner's patterns found in it: patterns and grammars are data. `VisitNode` is the
recursion of the visitors, `Enter` the arms of each language, `Open` and `CloseScope` the stack. The brace
languages differ by the tables of their configurations only, as in the code. `Extraction` compares
what comes out with `ScopesOf`, which gives each node the scope of its parent and knows no stack, and
for Python's scanner with the nearest line above that is further to the left.

## Runs

| run | question | bounds | expected |
|---|---|---|---|
| `store_crash` | does everything hold with a crash anywhere (`FullIndexIsCoherent`, `MisreadIsReported`, `CompactionKeepsGraph`, `ReplacementIsLocal`), and do index, manifest and files agree until something fails (`SymbolsOfTheCommandLine`, `FilesMatchUntilAFailure`, `ManifestKeepsTheRest`)? | 2 files, 2 versions, 1 operation that stops half way, any number of operations, replacements of the same file among them | pass |
| `store_log` | does a store of replacements implement `PartitionMap`? | 2 files, 2 versions, any number of crashes | pass |
| `store_keeps_rest` | does an incremental write keep the rest? | 2 files, 2 versions, no failure | violated |
| `store_plan_stale` | does a plan contain every importer? | as `store_keeps_rest` | violated |
| `stream` | does the stream return, completely or with an error, and does the store get nothing but complete runs (`PublishesWholeRuns`)? | 2 workers, channel of 4, 3 files with partitions and 1 of each other outcome | pass |
| `watch` | does a pass end, for a reason, does `--once` end, and is staleness accounted for? | 2 files, 2 versions each, 1 path that is filtered, debounce 2 ticks, deadline 3 ticks | pass |
| `watch_refreshes` | is the store current once changes settle? | as `watch` | violated |
| `diff` | is a report exact, of one pair of commits, and nothing left behind, is high risk shown, and are ranked files changed? | 2 commits (symmetric), every pair out of 12 trees of up to 2 files, one file that may be scanned and one that may be unread, a list of one path | pass |
| `diff_names` | is it exact when names are joined with `::`? | as `diff` | violated |
| `query` | is a traversal sound and complete, a lookup the best? | 6 nodes, every subset of 8 edges, depth 0 to 3; every subset of 7 facts in every order | pass |
| `exchange` | is what comes out of a pack, an export and an import what went in, and what is missing noticed? | 8 packs of up to 3 partitions, bytes of 3 bits and a flag, every cut, every manifest; 14 lists of up to 3 documents | pass |
| `extract` | are parsers not shared, answers of their own file, facts in their scope? | 2 workers, batches with a file of every grammar and of JSON, one too large, one whose grammar does not load | pass |

Why the bounds are enough. In the store two files give "the file written" and "the rest", two
versions give "old" and "new"; a pack of two records has a first and a last one, so a pack under
the wrong manifest can be too short, permuted, or of another version. One stopped operation
followed by any operations covers every damage a single crash leaves; `store_log` has no bound on
crashes, and the proofs have none either. In the stream six files are more than the channel holds,
so sends block; the failing writer meets a full channel with both workers in `send`. In `watch` the
deadline lies between one and two debounce intervals, so a pass ends because it was quiet after an early
event and at its deadline after a late one or none; versions stop at 2, touches, removals and returns do not, so events
and batches of nothing, of removed files or of a path that is no candidate, can go on for ever. The diff's trees hold
two classes with a method of the same name, two overloads of which one or the other changes, the same classes in
another order, under another name and in another language, a function below a nested module that others call,
a caller of it in a test and one that declares the name itself, a file with a syntax error and one of no known
language. With two commits every pair of trees is compared; the commits are interchangeable, since
nothing but their trees tells them apart and no property of the run is a liveness property. A list of one path
is cut as soon as two files differ.
The query's graph has a short and a long arm to one node, an edge back to the start and an edge of
another kind, and every part of it is tried: a node can be found late, early, twice or not at all.
The packs of `exchange` have tables of at most nine strings and of ten and eleven, where nine is the most
that can be counted, numbers of
one, two and three bytes and the largest of all, every option present and absent, a path that is not
UTF-8; a cut falls on every byte. The files of `extract` nest declarations three deep, declare a name
twice, call a method through its object, have a nameless class, and have syntax errors; with two
workers one parser is out while another is taken, times out, or is dropped by a panic.

Store and log runs check for deadlock, and so does `extract`, where the mode can always change. The
stream, the watch command, a diff, a query and an import end (`published`, `stopped` or `done`, `returned`,
`done`, `imported`), so their configurations switch the deadlock check off; `StreamReturns` and
`PassAndCommandEnd` say instead that the two which run concurrently do not hang.

Fairness. `IndexStream!FairSpec` assumes weak fairness of the calling thread and of each worker:
they are operating-system threads, `index_file` terminates on every file (parsing has a time
limit), and a panic is an allowed outcome. `Watch!FairSpec` assumes weak fairness of the command and
that time passes; nothing obliges the world to edit or to stop editing. The store runs need none.

## What the runs found

Four sentences of the repository's own documents do not hold; PROJECT.json quotes them.

- `IncrementalKeepsTheRest`: after a full index there is no snapshot, so the first record in
  `delta.jsonl` makes `load_latest` return the contents of the log and nothing else (`load.rs:35`).
- `PlanCoversImporters`: incremental writes leave `deps/` alone and the planner trusts it.
- `ChangesAreRefreshed`: edits made while no pass is listening produce no event and stay unindexed.
- `SymbolReportIsExact` for names joined with `::`: `strip_file_module` finds no dot, the identity of
  a method loses its class, and of two methods of one name the report sees the last one only. For
  names joined with dots the property holds, and `diff` checks it. It compares text and quality of the last symbol
  of each path, language, kind and name, which is what docs/diff.md lists; of overloads only the last counts.

Known limits. These are true of the code; the properties are stated so that they say what holds beside
them.

- A process killed while it appends to `delta.jsonl` leaves a line that makes every load an error until a
  full index (`write.rs:109`); `FullIndexIsCoherent` says that one repairs it.
- A pack that lost its end exactly between two records reads as a shorter pack (`load.rs:84`).
  `PackReadsWhatWasWritten` allows that case and no other; `partition_file_check` reports it.
- `compact()` after an incremental write empties the log and leaves the symbol index as it was.
  `SymbolsOfTheCommandLine` therefore speaks of stores without a snapshot: the command line never compacts.
- A reader that has read `snapshot.json` before a compaction empties the log sees the graph of the previous
  compaction, since the log is read second (`load.rs:18`). Readers are instantaneous in `GraphStore`.
- The facts of a file that is removed for good stay in the store until a full index (`aci-cli/src/watch.rs:81`).
- A SCIP range of four numbers is read as if it had three (`aci-export/src/lib.rs:394`); `ScipSpan` does
  the same, and no property is about the end of such a span.
- `impact_from_files` finds no importer, because import edges end in package nodes that carry no file
  (`aci-query/src/lib.rs:192`, `helpers.rs:109`).

## Proofs

`tlapm` checks every obligation. The assumptions are `ConstantsAssumption`, `FailuresAssumption`,
`StreamAssumption`, `WatchAssumption`, `QueryAssumption`, `PoolAssumption`, `TreesAssumption` and
`InputsAssumption` (types of the constants), `WidthsAssumption`, `TagsAssumption`, `AbsenceAssumption` and
`PacksAssumption` (of the codec, see below), and `ComparisonAssumption`: in `RefDiff` the parameters
of `DiffRun` are git's answer, the indexer and the comparison of `GraphDiff`. `TreesAssumption` says that trees have finitely
many files and these finitely many declarations and imports, `MaxTopChangesAssumption` that a list has room for one path. TLC evaluates them on each run. They
are as weak as the instances allow: sets of files, versions, trees, documents and nodes may be infinite.

- **Store.** `TypeInv` adds to `TypeOK` that a pack and a batch hold no file twice and that a log
  line has a partition in hand; without the first, "the record of f" is not a function.
  `CompactionKeepsGraph` follows from `CompactInv`: until the snapshot is saved memory holds what
  `load_latest` answers, afterwards replaying the log onto the snapshot changes nothing
  (`OverlayIdempotent`). `FullIndexIsCoherent` follows from `FullInv`, which says for each step of
  `finish` which files are already made from this batch; it mentions no earlier state, which is why
  earlier crashes do not matter. `ReplayIsPartitionMap` and `LogIsTheGraph` follow from `LogInv`:
  every file the manifest names is in the log or the snapshot. The refinement maps each completed
  record to one `Replace` and everything else to a stutter. `ReplacementIsLocal` looks at the one
  step that a reader can see, the end of a log record: the last record of the log is the last
  partition of the batch (`PositionOfBatchFile`), and every other file reads as before (`AppendKeeps`).
  `MisreadIsReported` needs no invariant beyond the types: when every entry of a manifest leads to a
  record, or a JSON file, of its own file and version, no record can be read through the entry of
  another file, and the reader gets what the manifest announces (`NoProblemMeansNoMisread`).
- **Store without failures** (`GraphStoreFailures`). `BoundedSpec` refines `Spec`
  (`BoundedRefinesSpec`), so all of the above holds of it. `ManifestKeepsTheRest` compares the store after an
  incremental write with the one it found, `before`: the write overwrites JSON files of earlier replacements long before
  it patches the manifest, so the store in between has problems that it did not begin with. `Remembered` says that
  until then the entries outside the batch read as they did. `JsonIsWritten`: when the manifest
  is patched, the JSON file of every partition of the batch is there, so the patched manifest
  reads it and neither a record of the old pack nor an older file.
  `FilesMatchUntilAFailure` and `SymbolsOfTheCommandLine` are not inductive: the first says nothing
  of the middle of an operation (`FilesInv`: the files outside the running batch agree), the second
  nothing of why an idle store without a snapshot may have its symbol index used (`SymbolsInv`). It
  turns out that such a store has either just been fully indexed or has a log, and with a log the lookup declines.
- **Stream.** `OneCopy` is inductive with the types. `StreamInv` adds `Accounted` (a candidate is
  somewhere or the run is already lost), `Shut`, `Ended` and `Answered` (what each phase says of
  the producer); with it "ok" implies that everything was written, so each renewed part of the store holds the wanted partitions:
  the steps of `finish` are `IndexRun`'s `Remove`, `Replace`, `Fail` and `Succeed` (`FinishStep`), and whatever
  goes wrong before is a `Fail` that leaves the store as it was. `SummaryIsComplete` adds `Summed`: as long as nothing went wrong, the summary
  counts the candidates that are in no other place of the stream.
- **Watch.** `QuietOrLate` rests on the timer being set to the smaller of two bounds, one of which
  is a whole debounce interval (`TimerFits`); `StaleIsExplained` on what `read` holds between reading and
  writing (`ReadIsCurrent`), for any set of files edited, removed and put back at any moment.
- **Diff.** `DiffInv` says for each phase what is already settled: the commits, the file list, what is
  in the worktrees and in the indexes. `Guarded` says that what exists is guarded or stuck, from which
  `NothingLeftBehind` follows. None of this uses `ComparisonAssumption`, so
  `ReportIsOfResolvedPair` holds for every comparison. With it a report is `CompareRefs` of an index of each tree
  and git's list (`ReportIsComparison`), and the other four are facts about that operator for any two trees and any of
  their indexes.
  `RankedFilesChanged`: a file git does not list is the same on both sides, and nothing is renamed to
  it (`UntouchedFile`). If it was also indexed alike, or on neither side (`SamePartition`), a key of it has one entry on
  both sides, the last of the same declarations (`LastOfIsThere`, `UntouchedSymbol`), and the same
  dependencies; so what was reported lies elsewhere (`SymbolsAreTouched`, `DependenciesAreTouched`).
  `HighRiskIsShown`: only a removed public symbol is high (`HighSymbols`), so both lists of risks agree
  (`HighOverall`). For the cut, scores have to be numbers (`ScoresAreNumbers`), which needs that every list that is
  counted is finite (`IndexIsFinite` to `RankedPathsAreFinite`). A path outside the list has as many
  paths before it as the list holds; one in the list with a lower score would have all of those and the path itself before it
  (`CutPaths`). `SymbolReportIsExact`: the key of a symbol
  stands for its identity (`KeyOfSymbol`, `KeysAreIdentities`, `PlacesOfKey`) and so does its
  summary (`KeyOfSummary`), so each side holds one entry for it, that of the last symbol, overloads or not
  (`OneSide`), and `CompareSymbols` says of that entry what text and quality say (`ExactChange`). This last theorem has one
  hypothesis, `DottedOnly`: the languages indexed join names with dots and their scanners leave names bare. The first half is
  necessary, as `diff_names` shows; the second leaves out Python's scanner.
- **Query.** `SearchInv` gives every entry of the queue a walk as long as its depth (`WalkExtends`);
  `FactInv` says that the fact kept so far is a best one of those looked at, and `ScoreOrder` that ten
  times a rank outweighs every confidence. `TraversalIsComplete` follows from `BreadthFirstInv`: the
  queue is ordered by depth in at most two levels, and there is a set of entries, those the queue ever
  held, that contains the start and, with each entry that was expanded, one for every neighbour
  at most one level deeper. That set is in no variable; the invariant says that some such set exists. A walk
  to a node that is missed would have a first node that is missed (`NothingIsMissed`).
- **Parser pool.** `Inv` is `TypeOK`, `NotShared`, `Clean` and `Sourced`: what a worker has in hand comes
  from the file it is working on, which needs that the parser it came from had nothing left. `Bounded`
  counts parsers against workers and follows by one lemma per way in which the set of holders changes.
  `AnswerIsOfItsSource` follows from `Inv` and `FileInv`, which says of each file where it is. The theorems
  hold for any finite number of workers, files and grammars and for every mode and limit.
- **Import.** `EnrichmentIsAnchored` follows from `EnrichmentInv`: the graph in memory mirrors the
  documents read so far (`Mirrors`), one partition per file, that of the file's last document. One more
  document replaces the partition of its file or adds one (`OneMoreDocument`, `LastOfMore`), and the
  partition of one document leads from its file to its symbols whatever the document says (`EnrichedIsAnchored`).
- **Export and back.** `ImportGivesBackTheGraph` follows from `ImportInv`: after n lines there are the first
  partitions of the graph, all whole but the last, which is cut after so many nodes, edges and diagnostics
  that its lines make up n (`Progress`). A line is then always the next fact of that partition, or the next
  partition, and goes where it belongs because no two partitions have one file (`OneLineMore`,
  `BeginningShape`). Which line is which comes from what `FlattenSeq` makes of a list of lists: each of them
  at its place (`Flattened`). All this needs that memory holds a graph, a list of partitions with distinct
  files, whatever it was made from: `DocumentsInv` says so of documents and `PackInv` of a pack, so the theorem has no
  hypothesis. Without them it is `AnyGraphComesBack`.
- **Projections.** `ExportsAgree` compares flattened lists. Lists of the same lengths are placed alike
  (`PlacedAlike`), which settles KiteDB against SCIP. LSIF numbers its vertices in order (`VerticesAreNumbered`), and
  its result sets are picked from lists that each begin with a document, so they lie where the symbols do
  (`PickedInTurn`). Every place of a flattened list is a place of one of the lists (`Somewhere`).
- **Codec.** `PartitionIsReadBack`, in `PackProofs`: let a partition fit (`write_len` refused nothing) and let some bytes agree
  with its record as far as both go. The reader then gives back the partition and the bytes after it, or an
  error if they are fewer than the record, or the end if there are none. It goes from the bottom up. A number is
  worth the digits it is written in (`Weights`, `WorthOfVarInt`), its last byte is the first without the flag
  (`VarIntShape`), and so it is read back (`VarIntIsRead`). `Encodes(field, bytes, value)` says that reading
  `field` from anything that agrees with `bytes` gives `value` and what is left, or fails where `bytes` are not all
  there; it holds of every field (`ByteField` to `SpanField`), then of a row of fields (`RowIsRead`) and of a
  counted list of rows (`RowsAreRead`). The string table holds every string once at an index that leads back to it
  (`TableHolds`, `IndexLeadsBack`), the two tables of a tag agree (`TagsAgree`), and every string a fact mentions is
  in the table (`StringTableCovers`), so expansion undoes compaction (`CompactLeadsBack`).
- **Pack.** `PackInv` has a part per stage. `WritingInv`: the file is the records so far, and they fit. `StoredInv`:
  the stored bytes begin the records of a list that fits. `ReadingInv`: what is left to read starts at the next
  record, and memory is `Gathered`, the wanted partitions among those passed, in order. `EndInv`: a refusal or an
  early end says where the bytes end. One step of the reader meets a whole record, the beginning of one, or nothing
  (`NextRecordIsRead`), which `PartitionIsReadBack` decides. `PackReadsWhatWasWritten` and `TypeOK` follow.

`WidthsAssumption` orders the widths as the code's types are ordered; any base, any number of groups and any
limits will do. `TagsAssumption` leaves the largest byte to an absent option. `AbsenceAssumption` says that `None` and an
error are no values. `PacksAssumption` says that an index run writes partitions, one per file: a
file's id is made of its path and a walk meets a path once.

No operator is proved by induction over data. Where an argument needs a first or a last element (the last
declaration of a key, the last document of a file, the first missed node of a walk), a least element
of a finite or well-founded set takes its place (`LastPlace`, `FirstPlace`, `LastOfIsThere`, `LeastNat`). So it does
for recursive functions: the least prefix for which `FlattenSeq` is not defined (`FlatteningExists`), or the least number
for which `VarInt` is not (`Strongly`), does not exist.

Only model-checked:

- the liveness properties `StreamReturns` and `PassAndCommandEnd`, which are out of the prover's reach;
- `FactsAreInScope`: the visitor is a recursion over the nodes of a tree.

## Not modelled, and why

- Detection of a file's language and what the scanners' patterns recognise in a line: functions of text
  without state; they are data here. So are the grammars and the compilation of their queries, which
  only tests use.
- Two processes on one store, and a reader of several steps: nothing in the code orders them, so there
  is no promise of the code to compare with beyond the limits above.
- Partition JSON files lost by a power loss: the crashes of `GraphStore` keep every completed write. The
  pack, whose loss of an end the reader has code for, is in `Exchange`.
- `index_path` and `summarize_path`, which are loops over `index_file` without a channel; the filters and the printing
  of the query, bench and export commands; argument parsing, output, site and scripts.

## Plan

1. `StoreProcesses`: a writer and a reader whose load takes several steps, on one store; which answers it
   may get while incremental writes overlap with it.
2. `GraphStore` with unsynced writes that a power loss undoes.
3. The remaining questions of the query engine, and import stems of incremental planning.
4. Proofs: the refinements of `store_log` and `stream` carried over to `GraphStoreFailures`.
