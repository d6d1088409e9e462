------------------------------ MODULE Exchange ------------------------------
(***************************************************************************)
(* A graph on its way through the formats of ACI: partitions are written   *)
(* to a pack, the pack is read back under a manifest (aci-store), the      *)
(* loaded graph is exported as JSONL and imported again (aci-export).      *)
(* Instead of from a pack the graph can come from SCIP or LSP documents.   *)
(* Between two stages a file may lose its end: a power loss, a full disk,  *)
(* an export that is killed.                                               *)
(***************************************************************************)
EXTENDS Pack, FiniteSets

CONSTANTS
    Magic,   \* PACK_MAGIC, a sequence of bytes
    Packs,   \* lists of partitions a full index may write, one per file
    Inputs   \* enrichment inputs: [format: {"scip", "lsp"}, documents: Seq(...)]

\* A walk visits every file once.
ASSUME PacksAssumption ==
    /\ Packs \subseteq Seq(Partitions)
    /\ \A w \in Packs : \A i, j \in DOMAIN w : w[i].file_id = w[j].file_id => i = j
    /\ Magic \in Seq(0 .. U8Max)

\* Documents, occurrences and paths are lists.
ASSUME InputsAssumption ==
    \A i \in Inputs :
        /\ i.documents \in Seq(Range(i.documents))
        /\ \A d \in Range(i.documents) :
                d.occurrences \in Seq(Range(d.occurrences)) /\ d.path \in Seq(Range(d.path))

VARIABLES
    pc,        \* the stage the graph is in
    written,   \* the partitions handed to the pack writer
    pack,      \* bytes of partitions/pack-00000.bin
    wanted,    \* the record numbers the manifest names, the first being 1
    rest,      \* bytes of the pack not read yet
    record,    \* number of the next record, or of the next document or line
    input,     \* the enrichment input being imported
    snapshot,  \* the GraphSnapshot in memory
    lines,     \* the JSONL file: whole lines
    torn,      \* whether half a line follows them
    imported   \* the GraphSnapshot import_jsonl builds

vars == <<pc, written, pack, wanted, rest, record, input, snapshot, lines, torn, imported>>
-----------------------------------------------------------------------------
(* Snapshots.                                                              *)

Holder(graph, file) == SelectInSeq(graph, LAMBDA p : p.file_id = file)

ReplacePartition_MutAppends(graph, p) == Append(graph, p)

\* GraphSnapshot::replace_partition.
ReplacePartition(graph, p) ==
    IF Holder(graph, p.file_id) = 0
    THEN Append(graph, p)
    ELSE [graph EXCEPT ![Holder(graph, p.file_id)] = p]

\* The JSONL records of a partition: its own, then one per fact.
PartitionLines(p) ==
    <<[type |-> "partition",
       fact |-> [p EXCEPT !.path = Lossy(@), !.nodes = <<>>, !.edges = <<>>, !.diagnostics = <<>>]]>>
    \o [i \in DOMAIN p.nodes |-> [type |-> "node", partition |-> p.file_id, fact |-> p.nodes[i]]]
    \o [i \in DOMAIN p.edges |-> [type |-> "edge", partition |-> p.file_id, fact |-> p.edges[i]]]
    \o [i \in DOMAIN p.diagnostics |->
            [type |-> "diagnostic", partition |-> p.file_id, fact |-> p.diagnostics[i]]]
JsonLines(graph) == FlattenSeq([i \in DOMAIN graph |-> PartitionLines(graph[i])])

FactsOf == [node |-> "nodes", edge |-> "edges", diagnostic |-> "diagnostics"]

ImportRecord_MutFirst(graph, line) ==
    IF line.type = "partition" THEN Append(graph, line.fact)
    ELSE IF graph = <<>> THEN graph
    ELSE [graph EXCEPT ![1][FactsOf[line.type]] = Append(@, line.fact)]

\* import_jsonl, one record: a fact goes to the first partition of that id that
\* has been read, and is dropped when there is none.
ImportRecord(graph, line) ==
    LET at == Holder(graph, line.partition) IN
    IF line.type = "partition" THEN Append(graph, line.fact)
    ELSE IF at = 0 THEN graph
    ELSE [graph EXCEPT ![at][FactsOf[line.type]] = Append(@, line.fact)]

\* What passes a test, in its order.
Where(list, Test(_)) == FlattenSeq([i \in DOMAIN list |-> IF Test(list[i]) THEN <<list[i]>> ELSE <<>>])

\* The projections keep the nodes with a symbol kind.
Symbols(p) == Where(p.nodes, LAMBDA n : n.symbol_kind # None)
KiteRecords(graph) ==
    FlattenSeq([i \in DOMAIN graph |->
        [j \in DOMAIN Symbols(graph[i]) |->
            [path |-> Symbols(graph[i])[j].file_id, name |-> Symbols(graph[i])[j].name,
             qualified_name |-> Symbols(graph[i])[j].qualified_name]]])
ScipDocuments(graph) ==
    [i \in DOMAIN graph |-> [relative_path |-> Lossy(graph[i].path), symbols |-> Symbols(graph[i])]]

\* The vertices of an LSIF dump: a document and then its symbols, numbered
\* through the whole file.
LsifEntries(p) ==
    <<[label |-> "document", content |-> Lossy(p.path)]>>
    \o [j \in DOMAIN Symbols(p) |-> [label |-> "resultSet", content |-> Symbols(p)[j].qualified_name]]

LsifVertex_MutCountsDocuments(vertices, entry) ==
    Append(vertices, [id |-> Len(SelectSeq(vertices, LAMBDA v : v.label = "document")) + 1,
                      label |-> entry.label, content |-> entry.content])
LsifVertex(vertices, entry) ==
    Append(vertices, [id |-> Len(vertices) + 1, label |-> entry.label, content |-> entry.content])
VerticesOf(entries) ==
    LET vertices[n \in 0 .. Len(entries)] ==
            IF n = 0 THEN <<>> ELSE LsifVertex(vertices[n - 1], entries[n])
    IN  vertices[Len(entries)]
LsifVertices(graph) == VerticesOf(FlattenSeq([i \in DOMAIN graph |-> LsifEntries(graph[i])]))
-----------------------------------------------------------------------------
(* Enrichment.  A deterministic id is the tuple of what is hashed.         *)

SpanKey(span) == IF span = None THEN None ELSE <<span[1], span[2]>>
FileId(document) == <<"file", document.file>>

\* A node is keyed by its qualified name where it has one, and by the byte
\* range of its span only.
SemanticNode(document, kind, name, qualified_name, span, format) ==
    [id |-> <<"node", document.file, kind, qualified_name, SpanKey(span)>>, kind |-> kind,
     language |-> "unknown", name |-> name, qualified_name |-> qualified_name,
     symbol_kind |-> IF kind = "symbol" THEN "unknown" ELSE None, file_id |-> FileId(document),
     span |-> span, provenance |-> format, confidence |-> IF format = "scip" THEN "exact" ELSE "high"]
SemanticEdge(kind, from, to, span, format) ==
    [id |-> <<"edge", kind, from, to, SpanKey(span)>>, kind |-> kind, from |-> from, to |-> to,
     span |-> span, provenance |-> format, confidence |-> IF format = "scip" THEN "exact" ELSE "high"]

\* The last segment of a symbol, or all of it when it ends in a separator.
SimpleName(symbol) == IF symbol.segment = None THEN symbol.text ELSE symbol.segment

\* Both formats count from zero; SCIP gives three numbers, or none.
ScipSpan(range) ==
    IF Len(range) < 3 THEN None
    ELSE <<0, 0, range[1] + 1, range[2] + 1, range[1] + 1, range[3] + 1>>
LspSpan(range) == <<0, 0, range[1] + 1, range[2] + 1, range[3] + 1, range[4] + 1>>

OccurrenceSpan(occurrence, format) ==
    IF format = "scip" THEN ScipSpan(occurrence.range) ELSE LspSpan(occurrence.range)
OccurrenceNode(document, occurrence, format) ==
    SemanticNode(document, "symbol", SimpleName(occurrence.symbol), occurrence.symbol.text,
                 OccurrenceSpan(occurrence, format), format)

\* SCIP names the file as the document spells it, LSP by the path that makes.
FileNode(document, format) ==
    IF format = "scip"
    THEN SemanticNode(document, "file", document.spelling, document.spelling, None, format)
    ELSE SemanticNode(document, "file", document.file, document.path, None, format)

EnrichedPartition_MutEdgeFromSymbol(document, format) ==
    LET node(i) == OccurrenceNode(document, document.occurrences[i], format) IN
    [file_id |-> FileId(document), path |-> document.path, language |-> "unknown",
     fingerprint |-> "empty", parse_time |-> 0, extraction_time |-> 0,
     nodes |-> [i \in DOMAIN document.occurrences |-> node(i)],
     edges |-> [i \in DOMAIN document.occurrences |->
                  SemanticEdge(IF document.occurrences[i].defines THEN "defines" ELSE "references",
                               FileNode(document, format).id, node(i).id, node(i).span, format)],
     diagnostics |-> <<>>]

\* One document: a file node, and per occurrence a symbol node and an edge to it.
EnrichedPartition(document, format) ==
    LET node(i) == OccurrenceNode(document, document.occurrences[i], format) IN
    [file_id |-> FileId(document), path |-> document.path, language |-> "unknown",
     fingerprint |-> "empty", parse_time |-> 0, extraction_time |-> 0,
     nodes |-> <<FileNode(document, format)>> \o [i \in DOMAIN document.occurrences |-> node(i)],
     edges |-> [i \in DOMAIN document.occurrences |->
                  SemanticEdge(IF document.occurrences[i].defines THEN "defines" ELSE "references",
                               FileNode(document, format).id, node(i).id, node(i).span, format)],
     diagnostics |-> <<>>]
-----------------------------------------------------------------------------
(* The stages.                                                             *)

PackBytes(partitions) == Magic \o FlattenSeq([i \in DOMAIN partitions |-> RecordBytes(partitions[i])])

NoInput == [format |-> "scip", documents |-> <<>>]

Init ==
    /\ \/ /\ pc = "writing" /\ written \in Packs /\ input = NoInput
       \/ /\ pc = "enriching" /\ written = <<>> /\ input \in Inputs
    /\ pack = IF pc = "writing" THEN Magic ELSE <<>>
    /\ wanted = {}
    /\ rest = <<>>
    /\ record = 1
    /\ snapshot = <<>>
    /\ lines = <<>>
    /\ torn = FALSE
    /\ imported = <<>>

\* PartitionWriter::write on the pack; an error gives up the whole index run,
\* and with it the unpublished pack.
WriteRecord ==
    /\ pc = "writing"
    /\ record \in DOMAIN written
    /\ IF Fits(written[record])
       THEN pack' = pack \o RecordBytes(written[record]) /\ record' = record + 1 /\ pc' = pc
       ELSE pack' = <<>> /\ pc' = "given up" /\ record' = record
    /\ UNCHANGED <<written, wanted, rest, input, snapshot, lines, torn, imported>>

PublishPack_MutCountsFromZero ==
    /\ pc = "writing"
    /\ record = Len(written) + 1
    /\ wanted' \in (SUBSET (0 .. Len(written) - 1)) \ {{}}
    /\ pc' = "stored"
    /\ UNCHANGED <<written, pack, rest, record, input, snapshot, lines, torn, imported>>

\* The manifest names any of the records: all of them after a full index,
\* fewer when files have been replaced since.
PublishPack ==
    /\ pc = "writing"
    /\ record = Len(written) + 1
    /\ wanted' \in (SUBSET DOMAIN written) \ {{}}
    /\ pc' = "stored"
    /\ UNCHANGED <<written, pack, rest, record, input, snapshot, lines, torn, imported>>

\* The end of the pack does not survive a power loss.
LosePackEnd ==
    /\ pc = "stored"
    /\ pack = PackBytes(written)
    /\ \E size \in 0 .. Len(pack) - 1 : pack' = SubSeq(pack, 1, size)
    /\ UNCHANGED <<pc, written, wanted, rest, record, input, snapshot, lines, torn, imported>>

\* read_packed_manifest_entries: the header ...
OpenPack ==
    /\ pc = "stored"
    /\ IF IsPrefix(Magic, pack)
       THEN pc' = "reading" /\ rest' = Drop(pack, Len(Magic)) /\ record' = 1
       ELSE pc' = "unreadable" /\ UNCHANGED <<rest, record>>
    /\ UNCHANGED <<written, pack, wanted, input, snapshot, lines, torn, imported>>

\* ... then one record after the other up to the last one that is wanted; a
\* file that ends before a record ends the loop without an error.
TakeRecord(read, graph) ==
    /\ pc = "reading"
    /\ \E i \in wanted : record <= i
    /\ pc' = IF read.outcome = "partition" THEN "reading"
             ELSE IF read.outcome = "end" THEN "loaded" ELSE "unreadable"
    /\ IF read.outcome = "partition"
       THEN rest' = read.rest /\ record' = record + 1 /\ snapshot' = graph
       ELSE UNCHANGED <<rest, record, snapshot>>
    /\ UNCHANGED <<written, pack, wanted, input, lines, torn, imported>>
WithRecord(read) == ReplacePartition(snapshot, read.partition)

ReadRecord_MutReadsAll == TakeRecord(ReadPartition(rest), WithRecord(ReadPartition(rest)))

ReadRecord ==
    TakeRecord(ReadPartition(rest),
               IF record \in wanted THEN WithRecord(ReadPartition(rest)) ELSE snapshot)
FinishReading ==
    /\ pc = "reading"
    /\ \A i \in wanted : record > i
    /\ pc' = "loaded"
    /\ UNCHANGED <<written, pack, wanted, rest, record, input, snapshot, lines, torn, imported>>

\* import_scip_enrichment and import_lsp_enrichment, one document.
ImportDocument ==
    /\ pc = "enriching"
    /\ record \in DOMAIN input.documents
    /\ snapshot' = ReplacePartition(snapshot, EnrichedPartition(input.documents[record], input.format))
    /\ record' = record + 1
    /\ pc' = IF record = Len(input.documents) THEN "loaded" ELSE pc
    /\ UNCHANGED <<written, pack, wanted, rest, input, lines, torn, imported>>

\* export_snapshot as JSONL; it may be stopped between any two bytes.
Export ==
    /\ pc = "loaded"
    /\ \E size \in 0 .. Len(JsonLines(snapshot)) :
            /\ lines' = SubSeq(JsonLines(snapshot), 1, size)
            /\ torn' \in IF size < Len(JsonLines(snapshot)) THEN BOOLEAN ELSE {FALSE}
    /\ pc' = "importing"
    /\ record' = 1
    /\ UNCHANGED <<written, pack, wanted, rest, input, snapshot, imported>>

ImportLine ==
    /\ pc = "importing"
    /\ record \in DOMAIN lines
    /\ imported' = ImportRecord(imported, lines[record])
    /\ record' = record + 1
    /\ UNCHANGED <<pc, written, pack, wanted, rest, input, snapshot, lines, torn>>
\* Half a line is not JSON.
FinishImport ==
    /\ pc = "importing"
    /\ record = Len(lines) + 1
    /\ pc' = IF torn THEN "refused" ELSE "imported"
    /\ UNCHANGED <<written, pack, wanted, rest, record, input, snapshot, lines, torn, imported>>

Next ==
    \/ WriteRecord \/ PublishPack \/ LosePackEnd
    \/ OpenPack \/ ReadRecord \/ FinishReading
    \/ ImportDocument
    \/ Export \/ ImportLine \/ FinishImport
Spec == Init /\ [][Next]_vars
-----------------------------------------------------------------------------
(* Properties.                                                             *)

Stages ==
    {"writing", "given up", "stored", "reading", "unreadable", "enriching", "loaded", "importing",
     "imported", "refused"}

\* A graph holds one partition per file; a partition is a record of its path and
\* lists of facts, whatever these are.
IsList(s) == Len(s) \in Nat /\ s = [i \in 1 .. Len(s) |-> s[i]]
IsPartition(p) ==
    /\ DOMAIN p = {"file_id", "path", "language", "fingerprint", "parse_time", "extraction_time",
                   "nodes", "edges", "diagnostics"}
    /\ p = [field \in DOMAIN p |-> p[field]]
    /\ IsList(p.path) /\ IsList(p.nodes) /\ IsList(p.edges) /\ IsList(p.diagnostics)
IsGraph(graph) ==
    /\ IsList(graph)
    /\ \A i \in DOMAIN graph : IsPartition(graph[i])
    /\ \A i, j \in DOMAIN graph : graph[i].file_id = graph[j].file_id => i = j

\* The stages and what is held in each (all variables of the formats).
TypeOK ==
    /\ pc \in Stages
    /\ Range(pack) \cup Range(rest) \subseteq 0 .. U8Max
    /\ wanted \subseteq DOMAIN written
    /\ record \in Nat \ {0}
    /\ IsGraph(snapshot)
    /\ torn \in BOOLEAN

\* The records of a pack that has lost its end, and that end cleanly.
EndsBetweenRecords ==
    \E n \in 0 .. Len(written) : pack = PackBytes(SubSeq(written, 1, n))

\* How many records up to a number are wanted.
Wanted(n) == Cardinality({i \in wanted : i <= n})

\* What the reader of a pack has in memory are the wanted partitions among the
\* records passed so far, each exactly as it was written; it never takes the
\* bytes of one record or field for those of another.  A whole pack is read to
\* the end.  One that lost its end is an error, or, if it ends between two
\* records, it gives the records it has (pack.rs, compact.rs, tags.rs, load.rs
\* of aci-store).  A partition whose string table outgrew its index is refused
\* by the writer, before any index wraps.
PackReadsWhatWasWritten ==
    /\ pc = "reading" =>
        /\ Len(snapshot) = Wanted(record - 1)
        /\ \A i \in wanted : i < record => snapshot[Wanted(i)] = Stored(written[i])
    /\ pc = "reading" /\ pack = PackBytes(written) =>
        rest = FlattenSeq([i \in 1 .. Len(written) - record + 1 |-> RecordBytes(written[record + i - 1])])
    /\ pc = "unreadable" => ~EndsBetweenRecords
    /\ pc = "loaded" /\ written # <<>> /\ (\E i \in wanted : record <= i) =>
        pack # PackBytes(written) /\ EndsBetweenRecords

\* Two graphs agree on everything but the facts the second has not yet.
Begun(whole, begun) ==
    /\ IsPrefix(begun.nodes, whole.nodes)
    /\ IsPrefix(begun.edges, whole.edges)
    /\ IsPrefix(begun.diagnostics, whole.diagnostics)
    /\ [begun EXCEPT !.nodes = whole.nodes, !.edges = whole.edges, !.diagnostics = whole.diagnostics]
         = [whole EXCEPT !.path = Lossy(@)]

\* JSONL is an interchange format without loss: the import of a whole export is
\* the exported graph.  An export that stopped is refused when it stopped within
\* a line; otherwise the import is a beginning of the graph in which all
\* partitions but the last are whole and no fact has changed its partition
\* (write_jsonl and import_jsonl).
ImportGivesBackTheGraph ==
    /\ pc \in {"importing", "imported"} =>
        /\ Len(imported) <= Len(snapshot)
        /\ \A i \in DOMAIN imported :
                /\ Begun(snapshot[i], imported[i])
                /\ i < Len(imported) => Begun(imported[i], [snapshot[i] EXCEPT !.path = Lossy(@)])
    /\ pc = "imported" /\ lines = JsonLines(snapshot) =>
        imported = [i \in DOMAIN snapshot |-> [snapshot[i] EXCEPT !.path = Lossy(@)]]

\* Every export names the same symbols in the same order, and no two vertices
\* of an LSIF dump share an id, over all of its documents (write_kitedb, the
\* SCIP arm of export_snapshot, write_lsif).
ExportsAgree ==
    pc = "loaded" =>
        LET scip == FlattenSeq([i \in DOMAIN snapshot |-> ScipDocuments(snapshot)[i].symbols])
            kite == KiteRecords(snapshot)
            sets == Where(LsifVertices(snapshot), LAMBDA v : v.label = "resultSet")
        IN  /\ Len(kite) = Len(scip) /\ Len(sets) = Len(scip)
            /\ \A i \in DOMAIN scip :
                    /\ kite[i].qualified_name = scip[i].qualified_name
                    /\ sets[i].content = scip[i].qualified_name
            /\ IsInjective([i \in DOMAIN LsifVertices(snapshot) |-> LsifVertices(snapshot)[i].id])

\* Documents imported so far, and the last one of each file among them.
DocumentsRead == SubSeq(input.documents, 1, record - 1)
LastOf(file) == SelectLastInSeq(DocumentsRead, LAMBDA d : FileId(d) = file)

\* A graph of semantic facts has one partition per file, that of the file's last
\* document, and every edge of it leads from a file node of the partition to a
\* node of the symbol it is about, as a definition exactly when the occurrence
\* says so (import_scip_enrichment, import_lsp_enrichment).
EnrichmentIsAnchored ==
    pc = "enriching" \/ (pc = "loaded" /\ written = <<>>) =>
        /\ IsInjective([i \in DOMAIN snapshot |-> snapshot[i].file_id])
        /\ {snapshot[i].file_id : i \in DOMAIN snapshot}
             = {FileId(DocumentsRead[i]) : i \in DOMAIN DocumentsRead}
        /\ \A i \in DOMAIN snapshot :
             LET p == snapshot[i]
                 last == DocumentsRead[LastOf(p.file_id)]
                 node(id) == {p.nodes[j] : j \in {k \in DOMAIN p.nodes : p.nodes[k].id = id}}
             IN  /\ Len(p.edges) = Len(last.occurrences)
                 /\ \A j \in DOMAIN p.edges :
                      LET e == p.edges[j] IN
                      /\ node(e.from) # {} /\ \A n \in node(e.from) : n.kind = "file"
                      /\ node(e.to) # {}
                      /\ \A n \in node(e.to) :
                            n.qualified_name = last.occurrences[j].symbol.text
                      /\ \E n \in node(e.to) : n.span = e.span
                      /\ e.kind = "defines" <=> last.occurrences[j].defines
=============================================================================
