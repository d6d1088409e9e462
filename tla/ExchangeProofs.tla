--------------------------- MODULE ExchangeProofs ---------------------------
(***************************************************************************)
(* Proofs about Exchange: what the import of SCIP and LSP documents makes, *)
(* for any documents in any order, that an export in JSONL, whole or       *)
(* stopped, gives back any graph it was made of, that a pack gives back    *)
(* what was written to it, and that the exports name the same symbols.     *)
(***************************************************************************)
EXTENDS Exchange, PackProofs

\* The partition of a file in a graph, where there is one.
LEMMA HolderHolds ==
    ASSUME NEW S, NEW graph \in Seq(S), NEW file
    PROVE  \/ /\ Holder(graph, file) = 0
              /\ \A i \in DOMAIN graph : graph[i].file_id # file
           \/ /\ Holder(graph, file) \in DOMAIN graph
              /\ graph[Holder(graph, file)].file_id = file
<1> DEFINE I == {i \in 1 .. Len(graph) : graph[i].file_id = file}
<1>1. Holder(graph, file) = IF I # {} THEN Min(I) ELSE 0
    BY DEF Holder, SelectInSeq
<1>2. DOMAIN graph = 1 .. Len(graph) /\ Len(graph) \in Nat
    OBVIOUS
<1>3. CASE I = {}
    BY <1>1, <1>2, <1>3
<1>4. CASE I # {}
    <2>1. I \in SUBSET (1 .. Len(graph))
        OBVIOUS
    <2>2. PICK m \in I : \A i \in I : m <= i
        <3> HIDE DEF I
        <3> QED BY <1>2, <1>4, <2>1, FirstPlace
    <2>3. Min(I) \in I
        <3> HIDE DEF I
        <3> QED BY <2>2 DEF Min
    <2> QED BY <1>1, <1>2, <1>4, <2>3
<1>5. QED
    BY <1>3, <1>4

\* The last of several documents of one file.
LastIn(documents, file) == SelectLastInSeq(documents, LAMBDA d : FileId(d) = file)

\* It is one of them.
LEMMA LastIsThere ==
    ASSUME NEW S, NEW documents \in Seq(S), NEW i \in DOMAIN documents
    PROVE  LastIn(documents, FileId(documents[i])) \in DOMAIN documents
<1> DEFINE file == FileId(documents[i])
           I == {k \in 1 .. Len(documents) : FileId(documents[k]) = file}
<1>1. LastIn(documents, file) = IF I # {} THEN Max(I) ELSE 0
    BY DEF LastIn, SelectLastInSeq
<1>2. i \in I /\ I \in SUBSET (1 .. Len(documents)) /\ Len(documents) \in Nat
    OBVIOUS
<1> HIDE DEF I, file
<1>3. PICK m \in I : \A k \in I : k <= m
    BY <1>2, LastPlace
<1>4. Max(I) \in I
    BY <1>3 DEF Max
<1>5. QED
    BY <1>1, <1>2, <1>4 DEF file

\* One more document is the last one of its file, and of no other.
LEMMA LastOfMore ==
    ASSUME NEW S, NEW documents \in Seq(S), NEW d \in S, NEW file
    PROVE  LastIn(Append(documents, d), file)
                = IF file = FileId(d) THEN Len(documents) + 1 ELSE LastIn(documents, file)
<1> DEFINE more == Append(documents, d)
           n == Len(documents)
           I == {k \in 1 .. n : FileId(documents[k]) = file}
           J == {k \in 1 .. n + 1 : FileId(more[k]) = file}
<1>1. n \in Nat /\ Len(more) = n + 1 /\ more[n + 1] = d /\ \A k \in 1 .. n : more[k] = documents[k]
    OBVIOUS
<1>2. LastIn(documents, file) = IF I # {} THEN Max(I) ELSE 0
    BY DEF LastIn, SelectLastInSeq
<1>3. LastIn(more, file) = IF J # {} THEN Max(J) ELSE 0
    BY <1>1 DEF LastIn, SelectLastInSeq
<1> HIDE DEF more, n
<1>4. CASE file = FileId(d)
    <2>1. n + 1 \in J /\ J \in SUBSET (1 .. n + 1)
        BY <1>1, <1>4
    <2> HIDE DEF J
    <2>2. Max(J) = n + 1
        <3>1. \A y \in J : n + 1 >= y
            BY <1>1, <2>1
        <3>2. Max(J) \in J /\ \A y \in J : Max(J) >= y
            BY <2>1, <3>1 DEF Max
        <3>3. PICK m \in J : m = Max(J) /\ m >= n + 1
            BY <2>1, <3>2
        <3>4. m \in 1 .. n + 1
            BY <2>1
        <3> QED BY <1>1, <3>3, <3>4
    <2> QED BY <1>3, <1>4, <2>1, <2>2 DEF more, n
<1>5. CASE file # FileId(d)
    <2>1. I = J
        BY <1>1, <1>5
    <2> HIDE DEF I, J
    <2> QED BY <1>2, <1>3, <1>5, <2>1 DEF more
<1>6. QED
    BY <1>4, <1>5
-----------------------------------------------------------------------------
\* The edges of a partition lead from a file node of it to nodes of the symbols
\* the occurrences of its document name.
Anchored(p, document) ==
    LET node(id) == {p.nodes[j] : j \in {k \in DOMAIN p.nodes : p.nodes[k].id = id}}
    IN  /\ Len(p.edges) = Len(document.occurrences)
        /\ \A j \in DOMAIN p.edges :
             LET e == p.edges[j] IN
             /\ node(e.from) # {} /\ \A n \in node(e.from) : n.kind = "file"
             /\ node(e.to) # {}
             /\ \A n \in node(e.to) : n.qualified_name = document.occurrences[j].symbol.text
             /\ \E n \in node(e.to) : n.span = e.span
             /\ e.kind = "defines" <=> document.occurrences[j].defines

\* What is imported for one document is anchored.
LEMMA EnrichedIsAnchored ==
    ASSUME NEW d, d.occurrences \in Seq(Range(d.occurrences)), NEW format
    PROVE  Anchored(EnrichedPartition(d, format), d)
<1> DEFINE p == EnrichedPartition(d, format)
           file == FileNode(d, format)
           symbol(i) == OccurrenceNode(d, d.occurrences[i], format)
           node(id) == {p.nodes[j] : j \in {k \in DOMAIN p.nodes : p.nodes[k].id = id}}
<1>1. PICK n \in Nat : n = Len(d.occurrences) /\ DOMAIN d.occurrences = 1 .. n
    OBVIOUS
<1>2. /\ DOMAIN p.nodes = 1 .. n + 1
      /\ p.nodes[1] = file
      /\ \A j \in 1 .. n : p.nodes[j + 1] = symbol(j)
    BY <1>1 DEF EnrichedPartition
<1>3. /\ DOMAIN p.edges = 1 .. n /\ Len(p.edges) = n
      /\ \A j \in 1 .. n : p.edges[j] = SemanticEdge(IF d.occurrences[j].defines THEN "defines" ELSE "references",
                                                    file.id, symbol(j).id, symbol(j).span, format)
    BY <1>1 DEF EnrichedPartition
<1> HIDE DEF p
<1>4. file.kind = "file" /\ file.id[3] = "file"
    BY DEF FileNode, SemanticNode
<1>5. \A j : /\ symbol(j).kind = "symbol" /\ symbol(j).id[3] = "symbol"
              /\ symbol(j).qualified_name = d.occurrences[j].symbol.text
              /\ symbol(j).id[4] = d.occurrences[j].symbol.text
    BY DEF OccurrenceNode, SemanticNode
<1> HIDE DEF file, symbol
<1>6. \A k \in DOMAIN p.nodes : p.nodes[k] = file \/ \E j \in 1 .. n : p.nodes[k] = symbol(j)
    <2>1. ASSUME NEW k \in 1 .. n + 1, k # 1 PROVE k - 1 \in 1 .. n /\ p.nodes[k] = symbol(k - 1)
        <3>1. k - 1 \in 1 .. n /\ (k - 1) + 1 = k
            BY <2>1
        <3> QED BY <1>2, <3>1
    <2> QED BY <1>2, <2>1
<1>7. ASSUME NEW j \in 1 .. n
      PROVE  LET e == p.edges[j] IN
             /\ node(e.from) # {} /\ \A x \in node(e.from) : x.kind = "file"
             /\ node(e.to) # {}
             /\ \A x \in node(e.to) : x.qualified_name = d.occurrences[j].symbol.text
             /\ \E x \in node(e.to) : x.span = e.span
             /\ e.kind = "defines" <=> d.occurrences[j].defines
    <2> DEFINE e == p.edges[j]
    <2>0. e = SemanticEdge(IF d.occurrences[j].defines THEN "defines" ELSE "references",
                           file.id, symbol(j).id, symbol(j).span, format)
        BY <1>3
    <2> HIDE DEF e
    <2>1. e.from = file.id /\ e.to = symbol(j).id /\ e.span = symbol(j).span
        BY <2>0 DEF SemanticEdge
    <2>2. e.kind = "defines" <=> d.occurrences[j].defines
        BY <2>0 DEF SemanticEdge
    <2>3. file \in node(e.from) /\ symbol(j) \in node(e.to)
        <3>1. 1 \in DOMAIN p.nodes /\ j + 1 \in DOMAIN p.nodes
            BY <1>2
        <3> QED BY <1>2, <2>1, <3>1
    <2>4. ASSUME NEW x \in node(e.from) PROVE x.kind = "file"
        BY <1>4, <1>5, <1>6, <2>1
    <2>5. ASSUME NEW x \in node(e.to) PROVE x.qualified_name = d.occurrences[j].symbol.text
        BY <1>4, <1>5, <1>6, <2>1
    <2> HIDE DEF node, e
    <2>6. QED
        BY <2>1, <2>2, <2>3, <2>4, <2>5 DEF e
<1> HIDE DEF node
<1>8. Anchored(p, d)
    BY <1>1, <1>3, <1>7 DEF Anchored, node
<1>9. QED
    BY <1>8 DEF p
-----------------------------------------------------------------------------
\* A graph that holds, once each, the partitions of the last documents of their
\* files, and no others.
Mirrors(graph, documents, format) ==
    /\ \A i, j \in DOMAIN graph : graph[i].file_id = graph[j].file_id => i = j
    /\ \A k \in DOMAIN documents : \E i \in DOMAIN graph : graph[i].file_id = FileId(documents[k])
    /\ \A i \in DOMAIN graph :
            /\ \E k \in DOMAIN documents : graph[i].file_id = FileId(documents[k])
            /\ graph[i] = EnrichedPartition(documents[LastIn(documents, graph[i].file_id)], format)

\* The partitions of some documents.
PartitionsOf(documents, format) == {EnrichedPartition(d, format) : d \in documents}

\* One more document leaves a list of such partitions.
LEMMA StaysAList ==
    ASSUME NEW D, NEW d \in D, NEW format, NEW graph \in Seq(PartitionsOf(D, format))
    PROVE  /\ ReplacePartition(graph, EnrichedPartition(d, format)) \in Seq(PartitionsOf(D, format))
           /\ DOMAIN graph \subseteq DOMAIN ReplacePartition(graph, EnrichedPartition(d, format))
<1> DEFINE p == EnrichedPartition(d, format)
           P == PartitionsOf(D, format)
           h == Holder(graph, p.file_id)
<1>1. p \in P
    BY DEF PartitionsOf
<1>2. ReplacePartition(graph, p) = IF h = 0 THEN Append(graph, p) ELSE [graph EXCEPT ![h] = p]
    BY DEF ReplacePartition
<1>3. h = 0 \/ h \in DOMAIN graph
    <2> HIDE DEF p
    <2> QED BY HolderHolds
<1> HIDE DEF p, P, h
<1>4. graph \in Seq(P)
    BY DEF P
<1>5. ReplacePartition(graph, p) \in Seq(P) /\ DOMAIN graph \subseteq DOMAIN ReplacePartition(graph, p)
    BY <1>1, <1>2, <1>3, <1>4
<1>6. QED
    BY <1>5 DEF p, P

\* One more document is mirrored: its partition replaces that of an earlier
\* document of its file, wherever that one is.
LEMMA OneMoreDocument ==
    ASSUME NEW D, NEW documents \in Seq(D), NEW d \in D, NEW format,
           NEW graph \in Seq(PartitionsOf(D, format)), Mirrors(graph, documents, format)
    PROVE  Mirrors(ReplacePartition(graph, EnrichedPartition(d, format)), Append(documents, d), format)
<1> DEFINE p == EnrichedPartition(d, format)
           next == ReplacePartition(graph, p)
           more == Append(documents, d)
           n == Len(documents)
           f == FileId(d)
           h == Holder(graph, f)
<1>1. p.file_id = f
    BY DEF EnrichedPartition
<1>2. next = IF h = 0 THEN Append(graph, p) ELSE [graph EXCEPT ![h] = p]
    BY <1>1 DEF ReplacePartition
<1>3. \/ h = 0 /\ \A i \in DOMAIN graph : graph[i].file_id # f
      \/ h \in DOMAIN graph /\ graph[h].file_id = f
    BY HolderHolds
<1>4. /\ n \in Nat /\ DOMAIN documents = 1 .. n /\ DOMAIN more = 1 .. n + 1
      /\ more[n + 1] = d /\ \A k \in 1 .. n : more[k] = documents[k]
    OBVIOUS
<1>5. LastIn(more, f) = n + 1
    BY LastOfMore
<1>6. ASSUME NEW k \in DOMAIN documents, FileId(documents[k]) # f
      PROVE  /\ LastIn(more, FileId(documents[k])) = LastIn(documents, FileId(documents[k]))
             /\ more[LastIn(more, FileId(documents[k]))] = documents[LastIn(documents, FileId(documents[k]))]
    <2>1. LastIn(more, FileId(documents[k])) = LastIn(documents, FileId(documents[k]))
        BY <1>6, LastOfMore
    <2>2. LastIn(documents, FileId(documents[k])) \in 1 .. n
        BY <1>4, LastIsThere
    <2> QED BY <1>4, <2>1, <2>2
<1>7. PICK m \in Nat : DOMAIN graph = 1 .. m /\ m = Len(graph)
    OBVIOUS
<1> HIDE DEF p, more, n, f, h
\* Where the partition goes, and that all others stay.
<1>8. PICK at \in DOMAIN next :
            /\ next[at] = p
            /\ \A i \in DOMAIN next : i # at => i \in DOMAIN graph /\ next[i] = graph[i] /\ graph[i].file_id # f
            /\ \A i \in DOMAIN graph : i \in DOMAIN next
            /\ \A i \in DOMAIN graph : graph[i].file_id # f => i # at
    <2>1. CASE h = 0
        <3>1. next = Append(graph, p)
            BY <1>2, <2>1
        <3>2. \A i \in DOMAIN graph : graph[i].file_id # f
            BY <1>3, <1>7, <2>1
        <3>3. DOMAIN next = 1 .. m + 1 /\ next[m + 1] = p /\ \A i \in 1 .. m : next[i] = graph[i]
            BY <1>7, <3>1
        <3> QED BY <1>7, <3>2, <3>3
    <2>2. CASE h # 0
        <3>1. h \in DOMAIN graph /\ graph[h].file_id = f
            BY <1>3, <2>2
        <3>2. next = [graph EXCEPT ![h] = p]
            BY <1>2, <2>2
        <3>3. DOMAIN next = DOMAIN graph /\ next[h] = p /\ \A i \in DOMAIN graph : i # h => next[i] = graph[i]
            BY <3>1, <3>2
        <3>4. \A i \in DOMAIN graph : i # h => graph[i].file_id # f
            BY <3>1 DEF Mirrors
        <3> QED BY <3>1, <3>3, <3>4
    <2> QED BY <2>1, <2>2
<1> HIDE DEF next
<1>9. \A i, j \in DOMAIN next : next[i].file_id = next[j].file_id => i = j
    BY <1>1, <1>8 DEF Mirrors
<1>10. \A k \in DOMAIN more : \E i \in DOMAIN next : next[i].file_id = FileId(more[k])
    <2>1. ASSUME NEW k \in 1 .. n PROVE \E i \in DOMAIN next : next[i].file_id = FileId(more[k])
        <3>1. PICK i \in DOMAIN graph : graph[i].file_id = FileId(documents[k])
            BY <1>4 DEF Mirrors
        <3>2. CASE i = at
            <4>1. graph[i].file_id = f
                BY <1>8, <3>2
            <4> QED BY <1>1, <1>4, <1>8, <3>1, <4>1
        <3>3. CASE i # at
            BY <1>4, <1>8, <3>1, <3>3
        <3> QED BY <3>2, <3>3
    <2>2. next[at].file_id = FileId(more[n + 1])
        BY <1>1, <1>4, <1>8 DEF f
    <2> QED BY <1>4, <1>8, <2>1, <2>2
<1>11. ASSUME NEW i \in DOMAIN next
       PROVE  /\ \E k \in DOMAIN more : next[i].file_id = FileId(more[k])
              /\ next[i] = EnrichedPartition(more[LastIn(more, next[i].file_id)], format)
    <2>1. CASE i = at
        <3>1. n + 1 \in DOMAIN more /\ next[i].file_id = FileId(more[n + 1])
            BY <1>1, <1>4, <1>8, <2>1 DEF f
        <3>2. next[i] = EnrichedPartition(more[LastIn(more, f)], format)
            BY <1>4, <1>5, <1>8, <2>1 DEF p
        <3> QED BY <1>1, <1>8, <2>1, <3>1, <3>2
    <2>2. CASE i # at
        <3>1. i \in DOMAIN graph /\ next[i] = graph[i] /\ graph[i].file_id # f
            BY <1>8, <2>2
        <3>2. PICK k \in DOMAIN documents : graph[i].file_id = FileId(documents[k])
            BY <3>1 DEF Mirrors
        <3>3. graph[i] = EnrichedPartition(documents[LastIn(documents, graph[i].file_id)], format)
            BY <3>1 DEF Mirrors
        <3>4. more[LastIn(more, graph[i].file_id)] = documents[LastIn(documents, graph[i].file_id)]
            BY <1>6, <3>1, <3>2
        <3>5. k \in DOMAIN more /\ more[k] = documents[k]
            BY <1>4
        <3> QED BY <3>1, <3>2, <3>3, <3>4, <3>5
    <2> QED BY <2>1, <2>2
<1>12. Mirrors(next, more, format)
    BY <1>9, <1>10, <1>11 DEF Mirrors
<1>13. QED
    BY <1>12 DEF next, more, p
-----------------------------------------------------------------------------
\* What is in memory comes from documents.
Enriched == pc = "enriching" \/ (pc = "loaded" /\ written = <<>>)

\* While it does, it mirrors the documents read; a pack that was published is
\* not empty.
EnrichmentInv ==
    /\ pc = "enriching" => written = <<>>
    /\ pc \in {"stored", "reading"} => written # <<>>
    /\ Enriched =>
        /\ input \in Inputs
        /\ record - 1 \in 0 .. Len(input.documents)
        /\ snapshot \in Seq(PartitionsOf(Range(input.documents), input.format))
        /\ Mirrors(snapshot, DocumentsRead, input.format)

\* Before the first document nothing is mirrored by nothing.
LEMMA EnrichmentInit == Init => EnrichmentInv
<1> SUFFICES ASSUME Init PROVE EnrichmentInv
    OBVIOUS
<1>1. CASE pc = "writing"
    BY <1>1 DEF EnrichmentInv, Enriched
<1>2. CASE pc = "enriching"
    <2>1. /\ written = <<>> /\ input \in Inputs /\ record = 1 /\ snapshot = <<>>
        BY <1>2 DEF Init
    <2>2. input.documents \in Seq(Range(input.documents))
        BY <2>1, InputsAssumption
    <2>3. DocumentsRead = <<>>
        BY <2>1, <2>2 DEF DocumentsRead
    <2>4. Mirrors(snapshot, DocumentsRead, input.format)
        BY <2>1, <2>3 DEF Mirrors
    <2>5. /\ record - 1 \in 0 .. Len(input.documents)
          /\ snapshot \in Seq(PartitionsOf(Range(input.documents), input.format))
        BY <2>1, <2>2
    <2> QED BY <1>2, <2>1, <2>4, <2>5 DEF EnrichmentInv
<1>3. QED
    BY <1>1, <1>2 DEF Init

\* Reading a document keeps the mirror.
LEMMA DocumentKeepsMirror ==
    ASSUME EnrichmentInv, ImportDocument
    PROVE  EnrichmentInv'
<1> DEFINE D == Range(input.documents)
<1>1. /\ pc = "enriching" /\ written = <<>> /\ written' = written
      /\ record \in DOMAIN input.documents /\ record' = record + 1
      /\ input' = input /\ pc' \in {"enriching", "loaded"}
      /\ snapshot' = ReplacePartition(snapshot, EnrichedPartition(input.documents[record], input.format))
    BY DEF EnrichmentInv, ImportDocument
<1>2. /\ input \in Inputs /\ input.documents \in Seq(D)
      /\ snapshot \in Seq(PartitionsOf(D, input.format))
      /\ Mirrors(snapshot, DocumentsRead, input.format)
    BY <1>1, InputsAssumption DEF EnrichmentInv, Enriched
<1>3. record \in 1 .. Len(input.documents) /\ input.documents[record] \in D
    BY <1>1, <1>2
<1> HIDE DEF D
<1>4. DocumentsRead \in Seq(D) /\ DocumentsRead' = Append(DocumentsRead, input.documents[record])
    <2>1. /\ DocumentsRead = SubSeq(input.documents, 1, record - 1)
          /\ DocumentsRead' = SubSeq(input.documents, 1, record)
        BY <1>1, <1>3 DEF DocumentsRead
    <2>2. record - 1 \in 0 .. Len(input.documents) /\ record \in Nat
        BY <1>2, <1>3
    <2>3. DocumentsRead \in Seq(D) /\ Len(DocumentsRead) = record - 1
          /\ \A k \in 1 .. record - 1 : DocumentsRead[k] = input.documents[k]
        BY <1>2, <2>1, <2>2
    <2>4. DocumentsRead' \in Seq(D) /\ Len(DocumentsRead') = record
          /\ \A k \in 1 .. record : DocumentsRead'[k] = input.documents[k]
        BY <1>2, <1>3, <2>1, <2>2
    <2> QED BY <1>2, <1>3, <2>2, <2>3, <2>4
<1>5. Mirrors(snapshot', DocumentsRead', input.format)
    BY <1>1, <1>2, <1>3, <1>4, OneMoreDocument
<1>6. snapshot' \in Seq(PartitionsOf(D, input.format))
    BY <1>1, <1>2, <1>3, StaysAList
<1>7. record' - 1 \in 0 .. Len(input.documents)
    BY <1>1, <1>2, <1>3
<1>8. QED
    BY <1>1, <1>2, <1>5, <1>6, <1>7 DEF EnrichmentInv, Enriched, D

\* No other step adds to a graph of documents.
LEMMA EnrichmentStep == EnrichmentInv /\ [Next]_vars => EnrichmentInv'
<1> SUFFICES ASSUME EnrichmentInv, [Next]_vars PROVE EnrichmentInv'
    OBVIOUS
<1>1. CASE ImportDocument
    BY <1>1, DocumentKeepsMirror
<1>2. CASE WriteRecord
    BY <1>2 DEF WriteRecord, EnrichmentInv, Enriched
<1>3. CASE PublishPack
    BY <1>3 DEF PublishPack, EnrichmentInv, Enriched
<1>4. CASE LosePackEnd
    BY <1>4 DEF LosePackEnd, EnrichmentInv, Enriched
<1>5. CASE OpenPack
    BY <1>5 DEF OpenPack, EnrichmentInv, Enriched
<1>6. CASE ReadRecord \/ FinishReading
    <2>1. pc = "reading" /\ pc' \in {"reading", "loaded", "unreadable"} /\ written' = written
        BY <1>6 DEF ReadRecord, TakeRecord, FinishReading
    <2> QED BY <2>1 DEF EnrichmentInv, Enriched
<1>7. CASE Export \/ ImportLine \/ FinishImport
    <2>1. pc' \in {"importing", "imported", "refused"}
        BY <1>7 DEF Export, ImportLine, FinishImport
    <2> QED BY <2>1 DEF EnrichmentInv, Enriched
<1>8. CASE UNCHANGED vars
    BY <1>8 DEF vars, EnrichmentInv, Enriched, DocumentsRead
<1>9. QED
    BY <1>1, <1>2, <1>3, <1>4, <1>5, <1>6, <1>7, <1>8 DEF Next

\* A graph of semantic facts has one partition per file, that of the file's last
\* document, and its edges lead to the symbols the occurrences name: for any
\* documents in any order (import_scip_enrichment, import_lsp_enrichment in
\* lib.rs of aci-export).
THEOREM EnrichmentIsAnchoredCorrect == Spec => []EnrichmentIsAnchored
<1>1. EnrichmentInv => EnrichmentIsAnchored
    <2> SUFFICES ASSUME EnrichmentInv, Enriched PROVE EnrichmentIsAnchored
        BY DEF EnrichmentIsAnchored, Enriched
    <2>1. /\ input \in Inputs
          /\ snapshot \in Seq(PartitionsOf(Range(input.documents), input.format))
          /\ Mirrors(snapshot, DocumentsRead, input.format)
        BY DEF EnrichmentInv
    <2>2. IsInjective([i \in DOMAIN snapshot |-> snapshot[i].file_id])
        BY <2>1 DEF Mirrors, IsInjective
    <2>3. {snapshot[i].file_id : i \in DOMAIN snapshot} = {FileId(DocumentsRead[i]) : i \in DOMAIN DocumentsRead}
        BY <2>1 DEF Mirrors
    <2>4. ASSUME NEW i \in DOMAIN snapshot
          PROVE  Anchored(snapshot[i], DocumentsRead[LastOf(snapshot[i].file_id)])
        <3> DEFINE last == DocumentsRead[LastOf(snapshot[i].file_id)]
        <3>1. snapshot[i] = EnrichedPartition(last, input.format)
            BY <2>1 DEF Mirrors, LastOf, LastIn
        <3>2. last \in Range(input.documents)
            <4>1. PICK k \in DOMAIN DocumentsRead : snapshot[i].file_id = FileId(DocumentsRead[k])
                BY <2>1 DEF Mirrors
            <4>2. DocumentsRead \in Seq(Range(input.documents))
                BY <2>1, InputsAssumption DEF EnrichmentInv, DocumentsRead
            <4>3. LastIn(DocumentsRead, FileId(DocumentsRead[k])) \in DOMAIN DocumentsRead
                BY <4>2, LastIsThere
            <4> QED BY <4>1, <4>2, <4>3 DEF LastOf, LastIn
        <3>3. last.occurrences \in Seq(Range(last.occurrences))
            BY <2>1, <3>2, InputsAssumption
        <3> HIDE DEF last
        <3>4. Anchored(snapshot[i], last)
            BY <3>1, <3>3, EnrichedIsAnchored
        <3> QED BY <3>4 DEF last
    <2> QED BY <2>2, <2>3, <2>4 DEF EnrichmentIsAnchored, Anchored
<1>2. QED
    BY <1>1, EnrichmentInit, EnrichmentStep, PTL DEF Spec
-----------------------------------------------------------------------------
\* A list is a sequence of what is in it.
LEMMA ListIsSeq == ASSUME NEW s, IsList(s) PROVE s \in Seq(Range(s)) /\ DOMAIN s = 1 .. Len(s) /\ Len(s) \in Nat
<1> DEFINE n == Len(s)
<1>1. n \in Nat /\ s = [i \in 1 .. n |-> s[i]]
    BY DEF IsList
<1> HIDE DEF n
<1>2. s \in [1 .. n -> Range(s)]
    BY <1>1 DEF Range
<1>3. QED
    BY <1>1, <1>2 DEF n

\* A partition of which so many nodes, edges and diagnostics have been imported.
Cut(p, nodes, edges, diagnostics) ==
    [Stored(p) EXCEPT !.nodes = SubSeq(p.nodes, 1, nodes), !.edges = SubSeq(p.edges, 1, edges),
                      !.diagnostics = SubSeq(p.diagnostics, 1, diagnostics)]

Row(kind, p, fact) == [type |-> kind, partition |-> p.file_id, fact |-> fact]

\* The lines of a partition, by number.
AreLines(lns, p) ==
    /\ Len(p.nodes) \in Nat /\ Len(p.edges) \in Nat /\ Len(p.diagnostics) \in Nat
    /\ Len(lns) = 1 + Len(p.nodes) + Len(p.edges) + Len(p.diagnostics)
    /\ lns[1] = [type |-> "partition", fact |-> Cut(p, 0, 0, 0)]
    /\ \A i \in 1 .. Len(p.nodes) : lns[1 + i] = Row("node", p, p.nodes[i])
    /\ \A i \in 1 .. Len(p.edges) : lns[1 + Len(p.nodes) + i] = Row("edge", p, p.edges[i])
    /\ \A i \in 1 .. Len(p.diagnostics) :
            lns[1 + Len(p.nodes) + Len(p.edges) + i] = Row("diagnostic", p, p.diagnostics[i])

\* These are the lines an export writes for it.
LEMMA LinesOfAPartition ==
    ASSUME NEW p, IsPartition(p)
    PROVE  PartitionLines(p) \in Seq(Range(PartitionLines(p))) /\ AreLines(PartitionLines(p), p)
<1> DEFINE N == Len(p.nodes)
           E == Len(p.edges)
           D == Len(p.diagnostics)
           head == [type |-> "partition",
                    fact |-> [p EXCEPT !.path = Lossy(@), !.nodes = <<>>, !.edges = <<>>, !.diagnostics = <<>>]]
           nodes == [i \in 1 .. N |-> Row("node", p, p.nodes[i])]
           edges == [i \in 1 .. E |-> Row("edge", p, p.edges[i])]
           diagnostics == [i \in 1 .. D |-> Row("diagnostic", p, p.diagnostics[i])]
           S == {head} \cup Range(nodes) \cup Range(edges) \cup Range(diagnostics)
<1>1. /\ N \in Nat /\ E \in Nat /\ D \in Nat
      /\ DOMAIN p.nodes = 1 .. N /\ DOMAIN p.edges = 1 .. E /\ DOMAIN p.diagnostics = 1 .. D
    BY ListIsSeq DEF IsPartition
<1> HIDE DEF N, E, D
<1>2. PartitionLines(p) = ((<<head>> \o nodes) \o edges) \o diagnostics
    BY <1>1 DEF PartitionLines, Row
<1>3. nodes \in Seq(S) /\ Len(nodes) = N /\ \A i \in 1 .. N : nodes[i] = Row("node", p, p.nodes[i])
    <2>1. nodes \in [1 .. N -> Range(nodes)]
        BY DEF Range
    <2> HIDE DEF nodes, edges, diagnostics, head
    <2>2. nodes \in [1 .. N -> S]
        BY <2>1
    <2>3. nodes \in Seq(S) /\ Len(nodes) = N
        <3> HIDE DEF S
        <3> QED BY <1>1, <2>2
    <2> QED BY <2>3 DEF nodes
<1>4. edges \in Seq(S) /\ Len(edges) = E /\ \A i \in 1 .. E : edges[i] = Row("edge", p, p.edges[i])
    <2>1. edges \in [1 .. E -> Range(edges)]
        BY DEF Range
    <2> HIDE DEF nodes, edges, diagnostics, head
    <2>2. edges \in [1 .. E -> S]
        BY <2>1
    <2>3. edges \in Seq(S) /\ Len(edges) = E
        <3> HIDE DEF S
        <3> QED BY <1>1, <2>2
    <2> QED BY <2>3 DEF edges
<1>5. diagnostics \in Seq(S) /\ Len(diagnostics) = D
      /\ \A i \in 1 .. D : diagnostics[i] = Row("diagnostic", p, p.diagnostics[i])
    <2>1. diagnostics \in [1 .. D -> Range(diagnostics)]
        BY DEF Range
    <2> HIDE DEF nodes, edges, diagnostics, head
    <2>2. diagnostics \in [1 .. D -> S]
        BY <2>1
    <2>3. diagnostics \in Seq(S) /\ Len(diagnostics) = D
        <3> HIDE DEF S
        <3> QED BY <1>1, <2>2
    <2> QED BY <2>3 DEF diagnostics
<1>6. <<head>> \in Seq(S) /\ Len(<<head>>) = 1 /\ <<head>>[1] = head
    <2> HIDE DEF nodes, edges, diagnostics, head
    <2> QED OBVIOUS
<1>7. head = [type |-> "partition", fact |-> Cut(p, 0, 0, 0)]
    <2>1. SubSeq(p.nodes, 1, 0) = <<>> /\ SubSeq(p.edges, 1, 0) = <<>> /\ SubSeq(p.diagnostics, 1, 0) = <<>>
        BY <1>1
    <2> QED BY <2>1 DEF Cut, Stored, IsPartition
<1> DEFINE one == <<head>>
           two == one \o nodes
           three == two \o edges
           four == three \o diagnostics
<1> HIDE DEF nodes, edges, diagnostics, head, S
<1> HIDE DEF one
<1>8. Joins(two, one, nodes) /\ two \in Seq(S)
    <2>1. one \in Seq(S)
        BY <1>6 DEF one
    <2> QED BY <1>3, <2>1, Joined
<1> HIDE DEF two
<1>9. Joins(three, two, edges) /\ three \in Seq(S)
    BY <1>4, <1>8, Joined
<1> HIDE DEF three
<1>10. Joins(four, three, diagnostics) /\ four \in Seq(S)
    BY <1>5, <1>9, Joined
<1> HIDE DEF four
<1>11. Len(one) = 1 /\ one[1] = head
    BY <1>6 DEF one
<1>12. Len(two) = 1 + N /\ Len(three) = 1 + N + E /\ Len(four) = 1 + N + E + D
    BY <1>1, <1>3, <1>4, <1>5, <1>8, <1>9, <1>10, <1>11 DEF Joins
<1>13. four[1] = head
    <2>1. 1 \in 1 .. Len(one) /\ 1 \in 1 .. Len(two) /\ 1 \in 1 .. Len(three)
        BY <1>1, <1>11, <1>12
    <2> QED BY <1>8, <1>9, <1>10, <1>11, <2>1 DEF Joins
<1>14. ASSUME NEW i \in 1 .. N PROVE four[1 + i] = Row("node", p, p.nodes[i])
    <2>1. 1 + i \in 1 .. Len(two) /\ 1 + i \in 1 .. Len(three) /\ i \in 1 .. Len(nodes)
        BY <1>1, <1>3, <1>12
    <2>2. four[1 + i] = two[1 + i]
        BY <1>9, <1>10, <2>1 DEF Joins
    <2> QED BY <1>3, <1>8, <1>11, <2>1, <2>2 DEF Joins
<1>15. ASSUME NEW i \in 1 .. E PROVE four[1 + N + i] = Row("edge", p, p.edges[i])
    <2>1. 1 + N + i \in 1 .. Len(three) /\ i \in 1 .. Len(edges)
        BY <1>1, <1>4, <1>12
    <2>2. four[1 + N + i] = three[1 + N + i]
        BY <1>10, <2>1 DEF Joins
    <2> QED BY <1>4, <1>9, <1>12, <2>1, <2>2 DEF Joins
<1>16. ASSUME NEW i \in 1 .. D PROVE four[1 + N + E + i] = Row("diagnostic", p, p.diagnostics[i])
    <2>1. i \in 1 .. Len(diagnostics)
        BY <1>5
    <2> QED BY <1>5, <1>10, <1>12, <2>1 DEF Joins
<1>17. AreLines(four, p)
    BY <1>1, <1>7, <1>12, <1>13, <1>14, <1>15, <1>16 DEF AreLines, N, E, D
<1>18. four \in Seq(Range(four))
    BY <1>10 DEF Range
<1>19. PartitionLines(p) = four
    BY <1>2 DEF one, two, three, four
<1>20. QED
    BY <1>17, <1>18, <1>19

-----------------------------------------------------------------------------
\* What a cut partition consists of.
LEMMA CutFields ==
    ASSUME NEW p, IsPartition(p), NEW a, NEW b, NEW c
    PROVE  /\ DOMAIN Cut(p, a, b, c) = DOMAIN p
           /\ Cut(p, a, b, c).path = Lossy(p.path)
           /\ Cut(p, a, b, c).nodes = SubSeq(p.nodes, 1, a)
           /\ Cut(p, a, b, c).edges = SubSeq(p.edges, 1, b)
           /\ Cut(p, a, b, c).diagnostics = SubSeq(p.diagnostics, 1, c)
           /\ Cut(p, a, b, c).file_id = p.file_id
BY DEF Cut, Stored, IsPartition

\* A node, an edge or a diagnostic more.
WithNode(p, fact) == [p EXCEPT !.nodes = Append(@, fact)]
WithEdge(p, fact) == [p EXCEPT !.edges = Append(@, fact)]
WithDiagnostic(p, fact) == [p EXCEPT !.diagnostics = Append(@, fact)]

\* The next fact moves the cut.
LEMMA CutGrows ==
    ASSUME NEW p, IsPartition(p), NEW a \in Nat, NEW b \in Nat, NEW c \in Nat
    PROVE  /\ a < Len(p.nodes) => WithNode(Cut(p, a, b, c), p.nodes[a + 1]) = Cut(p, a + 1, b, c)
           /\ b < Len(p.edges) => WithEdge(Cut(p, a, b, c), p.edges[b + 1]) = Cut(p, a, b + 1, c)
           /\ c < Len(p.diagnostics) =>
                WithDiagnostic(Cut(p, a, b, c), p.diagnostics[c + 1]) = Cut(p, a, b, c + 1)
<1>1. ASSUME NEW s, IsList(s), NEW n \in Nat, n < Len(s)
      PROVE  Append(SubSeq(s, 1, n), s[n + 1]) = SubSeq(s, 1, n + 1)
    <2>1. s \in Seq(Range(s)) /\ Len(s) \in Nat
        BY <1>1, ListIsSeq
    <2> QED BY <1>1, <2>1
<1>2. a < Len(p.nodes) => Append(SubSeq(p.nodes, 1, a), p.nodes[a + 1]) = SubSeq(p.nodes, 1, a + 1)
    BY <1>1 DEF IsPartition
<1>3. b < Len(p.edges) => Append(SubSeq(p.edges, 1, b), p.edges[b + 1]) = SubSeq(p.edges, 1, b + 1)
    BY <1>1 DEF IsPartition
<1>4. c < Len(p.diagnostics) =>
        Append(SubSeq(p.diagnostics, 1, c), p.diagnostics[c + 1]) = SubSeq(p.diagnostics, 1, c + 1)
    BY <1>1 DEF IsPartition
<1> DEFINE q == Stored(p)
           x == SubSeq(p.nodes, 1, a)
           y == SubSeq(p.edges, 1, b)
           z == SubSeq(p.diagnostics, 1, c)
<1>5. Cut(p, a, b, c) = [q EXCEPT !.nodes = x, !.edges = y, !.diagnostics = z]
    BY DEF Cut
<1>6. /\ DOMAIN q = DOMAIN p
      /\ DOMAIN p = {"file_id", "path", "language", "fingerprint", "parse_time", "extraction_time",
                     "nodes", "edges", "diagnostics"}
    BY DEF Stored, IsPartition
<1> HIDE DEF q, x, y, z
<1>7. ASSUME NEW v PROVE [[q EXCEPT !.nodes = x, !.edges = y, !.diagnostics = z] EXCEPT !.nodes = Append(@, v)]
                           = [q EXCEPT !.nodes = Append(x, v), !.edges = y, !.diagnostics = z]
    BY <1>6
<1>8. ASSUME NEW v PROVE [[q EXCEPT !.nodes = x, !.edges = y, !.diagnostics = z] EXCEPT !.edges = Append(@, v)]
                           = [q EXCEPT !.nodes = x, !.edges = Append(y, v), !.diagnostics = z]
    BY <1>6
<1>9. ASSUME NEW v PROVE [[q EXCEPT !.nodes = x, !.edges = y, !.diagnostics = z] EXCEPT !.diagnostics = Append(@, v)]
                           = [q EXCEPT !.nodes = x, !.edges = y, !.diagnostics = Append(z, v)]
    BY <1>6
<1>10. Cut(p, a + 1, b, c) = [q EXCEPT !.nodes = SubSeq(p.nodes, 1, a + 1), !.edges = y, !.diagnostics = z]
    BY DEF Cut, q, y, z
<1>11. Cut(p, a, b + 1, c) = [q EXCEPT !.nodes = x, !.edges = SubSeq(p.edges, 1, b + 1), !.diagnostics = z]
    BY DEF Cut, q, x, z
<1>12. Cut(p, a, b, c + 1) = [q EXCEPT !.nodes = x, !.edges = y, !.diagnostics = SubSeq(p.diagnostics, 1, c + 1)]
    BY DEF Cut, q, x, y
<1>13. a < Len(p.nodes) => [Cut(p, a, b, c) EXCEPT !.nodes = Append(@, p.nodes[a + 1])] = Cut(p, a + 1, b, c)
    <2>1. SUFFICES ASSUME a < Len(p.nodes)
          PROVE [Cut(p, a, b, c) EXCEPT !.nodes = Append(@, p.nodes[a + 1])] = Cut(p, a + 1, b, c)
        OBVIOUS
    <2>2. Append(x, p.nodes[a + 1]) = SubSeq(p.nodes, 1, a + 1)
        BY <1>2, <2>1 DEF x
    <2> QED BY <1>5, <1>7, <1>10, <2>2, Zenon
<1>14. b < Len(p.edges) => [Cut(p, a, b, c) EXCEPT !.edges = Append(@, p.edges[b + 1])] = Cut(p, a, b + 1, c)
    <2>1. SUFFICES ASSUME b < Len(p.edges)
          PROVE [Cut(p, a, b, c) EXCEPT !.edges = Append(@, p.edges[b + 1])] = Cut(p, a, b + 1, c)
        OBVIOUS
    <2>2. Append(y, p.edges[b + 1]) = SubSeq(p.edges, 1, b + 1)
        BY <1>3, <2>1 DEF y
    <2> QED BY <1>5, <1>8, <1>11, <2>2, Zenon
<1>15. c < Len(p.diagnostics) =>
         [Cut(p, a, b, c) EXCEPT !.diagnostics = Append(@, p.diagnostics[c + 1])] = Cut(p, a, b, c + 1)
    <2>1. SUFFICES ASSUME c < Len(p.diagnostics)
          PROVE [Cut(p, a, b, c) EXCEPT !.diagnostics = Append(@, p.diagnostics[c + 1])] = Cut(p, a, b, c + 1)
        OBVIOUS
    <2>2. Append(z, p.diagnostics[c + 1]) = SubSeq(p.diagnostics, 1, c + 1)
        BY <1>4, <2>1 DEF z
    <2> QED BY <1>5, <1>9, <1>12, <2>2, Zenon
<1>16. QED
    BY <1>13, <1>14, <1>15, Zenon DEF WithNode, WithEdge, WithDiagnostic

\* Nothing is left to import of a partition that is cut after its last facts.
LEMMA CutNowhere ==
    ASSUME NEW p, IsPartition(p)
    PROVE  Cut(p, Len(p.nodes), Len(p.edges), Len(p.diagnostics)) = Stored(p)
<1>1. ASSUME NEW s, IsList(s) PROVE SubSeq(s, 1, Len(s)) = s
    BY <1>1, ListIsSeq
<1>2. /\ SubSeq(p.nodes, 1, Len(p.nodes)) = p.nodes
      /\ SubSeq(p.edges, 1, Len(p.edges)) = p.edges
      /\ SubSeq(p.diagnostics, 1, Len(p.diagnostics)) = p.diagnostics
    BY <1>1 DEF IsPartition
<1>3. QED
    BY <1>2 DEF Cut, Stored, IsPartition

\* A path is made UTF-8 once.
LEMMA LossyOnce == ASSUME NEW path, IsList(path) PROVE Lossy(Lossy(path)) = Lossy(path) /\ IsList(Lossy(path))
<1> DEFINE n == Len(path)
           l == [i \in 1 .. n |-> IF path[i] = BadByte THEN Replacement ELSE path[i]]
<1>1. n \in Nat /\ Lossy(path) = l
    BY DEF IsList, Lossy, ReplaceAll
<1>2. Replacement # BadByte
    BY WidthsAssumption
<1> HIDE DEF n
<1>3. Len(l) = n
    BY <1>1
<1>4. Lossy(l) = l
    BY <1>2, <1>3 DEF Lossy, ReplaceAll
<1>5. IsList(l)
    BY <1>1, <1>3 DEF IsList
<1>6. QED
    BY <1>1, <1>4, <1>5

\* A partition that is cut is a beginning of it, and a whole one of itself.
LEMMA CutIsBegun ==
    ASSUME NEW p, IsPartition(p), NEW a \in 0 .. Len(p.nodes), NEW b \in 0 .. Len(p.edges),
           NEW c \in 0 .. Len(p.diagnostics)
    PROVE  Begun(p, Cut(p, a, b, c)) /\ Begun(Stored(p), Stored(p))
<1>1. ASSUME NEW s, IsList(s), NEW n \in 0 .. Len(s) PROVE IsPrefix(SubSeq(s, 1, n), s) /\ IsPrefix(s, s)
    <2>1. s \in Seq(Range(s)) /\ Len(s) \in Nat
        BY <1>1, ListIsSeq
    <2>2. SubSeq(s, 1, n) \in Seq(Range(s)) /\ Len(SubSeq(s, 1, n)) = n
        BY <1>1, <2>1
    <2>3. SubSeq(SubSeq(s, 1, n), 1, n) = SubSeq(s, 1, n)
        BY <1>1, <2>1, <2>2
    <2> QED BY <1>1, <2>1, <2>2, <2>3 DEF IsPrefix
<1>2. /\ IsPrefix(SubSeq(p.nodes, 1, a), p.nodes) /\ IsPrefix(p.nodes, p.nodes)
      /\ IsPrefix(SubSeq(p.edges, 1, b), p.edges) /\ IsPrefix(p.edges, p.edges)
      /\ IsPrefix(SubSeq(p.diagnostics, 1, c), p.diagnostics) /\ IsPrefix(p.diagnostics, p.diagnostics)
    BY <1>1 DEF IsPartition
<1>3. [Cut(p, a, b, c) EXCEPT !.nodes = p.nodes, !.edges = p.edges, !.diagnostics = p.diagnostics]
        = [p EXCEPT !.path = Lossy(@)]
    BY DEF Cut, Stored, IsPartition
<1>4. Begun(p, Cut(p, a, b, c))
    <2> DEFINE q == Cut(p, a, b, c)
    <2>1. /\ q.nodes = SubSeq(p.nodes, 1, a) /\ q.edges = SubSeq(p.edges, 1, b)
          /\ q.diagnostics = SubSeq(p.diagnostics, 1, c)
        BY CutFields, SMTT(20)
    <2>2. [q EXCEPT !.nodes = p.nodes, !.edges = p.edges, !.diagnostics = p.diagnostics]
             = [p EXCEPT !.path = Lossy(@)]
        BY <1>3
    <2> HIDE DEF q
    <2>3. Begun(p, q)
        BY <1>2, <2>1, <2>2, Zenon DEF Begun
    <2> QED BY <2>3 DEF q
<1>5. Stored(p).nodes = p.nodes /\ Stored(p).edges = p.edges /\ Stored(p).diagnostics = p.diagnostics
      /\ Stored(p).path = Lossy(p.path)
    BY DEF Stored, IsPartition
<1>6. [Stored(p) EXCEPT !.nodes = Stored(p).nodes, !.edges = Stored(p).edges, !.diagnostics = Stored(p).diagnostics]
        = [Stored(p) EXCEPT !.path = Lossy(@)]
    <2>1. Lossy(Lossy(p.path)) = Lossy(p.path)
        BY LossyOnce DEF IsPartition
    <2> QED BY <1>5, <2>1 DEF Stored, IsPartition
<1>7. Begun(Stored(p), Stored(p))
    BY <1>2, <1>5, <1>6 DEF Begun
<1>8. QED
    BY <1>4, <1>7
-----------------------------------------------------------------------------
\* The first k partitions of a graph, of which the last is cut.
Beginning(graph, k, a, b, c) ==
    [i \in 1 .. k |-> IF i < k THEN Stored(graph[i]) ELSE Cut(graph[i], a, b, c)]

\* Facts are imported in the order they have in the file.
InOrder(p, a, b, c) ==
    /\ a \in 0 .. Len(p.nodes) /\ b \in 0 .. Len(p.edges) /\ c \in 0 .. Len(p.diagnostics)
    /\ b > 0 => a = Len(p.nodes)
    /\ c > 0 => a = Len(p.nodes) /\ b = Len(p.edges)

\* What n lines make, where the lines of partition i come after the first off[i].
Progress(graph, off, n, done) ==
    \/ done = <<>> /\ n = 0
    \/ \E k \in 1 .. Len(graph), a, b, c \in Nat :
            /\ InOrder(graph[k], a, b, c)
            /\ done = Beginning(graph, k, a, b, c)
            /\ n = off[k] + 1 + a + b + c

ListsOfLines(graph) == [i \in DOMAIN graph |-> PartitionLines(graph[i])]

\* A beginning has a length, and the identity of each partition.
LEMMA BeginningShape ==
    ASSUME NEW graph, IsGraph(graph), NEW k \in 1 .. Len(graph), NEW a, NEW b, NEW c
    PROVE  /\ Beginning(graph, k, a, b, c) \in Seq(Range(Beginning(graph, k, a, b, c)))
           /\ Len(Beginning(graph, k, a, b, c)) = k
           /\ DOMAIN Beginning(graph, k, a, b, c) = 1 .. k
           /\ Beginning(graph, k, a, b, c)[k] = Cut(graph[k], a, b, c)
           /\ \A i \in 1 .. k - 1 : Beginning(graph, k, a, b, c)[i] = Stored(graph[i])
           /\ Holder(Beginning(graph, k, a, b, c), graph[k].file_id) = k
<1> DEFINE done == Beginning(graph, k, a, b, c)
           S == Range(done)
<1>1. Len(graph) \in Nat /\ DOMAIN graph = 1 .. Len(graph) /\ k \in Nat
    BY ListIsSeq DEF IsGraph
<1>2. /\ DOMAIN done = 1 .. k /\ done[k] = Cut(graph[k], a, b, c)
      /\ \A i \in 1 .. k - 1 : done[i] = Stored(graph[i])
    <2>1. k \in 1 .. k /\ ~ (k < k)
        BY <1>1
    <2>2. \A i \in 1 .. k - 1 : i \in 1 .. k /\ i < k
        BY <1>1
    <2> QED BY <2>1, <2>2 DEF Beginning
<1>3. done \in [1 .. k -> S]
    BY DEF Beginning, Range
<1> HIDE DEF done
<1>4. done \in Seq(S) /\ Len(done) = k
    <2> HIDE DEF S
    <2> QED BY <1>1, <1>3
<1>5. ASSUME NEW i \in 1 .. k PROVE done[i].file_id = graph[i].file_id /\ i \in DOMAIN graph
    <2>1. i \in DOMAIN graph /\ IsPartition(graph[i])
        BY <1>1 DEF IsGraph
    <2>2. CASE i = k
        BY <1>2, <2>1, <2>2, CutFields
    <2>3. CASE i # k
        <3>1. done[i] = Stored(graph[i])
            BY <1>1, <1>2, <2>3
        <3> QED BY <2>1, <3>1 DEF Stored, IsPartition
    <2> QED BY <2>2, <2>3
<1>6. Holder(done, graph[k].file_id) = k
    <2> DEFINE h == Holder(done, graph[k].file_id)
    <2>0. k \in 1 .. k /\ k \in DOMAIN done
        BY <1>1, <1>2
    <2>1. \/ h = 0 /\ \A i \in DOMAIN done : done[i].file_id # graph[k].file_id
          \/ h \in DOMAIN done /\ done[h].file_id = graph[k].file_id
        BY <1>4, HolderHolds
    <2> HIDE DEF h
    <2>2. h \in 1 .. k /\ done[h].file_id = graph[k].file_id
        BY <1>2, <1>5, <2>0, <2>1
    <2>3. graph[h].file_id = graph[k].file_id /\ h \in DOMAIN graph /\ k \in DOMAIN graph
        BY <1>5, <2>0, <2>2
    <2>4. h = k
        BY <2>3 DEF IsGraph
    <2> QED BY <2>4 DEF h
<1>7. QED
    BY <1>2, <1>4, <1>6 DEF done

\* Whole partitions, and the line of the next one.
LEMMA OnePartitionMore ==
    ASSUME NEW graph, IsGraph(graph), NEW k \in 1 .. Len(graph) - 1
    PROVE  Append(Beginning(graph, k, Len(graph[k].nodes), Len(graph[k].edges), Len(graph[k].diagnostics)),
                  Cut(graph[k + 1], 0, 0, 0))
             = Beginning(graph, k + 1, 0, 0, 0)
<1> DEFINE done == Beginning(graph, k, Len(graph[k].nodes), Len(graph[k].edges), Len(graph[k].diagnostics))
           next == Beginning(graph, k + 1, 0, 0, 0)
           more == Append(done, Cut(graph[k + 1], 0, 0, 0))
<1>1. /\ Len(graph) \in Nat /\ DOMAIN graph = 1 .. Len(graph)
      /\ k \in 1 .. Len(graph) /\ k + 1 \in 1 .. Len(graph) /\ k \in Nat
    BY ListIsSeq DEF IsGraph
<1>2. /\ done \in Seq(Range(done)) /\ Len(done) = k
      /\ done[k] = Cut(graph[k], Len(graph[k].nodes), Len(graph[k].edges), Len(graph[k].diagnostics))
      /\ \A i \in 1 .. k - 1 : done[i] = Stored(graph[i])
    BY <1>1, BeginningShape
<1>3. done[k] = Stored(graph[k])
    BY <1>1, <1>2, CutNowhere DEF IsGraph
<1>4. /\ next \in Seq(Range(next)) /\ Len(next) = k + 1 /\ next[k + 1] = Cut(graph[k + 1], 0, 0, 0)
      /\ \A i \in 1 .. (k + 1) - 1 : next[i] = Stored(graph[i])
    BY <1>1, BeginningShape
<1> HIDE DEF done, next
<1>5. /\ Len(more) = k + 1 /\ DOMAIN more = 1 .. k + 1 /\ more[k + 1] = Cut(graph[k + 1], 0, 0, 0)
      /\ \A i \in 1 .. k : more[i] = done[i]
      /\ more = [i \in 1 .. k + 1 |-> more[i]]
    BY <1>1, <1>2
<1>6. \A i \in 1 .. k : done[i] = Stored(graph[i])
    BY <1>1, <1>2, <1>3
<1> HIDE DEF more
<1>7. \A i \in 1 .. k + 1 : more[i] = next[i]
    <2>1. ASSUME NEW i \in 1 .. k + 1, i # k + 1 PROVE i \in 1 .. k /\ i \in 1 .. (k + 1) - 1
        BY <1>1, <2>1
    <2> QED BY <1>4, <1>5, <1>6, <2>1
<1>8. next = [i \in 1 .. k + 1 |-> next[i]]
    BY <1>1, <1>4
<1>9. more = next
    BY <1>5, <1>7, <1>8
<1>10. QED
    BY <1>9 DEF more, next, done

\* One fact more.
LEMMA OneFactMore ==
    ASSUME NEW graph, IsGraph(graph), NEW k \in 1 .. Len(graph), NEW a, NEW b, NEW c, NEW x, NEW y, NEW z, NEW p,
           p = Cut(graph[k], x, y, z)
    PROVE  [Beginning(graph, k, a, b, c) EXCEPT ![k] = p] = Beginning(graph, k, x, y, z)
<1> DEFINE done == Beginning(graph, k, a, b, c)
           next == Beginning(graph, k, x, y, z)
<1>1. k \in 1 .. k
    BY ListIsSeq DEF IsGraph
<1>2. /\ done = [i \in 1 .. k |-> done[i]] /\ done[k] = Cut(graph[k], a, b, c)
      /\ \A i \in 1 .. k - 1 : done[i] = Stored(graph[i])
    BY BeginningShape DEF Beginning
<1>3. /\ next = [i \in 1 .. k |-> next[i]] /\ next[k] = Cut(graph[k], x, y, z)
      /\ \A i \in 1 .. k - 1 : next[i] = Stored(graph[i])
    BY BeginningShape DEF Beginning
<1> HIDE DEF done, next
<1>4. \A i \in 1 .. k : i # k => done[i] = next[i]
    BY <1>1, <1>2, <1>3
<1>5. [done EXCEPT ![k] = p] = next
    BY <1>1, <1>2, <1>3, <1>4
<1>6. QED
    BY <1>5 DEF done, next
-----------------------------------------------------------------------------
\* The file of a graph holds the lines of its partitions, one after the other.
LEMMA LinesOfAGraph ==
    ASSUME NEW graph, IsGraph(graph)
    PROVE  /\ ListsOfLines(graph) \in Seq(Seq(UNION {Range(PartitionLines(graph[i])) : i \in DOMAIN graph}))
           /\ Len(ListsOfLines(graph)) = Len(graph)
           /\ JsonLines(graph) = FlattenSeq(ListsOfLines(graph))
           /\ JsonLines(graph) \in Seq(UNION {Range(PartitionLines(graph[i])) : i \in DOMAIN graph})
           /\ \E off : Placed(ListsOfLines(graph), off)
<1> DEFINE T == UNION {Range(PartitionLines(graph[i])) : i \in DOMAIN graph}
           lists == ListsOfLines(graph)
<1>1. PICK n \in Nat : n = Len(graph) /\ DOMAIN graph = 1 .. n
    BY ListIsSeq DEF IsGraph
<1>2. ASSUME NEW i \in 1 .. n PROVE PartitionLines(graph[i]) \in Seq(T)
    <2>1. PartitionLines(graph[i]) \in Seq(Range(PartitionLines(graph[i])))
        BY <1>1, LinesOfAPartition DEF IsGraph
    <2>2. Range(PartitionLines(graph[i])) \subseteq T
        BY <1>1
    <2> DEFINE l == PartitionLines(graph[i])
    <2> HIDE DEF T, l
    <2>3. l \in Seq(Range(l)) /\ Range(l) \subseteq T => l \in Seq(T)
        OBVIOUS
    <2> QED BY <2>1, <2>2, <2>3 DEF l
<1> HIDE DEF T
<1>3. lists \in [1 .. n -> Seq(T)]
    BY <1>1, <1>2 DEF ListsOfLines
<1>4. JsonLines(graph) = FlattenSeq(lists)
    BY DEF JsonLines, ListsOfLines
<1> HIDE DEF lists
<1>5. lists \in Seq(Seq(T)) /\ Len(lists) = n
    BY <1>3
<1>6. FlattenSeq(lists) \in Seq(T) /\ \E off : Placed(lists, off)
    BY <1>5, Flattened
<1>7. QED
    BY <1>1, <1>4, <1>5, <1>6 DEF T, lists

\* Where the lines of each partition are in the file.
LEMMA LinesAreThere ==
    ASSUME NEW graph, IsGraph(graph), NEW off, Placed(ListsOfLines(graph), off)
    PROVE  /\ off \in [1 .. Len(graph) + 1 -> Nat] /\ off[1] = 0
           /\ Len(JsonLines(graph)) = off[Len(graph) + 1]
           /\ \A k \in 1 .. Len(graph) : off[k + 1] = off[k] + Len(PartitionLines(graph[k]))
           /\ \A j, k \in 1 .. Len(graph) + 1 : j <= k => off[j] <= off[k]
           /\ \A k \in 1 .. Len(graph) : \A j \in 1 .. Len(PartitionLines(graph[k])) :
                    JsonLines(graph)[off[k] + j] = PartitionLines(graph[k])[j]
<1> DEFINE last == Len(graph)
           PL(k) == PartitionLines(graph[k])
           lists == ListsOfLines(graph)
           all == JsonLines(graph)
<1>1. Len(lists) = last /\ all = FlattenSeq(lists)
    BY LinesOfAGraph
<1>2. \A k \in 1 .. last : lists[k] = PL(k)
    BY ListIsSeq DEF IsGraph, ListsOfLines
<1> HIDE DEF PL, last, lists, all
<1>3. Placed(lists, off)
    BY DEF lists
<1>4. /\ off \in [1 .. last + 1 -> Nat] /\ off[1] = 0 /\ Len(all) = off[last + 1]
      /\ \A k \in 1 .. last : off[k + 1] = off[k] + Len(lists[k])
      /\ \A j, k \in 1 .. last + 1 : j <= k => off[j] <= off[k]
      /\ \A k \in 1 .. last : \A j \in 1 .. Len(lists[k]) : all[off[k] + j] = lists[k][j]
    BY <1>1, <1>3 DEF Placed
<1>5. \A k \in 1 .. last : off[k + 1] = off[k] + Len(PL(k))
    BY <1>2, <1>4
<1>6. \A k \in 1 .. last : \A j \in 1 .. Len(PL(k)) : all[off[k] + j] = PL(k)[j]
    BY <1>2, <1>4
<1>7. QED
    BY <1>4, <1>5, <1>6 DEF all, last, PL

\* A fact goes to the partition it names.
LEMMA FactGoesHome ==
    ASSUME NEW done, NEW p, NEW fact, NEW k, Holder(done, p.file_id) = k, k # 0
    PROVE  /\ ImportRecord(done, Row("node", p, fact)) = [done EXCEPT ![k] = WithNode(done[k], fact)]
           /\ ImportRecord(done, Row("edge", p, fact)) = [done EXCEPT ![k] = WithEdge(done[k], fact)]
           /\ ImportRecord(done, Row("diagnostic", p, fact)) = [done EXCEPT ![k] = WithDiagnostic(done[k], fact)]
<1>1. ASSUME NEW line, NEW field, line.type # "partition", line.partition = p.file_id, line.fact = fact,
             FactsOf[line.type] = field
      PROVE  ImportRecord(done, line) = [done EXCEPT ![k] = [done[k] EXCEPT ![field] = Append(done[k][field], fact)]]
    BY <1>1, Zenon DEF ImportRecord
<1>2. \A kind : /\ Row(kind, p, fact).type = kind /\ Row(kind, p, fact).partition = p.file_id
                 /\ Row(kind, p, fact).fact = fact
    BY DEF Row
<1>3. FactsOf["node"] = "nodes" /\ FactsOf["edge"] = "edges" /\ FactsOf["diagnostic"] = "diagnostics"
    BY DEF FactsOf
<1>4. "node" # "partition" /\ "edge" # "partition" /\ "diagnostic" # "partition"
    OBVIOUS
<1>5. ImportRecord(done, Row("node", p, fact))
        = [done EXCEPT ![k] = [done[k] EXCEPT !["nodes"] = Append(done[k]["nodes"], fact)]]
    <2> DEFINE line == Row("node", p, fact)
    <2>1. line.type = "node" /\ line.partition = p.file_id /\ line.fact = fact
        BY <1>2
    <2> HIDE DEF line
    <2>2. line.type # "partition" /\ FactsOf[line.type] = "nodes"
        BY <1>3, <1>4, <2>1
    <2>3. ImportRecord(done, line) = [done EXCEPT ![k] = [done[k] EXCEPT !["nodes"] = Append(done[k]["nodes"], fact)]]
        BY <1>1, <2>1, <2>2
    <2> QED BY <2>3 DEF line
<1>6. ImportRecord(done, Row("edge", p, fact))
        = [done EXCEPT ![k] = [done[k] EXCEPT !["edges"] = Append(done[k]["edges"], fact)]]
    <2> DEFINE line == Row("edge", p, fact)
    <2>1. line.type = "edge" /\ line.partition = p.file_id /\ line.fact = fact
        BY <1>2
    <2> HIDE DEF line
    <2>2. line.type # "partition" /\ FactsOf[line.type] = "edges"
        BY <1>3, <1>4, <2>1
    <2>3. ImportRecord(done, line) = [done EXCEPT ![k] = [done[k] EXCEPT !["edges"] = Append(done[k]["edges"], fact)]]
        BY <1>1, <2>1, <2>2
    <2> QED BY <2>3 DEF line
<1>7. ImportRecord(done, Row("diagnostic", p, fact))
        = [done EXCEPT ![k] = [done[k] EXCEPT !["diagnostics"] = Append(done[k]["diagnostics"], fact)]]
    <2> DEFINE line == Row("diagnostic", p, fact)
    <2>1. line.type = "diagnostic" /\ line.partition = p.file_id /\ line.fact = fact
        BY <1>2
    <2> HIDE DEF line
    <2>2. line.type # "partition" /\ FactsOf[line.type] = "diagnostics"
        BY <1>3, <1>4, <2>1
    <2>3. ImportRecord(done, line)
            = [done EXCEPT ![k] = [done[k] EXCEPT !["diagnostics"] = Append(done[k]["diagnostics"], fact)]]
        BY <1>1, <2>1, <2>2
    <2> QED BY <2>3 DEF line
<1>8. \A q : /\ WithNode(q, fact) = [q EXCEPT !["nodes"] = Append(q["nodes"], fact)]
             /\ WithEdge(q, fact) = [q EXCEPT !["edges"] = Append(q["edges"], fact)]
             /\ WithDiagnostic(q, fact) = [q EXCEPT !["diagnostics"] = Append(q["diagnostics"], fact)]
    BY DEF WithNode, WithEdge, WithDiagnostic
<1>9. QED
    BY <1>5, <1>6, <1>7, <1>8, Zenon

\* One line more.
LEMMA OneLineMore ==
    ASSUME NEW graph, IsGraph(graph), NEW off, Placed(ListsOfLines(graph), off), NEW n \in Nat, NEW done,
           Progress(graph, off, n, done), n < Len(JsonLines(graph))
    PROVE  Progress(graph, off, n + 1, ImportRecord(done, JsonLines(graph)[n + 1]))
<1> DEFINE line == JsonLines(graph)[n + 1]
           next == ImportRecord(done, line)
           last == Len(graph)
           PL(k) == PartitionLines(graph[k])
<1>1. last \in Nat /\ DOMAIN graph = 1 .. last
    BY ListIsSeq DEF IsGraph
<1>2. /\ off \in [1 .. last + 1 -> Nat] /\ off[1] = 0 /\ Len(JsonLines(graph)) = off[last + 1]
      /\ \A k \in 1 .. last : off[k + 1] = off[k] + Len(PL(k))
      /\ \A k \in 1 .. last : \A j \in 1 .. Len(PL(k)) : JsonLines(graph)[off[k] + j] = PL(k)[j]
    BY LinesAreThere
<1>3. \A k \in 1 .. last : IsPartition(graph[k]) /\ AreLines(PL(k), graph[k])
    BY <1>1, LinesOfAPartition DEF IsGraph
<1> HIDE DEF PL, last
<1>4. ASSUME NEW k \in 1 .. last, n = off[k] PROVE line = [type |-> "partition", fact |-> Cut(graph[k], 0, 0, 0)]
    <2>1. 1 \in 1 .. Len(PL(k)) /\ PL(k)[1] = [type |-> "partition", fact |-> Cut(graph[k], 0, 0, 0)]
        <3> DEFINE p == graph[k]
        <3>1. AreLines(PL(k), p)
            BY <1>3
        <3> HIDE DEF p, line, next
        <3>2. PL(k)[1] = [type |-> "partition", fact |-> Cut(p, 0, 0, 0)]
            BY <3>1 DEF AreLines
        <3>3. Len(PL(k)) = 1 + Len(p.nodes) + Len(p.edges) + Len(p.diagnostics)
              /\ Len(p.nodes) \in Nat /\ Len(p.edges) \in Nat /\ Len(p.diagnostics) \in Nat
            BY <3>1 DEF AreLines
        <3>4. 1 \in 1 .. Len(PL(k))
            <4>1. \A x, y, z \in Nat : 1 \in 1 .. 1 + x + y + z
                OBVIOUS
            <4> QED BY <3>3, <4>1, Zenon
        <3> QED BY <3>2, <3>4 DEF p
    <2> QED BY <1>2, <1>4, <2>1
<1>5. ASSUME done = <<>>, n = 0 PROVE Progress(graph, off, n + 1, next)
    <2>1. last # 0
        BY <1>2, <1>5
    <2>2. 1 \in 1 .. last
        BY <1>1, <2>1
    <2>3. line = [type |-> "partition", fact |-> Cut(graph[1], 0, 0, 0)]
        BY <1>2, <1>4, <1>5, <2>2
    <2>4. next = <<Cut(graph[1], 0, 0, 0)>>
        BY <1>5, <2>3 DEF ImportRecord
    <2>5. Beginning(graph, 1, 0, 0, 0) = <<Cut(graph[1], 0, 0, 0)>>
        BY DEF Beginning
    <2>6. InOrder(graph[1], 0, 0, 0)
        BY <1>3, <2>2 DEF InOrder, AreLines
    <2>7. n + 1 = off[1] + 1 + 0 + 0 + 0
        BY <1>2, <1>5
    <2> HIDE DEF next
    <2> QED BY <2>2, <2>4, <2>5, <2>6, <2>7 DEF Progress, last
<1>6. ASSUME NEW k \in 1 .. last, NEW a \in Nat, NEW b \in Nat, NEW c \in Nat,
             InOrder(graph[k], a, b, c), done = Beginning(graph, k, a, b, c), n = off[k] + 1 + a + b + c
      PROVE  Progress(graph, off, n + 1, next)
    <2> DEFINE p == graph[k]
               N == Len(p.nodes)
               E == Len(p.edges)
               D == Len(p.diagnostics)
               L == Len(PL(k))
               o == off[k]
    <2>1. /\ IsPartition(p) /\ AreLines(PL(k), p) /\ N \in Nat /\ E \in Nat /\ D \in Nat
          /\ L = 1 + N + E + D /\ o \in Nat /\ n = o + 1 + a + b + c
        <3>1. IsPartition(p) /\ AreLines(PL(k), p)
            BY <1>3
        <3>2. off[k] \in Nat
            <4>1. k \in 1 .. last + 1
                BY <1>1
            <4> QED BY <1>2, <4>1
        <3> HIDE DEF p
        <3> QED BY <1>6, <3>1, <3>2 DEF AreLines
    <2>2. done[k] = Cut(p, a, b, c) /\ k # 0 /\ Holder(done, p.file_id) = k
        BY <1>1, <1>6, BeginningShape DEF last
    <2>3. a \in 0 .. N /\ b \in 0 .. E /\ c \in 0 .. D /\ (b > 0 => a = N) /\ (c > 0 => a = N /\ b = E)
        BY <1>6 DEF InOrder
    <2>4. k \in 1 .. Len(graph)
        BY DEF last
    <2> HIDE DEF p, N, E, D, L, o, line, next
    <2>5. CASE a < N
        <3>1. b = 0 /\ c = 0 /\ 1 + (a + 1) \in 1 .. L /\ a + 1 \in 1 .. N /\ n + 1 = o + (1 + (a + 1)) /\ a < N
            BY <2>1, <2>3, <2>5
        <3>2. line = Row("node", p, p.nodes[a + 1])
            <4>1. line = PL(k)[1 + (a + 1)]
                BY <1>2, <3>1 DEF L, o, line
            <4> QED BY <2>1, <3>1, <4>1 DEF AreLines, N, E, D
        <3>3. next = [done EXCEPT ![k] = WithNode(done[k], p.nodes[a + 1])]
            BY <2>2, <3>2, FactGoesHome DEF next
        <3>4. WithNode(Cut(p, a, b, c), p.nodes[a + 1]) = Cut(p, a + 1, b, c)
            <4>1. a < Len(p.nodes)
                BY <3>1 DEF N
            <4> QED BY <2>1, <4>1, CutGrows
        <3>5. next = Beginning(graph, k, a + 1, b, c)
            <4>1. [Beginning(graph, k, a, b, c) EXCEPT ![k] = Cut(p, a + 1, b, c)] = Beginning(graph, k, a + 1, b, c)
                BY <2>4, OneFactMore DEF p
            <4> QED BY <1>6, <2>2, <3>3, <3>4, <4>1, Zenon
        <3>6. InOrder(p, a + 1, b, c) /\ a + 1 \in Nat
            BY <2>1, <2>3, <2>5, <3>1 DEF InOrder, N, E, D
        <3>7. n + 1 = o + 1 + (a + 1) + b + c
            BY <2>1
        <3> QED BY <2>4, <3>5, <3>6, <3>7 DEF Progress, p, o
    <2>6. CASE a = N /\ b < E
        <3>1. c = 0 /\ 1 + N + (b + 1) \in 1 .. L /\ b + 1 \in 1 .. E /\ n + 1 = o + (1 + N + (b + 1)) /\ b < E
            BY <2>1, <2>3, <2>6
        <3>2. line = Row("edge", p, p.edges[b + 1])
            <4>1. line = PL(k)[1 + N + (b + 1)]
                BY <1>2, <3>1 DEF L, o, line
            <4> QED BY <2>1, <3>1, <4>1 DEF AreLines, N, E, D
        <3>3. next = [done EXCEPT ![k] = WithEdge(done[k], p.edges[b + 1])]
            BY <2>2, <3>2, FactGoesHome DEF next
        <3>4. WithEdge(Cut(p, a, b, c), p.edges[b + 1]) = Cut(p, a, b + 1, c)
            <4>1. b < Len(p.edges)
                BY <3>1 DEF E
            <4> QED BY <2>1, <4>1, CutGrows
        <3>5. next = Beginning(graph, k, a, b + 1, c)
            <4>1. [Beginning(graph, k, a, b, c) EXCEPT ![k] = Cut(p, a, b + 1, c)] = Beginning(graph, k, a, b + 1, c)
                BY <2>4, OneFactMore DEF p
            <4> QED BY <1>6, <2>2, <3>3, <3>4, <4>1, Zenon
        <3>6. InOrder(p, a, b + 1, c) /\ b + 1 \in Nat
            BY <2>1, <2>3, <2>6, <3>1 DEF InOrder, N, E, D
        <3>7. n + 1 = o + 1 + a + (b + 1) + c
            BY <2>1
        <3> QED BY <2>4, <3>5, <3>6, <3>7 DEF Progress, p, o
    <2>7. CASE a = N /\ b = E /\ c < D
        <3>1. 1 + N + E + (c + 1) \in 1 .. L /\ c + 1 \in 1 .. D /\ n + 1 = o + (1 + N + E + (c + 1)) /\ c < D
            BY <2>1, <2>3, <2>7
        <3>2. line = Row("diagnostic", p, p.diagnostics[c + 1])
            <4>1. line = PL(k)[1 + N + E + (c + 1)]
                BY <1>2, <3>1 DEF L, o, line
            <4> QED BY <2>1, <3>1, <4>1 DEF AreLines, N, E, D
        <3>3. next = [done EXCEPT ![k] = WithDiagnostic(done[k], p.diagnostics[c + 1])]
            BY <2>2, <3>2, FactGoesHome DEF next
        <3>4. WithDiagnostic(Cut(p, a, b, c), p.diagnostics[c + 1]) = Cut(p, a, b, c + 1)
            <4>1. c < Len(p.diagnostics)
                BY <3>1 DEF D
            <4> QED BY <2>1, <4>1, CutGrows
        <3>5. next = Beginning(graph, k, a, b, c + 1)
            <4>1. [Beginning(graph, k, a, b, c) EXCEPT ![k] = Cut(p, a, b, c + 1)] = Beginning(graph, k, a, b, c + 1)
                BY <2>4, OneFactMore DEF p
            <4> QED BY <1>6, <2>2, <3>3, <3>4, <4>1, Zenon
        <3>6. InOrder(p, a, b, c + 1) /\ c + 1 \in Nat
            BY <2>1, <2>3, <2>7, <3>1 DEF InOrder, N, E, D
        <3>7. n + 1 = o + 1 + a + b + (c + 1)
            BY <2>1
        <3> QED BY <2>4, <3>5, <3>6, <3>7 DEF Progress, p, o
    <2>8. CASE a = N /\ b = E /\ c = D
        <3>1. n = o + L
            BY <2>1, <2>8
        <3>2. n = off[k + 1]
            BY <1>2, <3>1 DEF L, o
        <3>3. k # last
            BY <1>2, <3>2
        <3>4. k + 1 \in 1 .. last /\ k \in 1 .. last - 1
            BY <1>1, <3>3
        <3>5. line = [type |-> "partition", fact |-> Cut(graph[k + 1], 0, 0, 0)]
            BY <1>4, <3>2, <3>4 DEF line
        <3>6. next = Append(done, Cut(graph[k + 1], 0, 0, 0))
            BY <3>5 DEF next, ImportRecord
        <3>7. Append(Beginning(graph, k, N, E, D), Cut(graph[k + 1], 0, 0, 0)) = Beginning(graph, k + 1, 0, 0, 0)
            BY <3>4, OnePartitionMore DEF p, last, N, E, D
        <3>8. next = Beginning(graph, k + 1, 0, 0, 0)
            BY <1>6, <2>8, <3>6, <3>7
        <3>9. InOrder(graph[k + 1], 0, 0, 0)
            BY <1>3, <3>4 DEF InOrder, AreLines
        <3>10. n + 1 = off[k + 1] + 1 + 0 + 0 + 0 /\ k + 1 \in 1 .. Len(graph)
            BY <1>2, <3>2, <3>4 DEF last
        <3> QED BY <3>8, <3>9, <3>10 DEF Progress
    <2>9. QED
        BY <2>1, <2>3, <2>5, <2>6, <2>7, <2>8
<1>7. QED
    <2>1. CASE done = <<>> /\ n = 0
        BY <1>5, <2>1
    <2>2. CASE \E k \in 1 .. Len(graph), a, b, c \in Nat :
                    /\ InOrder(graph[k], a, b, c)
                    /\ done = Beginning(graph, k, a, b, c)
                    /\ n = off[k] + 1 + a + b + c
        BY <1>6, <2>2 DEF last
    <2> QED BY <2>1, <2>2 DEF Progress

\* All lines make all of the graph.
LEMMA AllLines ==
    ASSUME NEW graph, IsGraph(graph), NEW off, Placed(ListsOfLines(graph), off), NEW done,
           Progress(graph, off, Len(JsonLines(graph)), done)
    PROVE  done = [i \in DOMAIN graph |-> Stored(graph[i])]
<1> DEFINE last == Len(graph)
           n == Len(JsonLines(graph))
           PL(k) == PartitionLines(graph[k])
<1>1. last \in Nat /\ DOMAIN graph = 1 .. last
    BY ListIsSeq DEF IsGraph
<1>2. /\ off \in [1 .. last + 1 -> Nat] /\ off[1] = 0 /\ n = off[last + 1]
      /\ \A k \in 1 .. last : off[k + 1] = off[k] + Len(PL(k))
      /\ \A j, k \in 1 .. last + 1 : j <= k => off[j] <= off[k]
    BY LinesAreThere
<1>3. ASSUME NEW k \in 1 .. last
      PROVE  /\ IsPartition(graph[k]) /\ Len(graph[k].nodes) \in Nat /\ Len(graph[k].edges) \in Nat
             /\ Len(graph[k].diagnostics) \in Nat
             /\ Len(PL(k)) = 1 + Len(graph[k].nodes) + Len(graph[k].edges) + Len(graph[k].diagnostics)
    <2> DEFINE p == graph[k]
    <2>1. IsPartition(p) /\ AreLines(PL(k), p)
        BY <1>1, LinesOfAPartition DEF IsGraph
    <2> HIDE DEF p, PL
    <2>2. /\ IsPartition(p) /\ Len(p.nodes) \in Nat /\ Len(p.edges) \in Nat /\ Len(p.diagnostics) \in Nat
          /\ Len(PL(k)) = 1 + Len(p.nodes) + Len(p.edges) + Len(p.diagnostics)
        BY <2>1 DEF AreLines
    <2> QED BY <2>2 DEF p
<1>4. ASSUME NEW k \in 1 .. last
      PROVE  /\ off[k] \in Nat /\ off[k + 1] \in Nat /\ Len(PL(k)) \in Nat /\ Len(PL(k)) > 0
             /\ off[k + 1] = off[k] + Len(PL(k)) /\ off[k + 1] <= n
    <2>1. k \in 1 .. last + 1 /\ k + 1 \in 1 .. last + 1 /\ last + 1 \in 1 .. last + 1 /\ k + 1 <= last + 1
        BY <1>1
    <2>2. \A x, y, z \in Nat : 1 + x + y + z \in Nat /\ 1 + x + y + z > 0
        OBVIOUS
    <2> HIDE DEF last, n, PL
    <2>3. Len(PL(k)) \in Nat /\ Len(PL(k)) > 0
        <3> DEFINE x == Len(graph[k].nodes)
                   y == Len(graph[k].edges)
                   z == Len(graph[k].diagnostics)
        <3>1. x \in Nat /\ y \in Nat /\ z \in Nat /\ Len(PL(k)) = 1 + x + y + z
            BY <1>3
        <3> HIDE DEF x, y, z
        <3> QED BY <3>1
    <2> QED BY <1>2, <2>1, <2>3
<1> HIDE DEF last, n, PL
<1>5. ASSUME done = <<>>, n = 0 PROVE last = 0
    <2>1. ASSUME last # 0 PROVE FALSE
        <3>1. last \in 1 .. last
            BY <1>1, <2>1
        <3>2. /\ off[last + 1] = off[last] + Len(PL(last)) /\ off[last] \in Nat
              /\ Len(PL(last)) \in Nat /\ Len(PL(last)) > 0
            BY <1>4, <3>1
        <3>3. \A x, y \in Nat : y > 0 => x + y # 0
            OBVIOUS
        <3> QED BY <1>2, <1>5, <3>2, <3>3, Zenon
    <2> QED BY <2>1
<1>6. ASSUME NEW k \in 1 .. last, NEW a \in Nat, NEW b \in Nat, NEW c \in Nat,
             InOrder(graph[k], a, b, c), done = Beginning(graph, k, a, b, c), n = off[k] + 1 + a + b + c
      PROVE  done = [i \in 1 .. last |-> Stored(graph[i])]
    <2> DEFINE p == graph[k]
               N == Len(p.nodes)
               E == Len(p.edges)
               D == Len(p.diagnostics)
               o == off[k]
               L == Len(PL(k))
    <2>1. /\ IsPartition(p) /\ N \in Nat /\ E \in Nat /\ D \in Nat /\ L = 1 + N + E + D
        BY <1>3
    <2>2. o \in Nat /\ off[k + 1] = o + L /\ o + L <= n /\ n = o + 1 + a + b + c
        BY <1>4, <1>6
    <2>3. a \in 0 .. N /\ b \in 0 .. E /\ c \in 0 .. D
        BY <1>6 DEF InOrder
    <2> HIDE DEF p, N, E, D, o, L
    <2>4. n = o + L /\ a = N /\ b = E /\ c = D
        BY <2>1, <2>2, <2>3
    <2>5. k = last
        <3>1. ASSUME k # last PROVE FALSE
            <4>1. k + 1 \in 1 .. last
                BY <1>1, <3>1
            <4>2. /\ off[k + 1] \in Nat /\ Len(PL(k + 1)) \in Nat /\ Len(PL(k + 1)) > 0
                  /\ off[(k + 1) + 1] = off[k + 1] + Len(PL(k + 1)) /\ off[(k + 1) + 1] <= n
                BY <1>4, <4>1
            <4> DEFINE x == off[k + 1]
                       y == Len(PL(k + 1))
                       z == off[(k + 1) + 1]
            <4> HIDE DEF x, y, z
            <4>3. x \in Nat /\ y \in Nat /\ y > 0 /\ z = x + y /\ z <= n /\ n = x
                BY <2>2, <2>4, <4>2 DEF x, y, z
            <4> QED BY <4>3
        <3> QED BY <3>1
    <2>6. /\ done[k] = Cut(p, N, E, D)
          /\ \A i \in 1 .. k - 1 : done[i] = Stored(graph[i])
        BY <1>6, <2>4, BeginningShape DEF last, p
    <2>7. done[k] = Stored(p)
        BY <2>1, <2>6, CutNowhere DEF N, E, D
    <2>8. \A i \in 1 .. last : done[i] = Stored(graph[i])
        BY <1>1, <2>5, <2>6, <2>7 DEF p
    <2>9. done = [i \in 1 .. k |-> done[i]]
        BY <1>6 DEF Beginning
    <2> QED BY <2>5, <2>8, <2>9
<1>7. CASE done = <<>> /\ n = 0
    BY <1>1, <1>5, <1>7
<1>8. CASE \E k \in 1 .. Len(graph), a, b, c \in Nat :
                /\ InOrder(graph[k], a, b, c)
                /\ done = Beginning(graph, k, a, b, c)
                /\ n = off[k] + 1 + a + b + c
    BY <1>1, <1>6, <1>8 DEF last
<1>9. QED
    BY <1>7, <1>8 DEF Progress, n

\* Any number of lines makes a beginning of the graph.
LEMMA SomeLines ==
    ASSUME NEW graph, IsGraph(graph), NEW off, NEW n, NEW done, Progress(graph, off, n, done)
    PROVE  /\ Len(done) <= Len(graph)
           /\ \A i \in DOMAIN done :
                /\ Begun(graph[i], done[i])
                /\ i < Len(done) => Begun(done[i], [graph[i] EXCEPT !.path = Lossy(@)])
<1>1. Len(graph) \in Nat /\ DOMAIN graph = 1 .. Len(graph)
    BY ListIsSeq DEF IsGraph
<1>2. CASE done = <<>>
    BY <1>1, <1>2
<1>3. ASSUME NEW k \in 1 .. Len(graph), NEW a \in Nat, NEW b \in Nat, NEW c \in Nat,
             InOrder(graph[k], a, b, c), done = Beginning(graph, k, a, b, c)
      PROVE  /\ Len(done) <= Len(graph)
             /\ \A i \in DOMAIN done :
                /\ Begun(graph[i], done[i])
                /\ i < Len(done) => Begun(done[i], [graph[i] EXCEPT !.path = Lossy(@)])
    <2>1. /\ Len(done) = k /\ DOMAIN done = 1 .. k /\ done[k] = Cut(graph[k], a, b, c)
          /\ \A i \in 1 .. k - 1 : done[i] = Stored(graph[i])
        BY <1>3, BeginningShape
    <2>2. Begun(graph[k], Cut(graph[k], a, b, c))
        BY <1>1, <1>3, CutIsBegun DEF IsGraph, InOrder
    <2>3. ASSUME NEW i \in 1 .. k - 1
          PROVE  Begun(graph[i], done[i]) /\ Begun(done[i], [graph[i] EXCEPT !.path = Lossy(@)])
        <3> DEFINE p == graph[i]
        <3>1. IsPartition(p) /\ done[i] = Stored(p)
            BY <1>1, <2>1 DEF IsGraph
        <3> HIDE DEF p
        <3>2. Len(p.nodes) \in 0 .. Len(p.nodes) /\ Len(p.edges) \in 0 .. Len(p.edges)
              /\ Len(p.diagnostics) \in 0 .. Len(p.diagnostics)
            BY <3>1, ListIsSeq DEF IsPartition
        <3>3. Begun(p, Stored(p)) /\ Begun(Stored(p), Stored(p))
            BY <3>1, <3>2, CutIsBegun, CutNowhere
        <3> QED BY <3>1, <3>3, Zenon DEF Stored, p
    <2>4. k <= Len(graph)
        BY <1>1
    <2>5. ASSUME NEW i \in 1 .. k, i # k PROVE i \in 1 .. k - 1
        BY <1>1, <2>5
    <2>6. ~ (k < k)
        BY <1>1
    <2> QED BY <2>1, <2>2, <2>3, <2>4, <2>5, <2>6
<1>4. QED
    BY <1>2, <1>3 DEF Progress
-----------------------------------------------------------------------------
\* While a graph is imported, the lines read so far have been; nothing is
\* imported before.
ImportInv ==
    /\ pc \notin {"importing", "imported", "refused"} => imported = <<>>
    /\ pc \in {"importing", "imported"} /\ IsGraph(snapshot) =>
        /\ record - 1 \in 0 .. Len(lines)
        /\ \E size \in 0 .. Len(JsonLines(snapshot)) : lines = SubSeq(JsonLines(snapshot), 1, size)
        /\ \A off : Placed(ListsOfLines(snapshot), off) => Progress(snapshot, off, record - 1, imported)
        /\ pc = "imported" => record = Len(lines) + 1

\* The first lines of a file.
LEMMA FirstLines ==
    ASSUME NEW graph, IsGraph(graph), NEW size \in 0 .. Len(JsonLines(graph))
    PROVE  /\ Len(SubSeq(JsonLines(graph), 1, size)) = size
           /\ DOMAIN SubSeq(JsonLines(graph), 1, size) = 1 .. size
           /\ \A i \in 1 .. size : SubSeq(JsonLines(graph), 1, size)[i] = JsonLines(graph)[i]
<1> DEFINE all == JsonLines(graph)
           T == UNION {Range(PartitionLines(graph[i])) : i \in DOMAIN graph}
<1>1. all \in Seq(T)
    BY LinesOfAGraph
<1> HIDE DEF all, T
<1>2. size \in 0 .. Len(all)
    BY DEF all
<1>3. /\ Len(SubSeq(all, 1, size)) = size
      /\ DOMAIN SubSeq(all, 1, size) = 1 .. size
      /\ \A i \in 1 .. size : SubSeq(all, 1, size)[i] = all[i]
    BY <1>1, <1>2
<1>4. QED
    BY <1>3 DEF all

\* An export begins with nothing imported.
LEMMA ExportBegins == ASSUME ImportInv, Export PROVE ImportInv'
<1>1. /\ pc = "loaded" /\ imported = <<>> /\ imported' = imported /\ snapshot' = snapshot
      /\ record' = 1 /\ pc' = "importing"
      /\ \E size \in 0 .. Len(JsonLines(snapshot)) : lines' = SubSeq(JsonLines(snapshot), 1, size)
    BY DEF ImportInv, Export
<1>2. ASSUME IsGraph(snapshot) PROVE Len(lines') \in Nat
    BY <1>1, <1>2, FirstLines
<1>3. record' - 1 = 0 /\ (Len(lines') \in Nat => 0 \in 0 .. Len(lines'))
    BY <1>1
<1>4. \A off : Progress(snapshot, off, 0, <<>>)
    BY DEF Progress
<1>5. QED
    BY <1>1, <1>2, <1>3, <1>4 DEF ImportInv

\* Importing a line keeps what is imported a beginning of the graph.
LEMMA LineIsImported == ASSUME ImportInv, ImportLine PROVE ImportInv'
<1>1. /\ pc = "importing" /\ pc' = pc /\ record \in DOMAIN lines /\ lines' = lines /\ snapshot' = snapshot
      /\ record' = record + 1 /\ imported' = ImportRecord(imported, lines[record])
    BY DEF ImportLine
<1>2. SUFFICES ASSUME IsGraph(snapshot)
               PROVE  /\ record' - 1 \in 0 .. Len(lines)
                      /\ \A off : Placed(ListsOfLines(snapshot), off)
                                    => Progress(snapshot, off, record' - 1, imported')
    BY <1>1 DEF ImportInv
<1>3. PICK size \in 0 .. Len(JsonLines(snapshot)) : lines = SubSeq(JsonLines(snapshot), 1, size)
    BY <1>1, <1>2 DEF ImportInv
<1>4. Len(lines) = size /\ DOMAIN lines = 1 .. size /\ lines[record] = JsonLines(snapshot)[record]
    BY <1>1, <1>2, <1>3, FirstLines
<1>5. Len(JsonLines(snapshot)) \in Nat
    BY <1>2, LinesOfAGraph
<1> DEFINE n == record - 1
<1>6. n \in Nat /\ n < Len(JsonLines(snapshot)) /\ n + 1 = record /\ record' - 1 = n + 1 /\ n + 1 \in 0 .. size
    BY <1>1, <1>3, <1>4, <1>5
<1>7. ASSUME NEW off, Placed(ListsOfLines(snapshot), off) PROVE Progress(snapshot, off, n + 1, imported')
    <2>1. Progress(snapshot, off, n, imported)
        BY <1>1, <1>2, <1>7 DEF ImportInv
    <2> HIDE DEF n
    <2>2. Progress(snapshot, off, n + 1, ImportRecord(imported, JsonLines(snapshot)[n + 1]))
        BY <1>2, <1>6, <1>7, <2>1, OneLineMore
    <2> QED BY <1>1, <1>4, <1>6, <2>2
<1> HIDE DEF n
<1>8. QED
    BY <1>4, <1>6, <1>7

\* Before the export nothing is imported, and after the import nothing changes.
LEMMA ImportStep == ImportInv /\ [Next]_vars => ImportInv'
<1> SUFFICES ASSUME ImportInv, [Next]_vars PROVE ImportInv'
    OBVIOUS
<1>1. CASE WriteRecord \/ PublishPack \/ LosePackEnd \/ OpenPack \/ ReadRecord \/ FinishReading \/ ImportDocument
    <2>1. imported' = imported /\ pc \notin {"importing", "imported", "refused"}
          /\ pc' \notin {"importing", "imported", "refused"}
        <3>1. CASE WriteRecord
            BY <3>1 DEF WriteRecord
        <3>2. CASE PublishPack
            BY <3>2 DEF PublishPack
        <3>3. CASE LosePackEnd
            BY <3>3 DEF LosePackEnd
        <3>4. CASE OpenPack
            BY <3>4 DEF OpenPack
        <3>5. CASE ReadRecord
            BY <3>5 DEF ReadRecord, TakeRecord
        <3>6. CASE FinishReading
            BY <3>6 DEF FinishReading
        <3>7. CASE ImportDocument
            BY <3>7 DEF ImportDocument
        <3> QED BY <1>1, <3>1, <3>2, <3>3, <3>4, <3>5, <3>6, <3>7
    <2> QED BY <2>1 DEF ImportInv
<1>2. CASE Export
    BY <1>2, ExportBegins
<1>3. CASE ImportLine
    BY <1>3, LineIsImported
<1>4. CASE FinishImport
    BY <1>4 DEF FinishImport, ImportInv
<1>5. CASE UNCHANGED vars
    BY <1>5 DEF vars, ImportInv
<1>6. QED
    BY <1>1, <1>2, <1>3, <1>4, <1>5 DEF Next

\* What is imported from the lines of a graph is the graph, or a beginning of it.
LEMMA ImportIsTrue == ASSUME ImportInv, IsGraph(snapshot) PROVE ImportGivesBackTheGraph
<1>1. PICK off : Placed(ListsOfLines(snapshot), off)
    BY LinesOfAGraph
<1>2. ASSUME pc \in {"importing", "imported"}
      PROVE  /\ Len(imported) <= Len(snapshot)
             /\ \A i \in DOMAIN imported :
                    /\ Begun(snapshot[i], imported[i])
                    /\ i < Len(imported) => Begun(imported[i], [snapshot[i] EXCEPT !.path = Lossy(@)])
    <2>1. Progress(snapshot, off, record - 1, imported)
        BY <1>1, <1>2 DEF ImportInv
    <2> QED BY <2>1, SomeLines
<1>3. ASSUME pc = "imported", lines = JsonLines(snapshot)
      PROVE  imported = [i \in DOMAIN snapshot |-> [snapshot[i] EXCEPT !.path = Lossy(@)]]
    <2>1. Progress(snapshot, off, record - 1, imported) /\ record = Len(lines) + 1
        BY <1>1, <1>3 DEF ImportInv
    <2>2. Len(JsonLines(snapshot)) \in Nat
        BY LinesOfAGraph
    <2>3. record - 1 = Len(JsonLines(snapshot))
        BY <1>3, <2>1, <2>2
    <2>4. Progress(snapshot, off, Len(JsonLines(snapshot)), imported)
        BY <2>1, <2>3
    <2>5. imported = [i \in DOMAIN snapshot |-> Stored(snapshot[i])]
        BY <1>1, <2>4, AllLines
    <2> QED BY <2>5 DEF Stored
<1>4. QED
    BY <1>2, <1>3 DEF ImportGivesBackTheGraph

\* Of any graph, whatever its facts are, the import of an export gives it back,
\* and that of an export that stopped gives a beginning of it (write_jsonl and
\* import_jsonl).
LEMMA AnyGraphComesBack == Spec => [](IsGraph(snapshot) => ImportGivesBackTheGraph)
<1>1. Init => ImportInv
    BY DEF Init, ImportInv
<1>2. ImportInv => (IsGraph(snapshot) => ImportGivesBackTheGraph)
    BY ImportIsTrue
<1>3. QED
    BY <1>1, <1>2, ImportStep, PTL DEF Spec
-----------------------------------------------------------------------------
\* A document makes a partition.
LEMMA EnrichedIsPartition ==
    ASSUME NEW d, d.occurrences \in Seq(Range(d.occurrences)), d.path \in Seq(Range(d.path)), NEW format
    PROVE  IsPartition(EnrichedPartition(d, format))
<1> DEFINE p == EnrichedPartition(d, format)
           symbol(i) == OccurrenceNode(d, d.occurrences[i], format)
           edge(i) == SemanticEdge(IF d.occurrences[i].defines THEN "defines" ELSE "references",
                                   FileNode(d, format).id, symbol(i).id, symbol(i).span, format)
<1>1. PICK n \in Nat : n = Len(d.occurrences) /\ DOMAIN d.occurrences = 1 .. n
    OBVIOUS
<1>2. IsList(d.path)
    BY DEF IsList
<1>3. p.nodes = <<FileNode(d, format)>> \o [i \in 1 .. n |-> symbol(i)] /\ p.edges = [i \in 1 .. n |-> edge(i)]
      /\ p.diagnostics = <<>> /\ p.path = d.path
    BY <1>1 DEF EnrichedPartition
<1>4. /\ DOMAIN p = {"file_id", "path", "language", "fingerprint", "parse_time", "extraction_time", "nodes",
                     "edges", "diagnostics"}
      /\ p = [field \in DOMAIN p |-> p[field]]
    BY DEF EnrichedPartition
<1> HIDE DEF p, symbol, edge
<1>5. IsList(p.edges)
    BY <1>3 DEF IsList
<1>6. IsList(p.diagnostics)
    BY <1>3 DEF IsList
<1>7. IsList(p.nodes)
    <2> DEFINE one == <<FileNode(d, format)>>
               more == [i \in 1 .. n |-> symbol(i)]
               S == Range(one) \cup Range(more)
    <2>1. one \in Seq(S) /\ more \in Seq(S)
        <3>1. more \in [1 .. n -> Range(more)]
            BY DEF Range
        <3>2. one \in [1 .. 1 -> Range(one)]
            BY DEF Range
        <3> HIDE DEF one, more
        <3>3. one \in [1 .. 1 -> S] /\ more \in [1 .. n -> S]
            BY <3>1, <3>2
        <3> HIDE DEF S
        <3>4. \A m \in Nat : \A f \in [1 .. m -> S] : f \in Seq(S)
            OBVIOUS
        <3> QED BY <3>3, <3>4
    <2> HIDE DEF one, more, S
    <2>2. one \o more \in Seq(S)
        BY <2>1
    <2>3. ASSUME NEW s \in Seq(S) PROVE IsList(s)
        BY DEF IsList
    <2> QED BY <1>3, <2>2, <2>3 DEF one, more
<1>8. IsPartition(p)
    BY <1>2, <1>3, <1>4, <1>5, <1>6, <1>7 DEF IsPartition
<1>9. QED
    BY <1>8 DEF p

\* Documents make a graph.
LEMMA EnrichedIsGraph ==
    ASSUME NEW i \in Inputs, NEW graph \in Seq(PartitionsOf(Range(i.documents), i.format)), NEW documents,
           Mirrors(graph, documents, i.format)
    PROVE  IsGraph(graph)
<1>1. ASSUME NEW d \in Range(i.documents) PROVE IsPartition(EnrichedPartition(d, i.format))
    BY EnrichedIsPartition, InputsAssumption
<1> DEFINE P == PartitionsOf(Range(i.documents), i.format)
<1>2. \A p \in P : IsPartition(p)
    BY <1>1 DEF PartitionsOf
<1> HIDE DEF P
<1>3. graph \in Seq(P)
    BY DEF P
<1>4. IsList(graph)
    BY <1>3 DEF IsList
<1>5. \A k \in DOMAIN graph : IsPartition(graph[k])
    BY <1>2, <1>3
<1>6. QED
    BY <1>4, <1>5 DEF IsGraph, Mirrors

\* What does not come from a pack is a graph.
DocumentsInv == EnrichmentInv /\ (written = <<>> => IsGraph(snapshot))

\* No step makes it anything else.
LEMMA DocumentsStep == DocumentsInv /\ [Next]_vars => DocumentsInv'
<1> SUFFICES ASSUME DocumentsInv, [Next]_vars PROVE DocumentsInv'
    OBVIOUS
<1>1. EnrichmentInv'
    BY EnrichmentStep DEF DocumentsInv
<1>2. written' = written
    <2>1. CASE WriteRecord \/ PublishPack \/ LosePackEnd \/ OpenPack
        BY <2>1 DEF WriteRecord, PublishPack, LosePackEnd, OpenPack
    <2>2. CASE ReadRecord \/ FinishReading \/ ImportDocument
        BY <2>2 DEF ReadRecord, TakeRecord, FinishReading, ImportDocument
    <2>3. CASE Export \/ ImportLine \/ FinishImport
        BY <2>3 DEF Export, ImportLine, FinishImport
    <2>4. CASE UNCHANGED vars
        BY <2>4 DEF vars
    <2> QED BY <2>1, <2>2, <2>3, <2>4 DEF Next
<1>3. ASSUME written = <<>> PROVE IsGraph(snapshot')
    <2>1. CASE ImportDocument
        <3>1. Enriched'
            BY <1>2, <1>3, <2>1 DEF ImportDocument, Enriched
        <3>2. /\ input' \in Inputs /\ snapshot' \in Seq(PartitionsOf(Range(input'.documents), input'.format))
              /\ Mirrors(snapshot', DocumentsRead', input'.format)
            BY <1>1, <3>1 DEF EnrichmentInv
        <3> QED BY <3>2, EnrichedIsGraph
    <2>2. CASE ReadRecord
        <3>1. pc = "reading"
            BY <2>2 DEF ReadRecord, TakeRecord
        <3> QED BY <1>3, <3>1 DEF DocumentsInv, EnrichmentInv
    <2>3. CASE UNCHANGED snapshot
        BY <1>3, <2>3 DEF DocumentsInv
    <2>4. UNCHANGED snapshot \/ ReadRecord \/ ImportDocument
        BY DEF vars, Next, WriteRecord, PublishPack, LosePackEnd, OpenPack, FinishReading, Export, ImportLine,
               FinishImport
    <2> QED BY <2>1, <2>2, <2>3, <2>4
<1>4. QED
    BY <1>1, <1>2, <1>3 DEF DocumentsInv

\* Before the first of them it is the empty graph.
LEMMA DocumentsInit == Init => DocumentsInv
<1>1. Init => EnrichmentInv
    BY EnrichmentInit
<1>2. Init => IsGraph(snapshot)
    BY DEF Init, IsGraph, IsList
<1>3. QED
    BY <1>1, <1>2 DEF DocumentsInv
-----------------------------------------------------------------------------
(* The pack.                                                               *)

\* FlattenSeq appends what is appended.
LEMMA FlattenOneMore ==
    ASSUME NEW T, NEW seqs \in Seq(Seq(T)), NEW x \in Seq(T)
    PROVE  FlattenSeq(seqs) \in Seq(T) /\ FlattenSeq(Append(seqs, x)) = FlattenSeq(seqs) \o x
<1> DEFINE more == Append(seqs, x)
<1>0. FlattenSeq(seqs) \in Seq(T)
    BY Flattened
<1>1. PICK n \in Nat : n = Len(seqs)
    OBVIOUS
<1>2. more \in Seq(Seq(T)) /\ Len(more) = n + 1 /\ more[n + 1] = x /\ \A i \in 1 .. n : more[i] = seqs[i]
    BY <1>1
<1> HIDE DEF more
<1>3. PICK g \in [1 .. n + 1 -> Seq(T)] : Flattens(g, more) /\ FlattenSeq(more) = g[n + 1]
    BY <1>1, <1>2, FlatteningFlattens
<1>4. CASE n = 0
    <2>0. seqs = <<>>
        <3>1. \A S : \A q \in Seq(S) : Len(q) = 0 => q = <<>>
            OBVIOUS
        <3> QED BY <1>1, <1>4, <3>1
    <2>1. seqs = <<>> /\ FlattenSeq(seqs) = <<>>
        <3>1. FlattenSeq(<<>>) = <<>>
            BY DEF FlattenSeq
        <3> QED BY <2>0, <3>1
    <2>2. g[1] = more[1]
        BY <1>3, <1>4 DEF Flattens
    <2>3. <<>> \o x = x
        OBVIOUS
    <2> QED BY <1>0, <1>2, <1>3, <1>4, <2>1, <2>2, <2>3 DEF more
<1>5. CASE n > 0
    <2>1. PICK f \in [1 .. n -> Seq(T)] : Flattens(f, seqs) /\ FlattenSeq(seqs) = f[n]
        BY <1>1, <1>5, FlatteningFlattens
    <2>2. \A i \in 1 .. n : f[i] = IF i = 1 THEN seqs[1] ELSE f[i - 1] \o seqs[i]
        BY <2>1 DEF Flattens
    <2>3. \A i \in 1 .. n + 1 : g[i] = IF i = 1 THEN more[1] ELSE g[i - 1] \o more[i]
        BY <1>3 DEF Flattens
    <2> DEFINE I == {k \in 0 .. n : k = 0 \/ g[k] = f[k]}
    <2>4. 0 \in I
        BY <1>1
    <2>5. ASSUME NEW k \in 1 .. n, k - 1 \in I PROVE k \in I
        <3>1. k \in 1 .. n + 1 /\ k \in 0 .. n /\ more[k] = seqs[k]
            BY <1>2
        <3>2. f[k] = IF k = 1 THEN seqs[1] ELSE f[k - 1] \o seqs[k]
            BY <2>2
        <3>3. g[k] = IF k = 1 THEN seqs[k] ELSE g[k - 1] \o seqs[k]
            BY <2>3, <3>1
        <3>4. CASE k = 1
            BY <3>1, <3>2, <3>3, <3>4
        <3>5. CASE k # 1
            <4>1. g[k - 1] = f[k - 1]
                BY <2>5, <3>5
            <4> QED BY <3>1, <3>2, <3>3, <3>5, <4>1
        <3> QED BY <3>4, <3>5
    <2> HIDE DEF I
    <2>6. n \in I
        <3>1. \A k \in 0 .. n : k \in I
            BY <2>4, <2>5, Upward
        <3> QED BY <3>1
    <2>7. g[n] = f[n]
        BY <1>5, <2>6 DEF I
    <2>8. n + 1 \in 1 .. n + 1 /\ n + 1 # 1 /\ n + 1 - 1 = n
        BY <1>5
    <2>9. g[n + 1] = g[n] \o x
        <3>1. ASSUME NEW i \in 1 .. n + 1, i # 1, i - 1 = n PROVE g[i] = g[n] \o more[i]
            BY <2>3, <3>1
        <3> QED BY <1>2, <2>8, <3>1
    <2> QED BY <1>0, <1>3, <2>1, <2>7, <2>9 DEF more
<1>6. QED
    BY <1>4, <1>5

\* FlattenSeq of two lists in turn.
LEMMA FlattenTwo ==
    ASSUME NEW T, NEW s \in Seq(Seq(T)), NEW t \in Seq(Seq(T))
    PROVE  FlattenSeq(s \o t) = FlattenSeq(s) \o FlattenSeq(t)
<1> DEFINE start(k) == SubSeq(t, 1, k)
           I == {k \in 0 .. Len(t) : FlattenSeq(s \o start(k)) = FlattenSeq(s) \o FlattenSeq(start(k))}
<1>1. PICK n \in Nat : n = Len(t)
    OBVIOUS
<1>2. FlattenSeq(s) \in Seq(T)
    BY Flattened
<1>3. 0 \in I
    <2>1. start(0) = <<>> /\ s \o <<>> = s
        OBVIOUS
    <2>2. FlattenSeq(<<>>) = <<>>
        BY DEF FlattenSeq
    <2>3. \A u \in Seq(T) : u \o <<>> = u
        OBVIOUS
    <2>4. FlattenSeq(s) \o <<>> = FlattenSeq(s)
        BY <1>2, <2>3
    <2>5. FlattenSeq(s \o start(0)) = FlattenSeq(s) \o FlattenSeq(start(0))
        <3> HIDE DEF start
        <3> QED BY <2>1, <2>2, <2>4
    <2> QED BY <1>1, <2>5
<1>4. ASSUME NEW k \in 1 .. n, k - 1 \in I PROVE k \in I
    <2>1. /\ start(k - 1) \in Seq(Seq(T)) /\ t[k] \in Seq(T)
          /\ start(k) = Append(start(k - 1), t[k])
        BY <1>1
    <2> DEFINE u == start(k - 1)
               v == start(k)
    <2>2. FlattenSeq(s \o u) = FlattenSeq(s) \o FlattenSeq(u)
        BY <1>4
    <2>3. k \in 0 .. Len(t)
        BY <1>1
    <2> SUFFICES FlattenSeq(s \o v) = FlattenSeq(s) \o FlattenSeq(v)
        BY <2>3
    <2>4. u \in Seq(Seq(T)) /\ t[k] \in Seq(T) /\ v = Append(u, t[k])
        BY <2>1
    <2> HIDE DEF u, v, I, start
    <2>5. s \o v = Append(s \o u, t[k]) /\ s \o u \in Seq(Seq(T))
        BY <2>4, SMTT(20)
    <2>6. FlattenSeq(s \o v) = FlattenSeq(s \o u) \o t[k]
        BY <2>4, <2>5, FlattenOneMore
    <2>7. FlattenSeq(v) = FlattenSeq(u) \o t[k] /\ FlattenSeq(u) \in Seq(T)
        BY <2>4, FlattenOneMore
    <2>8. \A a, b, c \in Seq(T) : (a \o b) \o c = a \o (b \o c)
        OBVIOUS
    <2>9. (FlattenSeq(s) \o FlattenSeq(u)) \o t[k] = FlattenSeq(s) \o (FlattenSeq(u) \o t[k])
        BY <1>2, <2>4, <2>7, <2>8, Zenon
    <2> QED BY <2>2, <2>6, <2>7, <2>9
<1> HIDE DEF I, start
<1>5. \A k \in 0 .. n : k \in I
    BY <1>3, <1>4, Upward
<1>6. Len(t) \in I
    BY <1>1, <1>5
<1>7. start(Len(t)) = t
    BY DEF start
<1>8. QED
    BY <1>6, <1>7 DEF I

\* The partitions the writer accepts.
Packable == {p \in Partitions : Fits(p)}

\* One record more goes behind the others.
LEMMA OneRecordMore ==
    ASSUME NEW u \in Seq(Packable), NEW p \in Packable
    PROVE  /\ PackBytes(u) \in Strings /\ RecordBytes(p) \in Strings
           /\ PackBytes(Append(u, p)) = PackBytes(u) \o RecordBytes(p)
<1> DEFINE records == [i \in DOMAIN u |-> RecordBytes(u[i])]
           v == Append(u, p)
           more == [i \in DOMAIN v |-> RecordBytes(v[i])]
           x == RecordBytes(p)
<1>1. \A q \in Packable : RecordBytes(q) \in Strings
    BY PartitionIsReadBack DEF Packable
<1>2. PICK n \in Nat : n = Len(u) /\ DOMAIN u = 1 .. n /\ \A i \in 1 .. n : u[i] \in Packable
    OBVIOUS
<1>3. DOMAIN v = 1 .. n + 1 /\ v[n + 1] = p /\ \A i \in 1 .. n : v[i] = u[i]
    BY <1>2
<1>4. records = [i \in 1 .. n |-> RecordBytes(u[i])] /\ records \in Seq(Strings)
    BY <1>1, <1>2
<1>5. x \in Strings
    BY <1>1
<1>6. more = Append(records, x)
    <2>1. more = [i \in 1 .. n + 1 |-> RecordBytes(v[i])]
        BY <1>3
    <2>2. \A i \in 1 .. n : more[i] = records[i]
        BY <1>3, <1>4, <2>1
    <2>3. more[n + 1] = x
        BY <1>2, <1>3, <2>1
    <2>4. Len(records) = n
        BY <1>4
    <2>5. \A i \in 1 .. n + 1 : more[i] = Append(records, x)[i]
        <3> HIDE DEF more, x, v, records
        <3>1. \A i \in 1 .. n : Append(records, x)[i] = records[i]
            BY <1>4, <1>5, <2>4
        <3>2. Append(records, x)[n + 1] = x
            BY <1>4, <1>5, <2>4
        <3>3. \A i \in 1 .. n + 1 : i \in 1 .. n \/ i = n + 1
            BY <1>2
        <3> QED BY <2>2, <2>3, <3>1, <3>2, <3>3
    <2>6. more \in [1 .. n + 1 -> {more[i] : i \in 1 .. n + 1}]
        BY <2>1
    <2> HIDE DEF more, x, v, records
    <2>7. DOMAIN Append(records, x) = 1 .. n + 1 /\ Append(records, x) = [i \in 1 .. n + 1 |-> Append(records, x)[i]]
        BY <1>4, <1>5, <2>4
    <2>8. more = [i \in 1 .. n + 1 |-> more[i]]
        BY <2>6
    <2> QED BY <2>5, <2>7, <2>8, Zenon
<1>7. PackBytes(u) = Magic \o FlattenSeq(records) /\ PackBytes(v) = Magic \o FlattenSeq(more)
    BY DEF PackBytes
<1> HIDE DEF records, more, x
<1>8. FlattenSeq(records) \in Strings /\ FlattenSeq(more) = FlattenSeq(records) \o x
    BY <1>4, <1>5, <1>6, FlattenOneMore DEF Strings
<1>9. Magic \in Strings
    BY PacksAssumption DEF Strings
<1>10. \A a, b, c \in Strings : a \o b \in Strings /\ a \o (b \o c) = (a \o b) \o c
    BY SMTT(30) DEF Strings
<1>11. Magic \o (FlattenSeq(records) \o x) = (Magic \o FlattenSeq(records)) \o x
    BY <1>5, <1>8, <1>9, <1>10, Zenon
<1>12. QED
    BY <1>5, <1>7, <1>8, <1>9, <1>10, <1>11 DEF x

\* The pack up to a record.
FirstRecords(w, n) == PackBytes(SubSeq(w, 1, n))

\* It begins with the magic bytes and grows by a record at a time.
LEMMA Layout ==
    ASSUME NEW w \in Seq(Packable)
    PROVE  /\ Len(w) \in Nat /\ DOMAIN w = 1 .. Len(w)
           /\ FirstRecords(w, 0) = Magic /\ FirstRecords(w, Len(w)) = PackBytes(w)
           /\ \A n \in 0 .. Len(w) : FirstRecords(w, n) \in Strings
           /\ \A n \in 1 .. Len(w) : /\ w[n] \in Packable
                                     /\ RecordBytes(w[n]) \in Strings
                                     /\ FirstRecords(w, n) = FirstRecords(w, n - 1) \o RecordBytes(w[n])
<1>1. Len(w) \in Nat /\ DOMAIN w = 1 .. Len(w)
    OBVIOUS
<1>2. FirstRecords(w, Len(w)) = PackBytes(w)
    <2>1. SubSeq(w, 1, Len(w)) = w
        OBVIOUS
    <2> QED BY <2>1, Zenon DEF FirstRecords
<1>3. FirstRecords(w, 0) = Magic
    <2>1. SubSeq(w, 1, 0) = <<>>
        OBVIOUS
    <2>2. PackBytes(<<>>) = Magic \o FlattenSeq([i \in DOMAIN <<>> |-> RecordBytes(<<>>[i])])
        BY DEF PackBytes
    <2>3. [i \in DOMAIN <<>> |-> RecordBytes(<<>>[i])] = <<>>
        OBVIOUS
    <2>4. FlattenSeq(<<>>) = <<>>
        BY DEF FlattenSeq
    <2>5. Magic \o <<>> = Magic
        BY PacksAssumption
    <2> QED BY <2>1, <2>2, <2>3, <2>4, <2>5 DEF FirstRecords
<1>4. \A n \in 0 .. Len(w) : SubSeq(w, 1, n) \in Seq(Packable)
    OBVIOUS
<1>5. \A p : p \in Packable => \A n \in 0 .. Len(w) : FirstRecords(w, n) \in Strings
    BY <1>4, OneRecordMore DEF FirstRecords
<1>6. \A n \in 1 .. Len(w) : /\ w[n] \in Packable
                             /\ RecordBytes(w[n]) \in Strings
                             /\ FirstRecords(w, n) = FirstRecords(w, n - 1) \o RecordBytes(w[n])
    <2> TAKE n \in 1 .. Len(w)
    <2>1. w[n] \in Packable /\ n - 1 \in 0 .. Len(w)
        BY <1>1
    <2>2. SubSeq(w, 1, n) = Append(SubSeq(w, 1, n - 1), w[n])
        BY <1>1
    <2>3. SubSeq(w, 1, n - 1) \in Seq(Packable)
        BY <1>4, <2>1
    <2> QED BY <2>1, <2>2, <2>3, OneRecordMore DEF FirstRecords
<1>7. \A n \in 0 .. Len(w) : FirstRecords(w, n) \in Strings
    <2>1. CASE Len(w) = 0
        <3>1. \A n \in 0 .. Len(w) : n = 0
            BY <2>1
        <3> QED BY <1>3, <3>1, PacksAssumption DEF Strings
    <2>2. CASE Len(w) # 0
        <3>1. 1 \in 1 .. Len(w)
            BY <1>1, <2>2
        <3> QED BY <1>5, <1>6, <3>1
    <2> QED BY <2>1, <2>2
<1>8. QED
    BY <1>1, <1>2, <1>3, <1>6, <1>7

\* One sequence of bytes begins another.
Begins(s, t) == Len(s) <= Len(t) /\ \A j \in 1 .. Len(s) : t[j] = s[j]

\* Fewer records begin more of them, and are strictly shorter.
LEMMA RecordsInTurn ==
    ASSUME NEW w \in Seq(Packable), NEW m \in 0 .. Len(w), NEW n \in 0 .. m
    PROVE  /\ Begins(FirstRecords(w, n), FirstRecords(w, m))
           /\ n < m => Len(FirstRecords(w, n)) < Len(FirstRecords(w, m))
           /\ Len(FirstRecords(w, n)) \in Nat
<1> DEFINE F(k) == FirstRecords(w, k)
           I == {k \in 0 .. Len(w) : \A l \in 0 .. k : Begins(F(l), F(k)) /\ (l < k => Len(F(l)) < Len(F(k)))}
<1>1. /\ Len(w) \in Nat
      /\ \A k \in 0 .. Len(w) : F(k) \in Strings /\ Len(F(k)) \in Nat
      /\ \A k \in 1 .. Len(w) : F(k) = F(k - 1) \o RecordBytes(w[k]) /\ RecordBytes(w[k]) \in Strings
                                /\ Len(RecordBytes(w[k])) \in Nat \ {0}
    <2>1. \A s \in Strings : Len(s) \in Nat
        BY DEF Strings
    <2>2. \A p \in Packable : Len(RecordBytes(p)) \in Nat \ {0}
        BY PartitionIsReadBack DEF Packable
    <2> QED BY <2>1, <2>2, Layout
<1>2. 0 \in I
    <2>1. \A l \in 0 .. 0 : l = 0
        OBVIOUS
    <2>2. 0 \in 0 .. Len(w) /\ Len(F(0)) \in Nat
        BY <1>1
    <2> HIDE DEF F
    <2> QED BY <2>1, <2>2 DEF Begins
<1>3. ASSUME NEW k \in 1 .. Len(w), k - 1 \in I PROVE k \in I
    <2> DEFINE s == F(k - 1)
               b == RecordBytes(w[k])
               t == F(k)
    <2>0. k \in 0 .. Len(w) /\ k - 1 \in 0 .. Len(w)
        BY <1>1
    <2>1. s \in Strings /\ b \in Strings /\ t = s \o b /\ Len(s) \in Nat /\ Len(b) \in Nat \ {0} /\ Len(t) \in Nat
        BY <1>1, <2>0
    <2>2. \A l \in 0 .. k - 1 : Begins(F(l), s) /\ Len(F(l)) \in Nat
        BY <1>1, <1>3, <2>0
    <2>3. \A l \in 0 .. k : l \in 0 .. k - 1 \/ l = k
        OBVIOUS
    <2>4. ~ (k < k) /\ \A l \in 0 .. k - 1 : l < k
        OBVIOUS
    <2> HIDE DEF s, b, t, F
    <2>5. Len(t) = Len(s) + Len(b) /\ \A j \in 1 .. Len(s) : t[j] = s[j]
        BY <2>1, Joined DEF Joins, Strings
    <2>6. ASSUME NEW l \in 0 .. k - 1 PROVE Begins(F(l), t) /\ Len(F(l)) < Len(t)
        <3> DEFINE u == F(l)
        <3>1. Begins(u, s) /\ Len(u) \in Nat
            BY <2>2
        <3> HIDE DEF u
        <3>2. Len(u) <= Len(s) /\ \A j \in 1 .. Len(u) : s[j] = u[j] /\ j \in 1 .. Len(s)
            BY <2>1, <3>1 DEF Begins
        <3>3. Len(u) < Len(t)
            BY <2>1, <2>5, <3>1, <3>2
        <3>4. Begins(u, t)
            BY <2>1, <2>5, <3>1, <3>2, <3>3 DEF Begins
        <3> QED BY <3>3, <3>4 DEF u
    <2>7. Begins(t, t)
        BY <2>1 DEF Begins
    <2>8. t = F(k)
        BY DEF t
    <2> QED BY <2>0, <2>3, <2>4, <2>6, <2>7, <2>8
<1> HIDE DEF I
<1>4. \A k \in 0 .. Len(w) : k \in I
    BY <1>1, <1>2, <1>3, Upward
<1>5. m \in I /\ n \in 0 .. Len(w)
    BY <1>1, <1>4
<1>6. QED
    BY <1>1, <1>5 DEF I

\* What the reader makes of the next record of a pack that may have lost its
\* end: the partition as it was written; the end, where the pack ends before the
\* record; and an error, where it ends within it.
LEMMA NextRecordIsRead ==
    ASSUME NEW w \in Seq(Packable), NEW bytes \in Strings, Begins(bytes, PackBytes(w)),
           NEW r \in 1 .. Len(w), Len(FirstRecords(w, r - 1)) <= Len(bytes),
           NEW read, read = ReadPartition(Drop(bytes, Len(FirstRecords(w, r - 1))))
    PROVE  \/ /\ read.outcome = "partition" /\ read.partition = Stored(w[r])
              /\ Len(FirstRecords(w, r)) <= Len(bytes)
              /\ read.rest = Drop(bytes, Len(FirstRecords(w, r)))
           \/ /\ read.outcome = "end"
              /\ bytes = FirstRecords(w, r - 1)
              /\ bytes # PackBytes(w)
           \/ /\ read.outcome = "error"
              /\ \A n \in 0 .. Len(w) : bytes # FirstRecords(w, n)
<1> DEFINE s == FirstRecords(w, r - 1)
           t == FirstRecords(w, r)
           b == RecordBytes(w[r])
           all == PackBytes(w)
           a == Len(s)
           left == Drop(bytes, a)
<1>0. Len(w) \in Nat /\ r - 1 \in 0 .. Len(w) /\ r \in 0 .. Len(w) /\ Len(w) \in 0 .. Len(w) /\ r - 1 \in 0 .. r
      /\ r - 1 < r /\ r <= Len(w) /\ r - 1 < Len(w) /\ r \in 0 .. r
    BY Layout
<1>1. /\ s \in Strings /\ t \in Strings /\ b \in Strings /\ t = s \o b /\ all \in Strings
      /\ w[r] \in Partitions /\ Fits(w[r]) /\ all = FirstRecords(w, Len(w))
    BY <1>0, Layout DEF Packable
<1>2. /\ Begins(s, all) /\ Begins(t, all) /\ a \in Nat /\ a < Len(all) /\ Len(t) <= Len(all)
    BY <1>0, <1>1, RecordsInTurn DEF Begins
<1>3. Len(b) \in Nat \ {0} /\ Len(bytes) \in Nat /\ Len(t) \in Nat /\ Len(all) \in Nat
      /\ Len(t) = a + Len(b) /\ \A j \in 1 .. Len(b) : t[a + j] = b[j]
    <2>1. Len(b) \in Nat \ {0}
        BY <1>1, PartitionIsReadBack
    <2>2. Len(bytes) \in Nat /\ Len(t) \in Nat /\ Len(all) \in Nat
        BY <1>1 DEF Strings
    <2> HIDE DEF s, b, t, all
    <2> QED BY <1>1, <2>1, <2>2, Joined DEF Joins, Strings, a
<1>4. a <= Len(bytes)
    OBVIOUS
<1>5. read = ReadPartition(left)
    OBVIOUS
<1>6. Begins(bytes, all)
    OBVIOUS
<1>7. \A n \in 0 .. r - 1 : Len(FirstRecords(w, n)) <= a
    <2> TAKE n \in 0 .. r - 1
    <2> QED BY <1>0, RecordsInTurn DEF Begins
<1>8. \A n \in r .. Len(w) : Len(t) <= Len(FirstRecords(w, n))
    <2> TAKE n \in r .. Len(w)
    <2>1. n \in 0 .. Len(w) /\ r \in 0 .. n
        BY <1>0
    <2> QED BY <2>1, RecordsInTurn DEF Begins
<1> HIDE DEF s, t, b, all
<1>9. /\ left \in Strings /\ Len(left) = Len(bytes) - a
      /\ \A j \in 1 .. Len(bytes) - a : left[j] = bytes[a + j]
    <2>1. a \in 0 .. Len(bytes)
        BY <1>2, <1>3, <1>4
    <2> QED BY <2>1, Dropped
<1>10. Agree(left, b)
    <2> DEFINE l == Len(bytes)
               m == Len(all)
               k == Len(b)
               d == Len(left)
    <2>1. l \in Nat /\ m \in Nat /\ k \in Nat /\ a \in Nat /\ d = l - a /\ l <= m /\ a + k <= m /\ Len(t) = a + k
        BY <1>2, <1>3, <1>6, <1>9 DEF Begins
    <2>2. /\ \A j \in 1 .. l : all[j] = bytes[j]
          /\ \A j \in 1 .. Len(t) : all[j] = t[j]
          /\ \A j \in 1 .. k : t[a + j] = b[j]
          /\ \A j \in 1 .. l - a : left[j] = bytes[a + j]
        BY <1>2, <1>3, <1>6, <1>9 DEF Begins
    <2> HIDE DEF l, m, k, d, a, left
    <2>3. ASSUME NEW j \in 1 .. k, j <= d PROVE left[j] = b[j]
        <3>1. j \in 1 .. l - a /\ a + j \in 1 .. l /\ a + j \in 1 .. a + k
            BY <2>1, <2>3
        <3> QED BY <2>1, <2>2, <3>1
    <2> QED BY <2>3 DEF Agree, k, d
<1>11. read = IF left = <<>> THEN NoMore
              ELSE IF Len(b) <= Len(left)
                   THEN [outcome |-> "partition", partition |-> Stored(w[r]), rest |-> Drop(left, Len(b))]
                   ELSE Unreadable
    <2> HIDE DEF left, a
    <2> QED BY <1>1, <1>5, <1>9, <1>10, PartitionIsReadBack DEF b
<1>12. CASE left = <<>>
    <2>1. Len(bytes) = a
        BY <1>2, <1>3, <1>9, <1>12
    <2>2. \A j \in 1 .. a : bytes[j] = s[j]
        <3> HIDE DEF a
        <3>1. \A j \in 1 .. a : all[j] = s[j] /\ all[j] = bytes[j]
            BY <1>2, <1>6, <2>1 DEF Begins, a
        <3> QED BY <3>1
    <2>3. bytes = s
        BY <1>1, <2>1, <2>2, SameList DEF Strings
    <2>4. bytes # all
        BY <1>2, <1>3, <2>1
    <2>5. read.outcome = "end"
        BY <1>11, <1>12 DEF NoMore
    <2> QED BY <2>3, <2>4, <2>5 DEF s, all
<1>13. CASE left # <<>> /\ Len(b) <= Len(left)
    <2>1. read.outcome = "partition" /\ read.partition = Stored(w[r]) /\ read.rest = Drop(left, Len(b))
        BY <1>11, <1>13
    <2>2. a + Len(b) <= Len(bytes)
        BY <1>2, <1>3, <1>9, <1>13
    <2>3. Drop(left, Len(b)) = Drop(bytes, a + Len(b))
        BY <1>2, <1>3, <2>2, DroppedTwice
    <2> QED BY <1>3, <2>1, <2>2, <2>3 DEF t
<1>14. CASE left # <<>> /\ ~ (Len(b) <= Len(left))
    <2>1. read.outcome = "error"
        BY <1>11, <1>14 DEF Unreadable
    <2>2. Len(left) # 0
        <3>1. \A q \in Strings : Len(q) = 0 => q = <<>>
            BY DEF Strings
        <3> HIDE DEF left
        <3> QED BY <1>9, <1>14, <3>1
    <2>3. a < Len(bytes) /\ Len(bytes) < Len(t)
        BY <1>2, <1>3, <1>4, <1>9, <1>14, <2>2
    <2>4. ASSUME NEW n \in 0 .. Len(w), bytes = FirstRecords(w, n) PROVE FALSE
        <3>1. n \in 0 .. r - 1 \/ n \in r .. Len(w)
            BY <1>0
        <3> QED BY <1>2, <1>3, <1>7, <1>8, <2>3, <2>4, <3>1
    <2> QED BY <2>1, <2>4
<1>15. QED
    BY <1>12, <1>13, <1>14

\* What is left of a whole pack after some records are the others.
LEMMA OthersFollow ==
    ASSUME NEW w \in Seq(Packable), NEW r \in 1 .. Len(w) + 1
    PROVE  Drop(PackBytes(w), Len(FirstRecords(w, r - 1)))
             = FlattenSeq([i \in 1 .. Len(w) - r + 1 |-> RecordBytes(w[r + i - 1])])
<1> DEFINE n == Len(w)
           first == [i \in 1 .. r - 1 |-> RecordBytes(w[i])]
           others == [i \in 1 .. n - r + 1 |-> RecordBytes(w[r + i - 1])]
           records == [i \in 1 .. n |-> RecordBytes(w[i])]
           s == FirstRecords(w, r - 1)
<1>1. n \in Nat /\ DOMAIN w = 1 .. n /\ r - 1 \in 0 .. n /\ n - r + 1 \in Nat
      /\ \A i \in 1 .. n : RecordBytes(w[i]) \in Strings
    <2>1. n \in Nat /\ DOMAIN w = 1 .. n /\ \A i \in 1 .. n : RecordBytes(w[i]) \in Strings
        BY Layout
    <2> QED BY <2>1
<1> DEFINE rec(i) == RecordBytes(w[i])
<1> HIDE DEF n
<1>2. first \in Seq(Strings) /\ others \in Seq(Strings) /\ records \in Seq(Strings)
    <2>1. \A i \in 1 .. r - 1 : rec(i) \in Strings
        BY <1>1
    <2>2. \A i \in 1 .. n - r + 1 : rec(r + i - 1) \in Strings
        BY <1>1
    <2>3. \A i \in 1 .. n : rec(i) \in Strings
        BY <1>1
    <2> HIDE DEF rec
    <2>4. [i \in 1 .. r - 1 |-> rec(i)] \in Seq(Strings) /\ [i \in 1 .. n - r + 1 |-> rec(r + i - 1)] \in Seq(Strings)
          /\ [i \in 1 .. n |-> rec(i)] \in Seq(Strings)
        BY <1>1, <2>1, <2>2, <2>3
    <2> QED BY <2>4 DEF rec
<1>3. records = first \o others
    <2> HIDE DEF rec
    <2>1. [i \in 1 .. n |-> rec(i)] = [i \in 1 .. r - 1 |-> rec(i)] \o [i \in 1 .. n - r + 1 |-> rec(r + i - 1)]
        BY <1>1
    <2> QED BY <2>1 DEF rec
<1>4. s = Magic \o FlattenSeq(first)
    <2> DEFINE u == SubSeq(w, 1, r - 1)
    <2>1. DOMAIN u = 1 .. r - 1 /\ \A i \in 1 .. r - 1 : u[i] = w[i]
        BY <1>1 DEF n
    <2>2. PackBytes(u) = Magic \o FlattenSeq([i \in DOMAIN u |-> RecordBytes(u[i])])
        BY DEF PackBytes
    <2> HIDE DEF u
    <2>3. [i \in DOMAIN u |-> RecordBytes(u[i])] = first
        BY <2>1
    <2> QED BY <2>2, <2>3 DEF u, FirstRecords
<1>5. PackBytes(w) = Magic \o FlattenSeq(records)
    BY <1>1 DEF PackBytes
<1> HIDE DEF first, others, records, s, rec
<1>6. FlattenSeq(records) = FlattenSeq(first) \o FlattenSeq(others)
      /\ FlattenSeq(first) \in Strings /\ FlattenSeq(others) \in Strings /\ Magic \in Strings
    BY <1>2, <1>3, FlattenTwo, Flattened, PacksAssumption DEF Strings
<1> DEFINE x == FlattenSeq(first)
           y == FlattenSeq(others)
<1>7. \A a, b, c \in Strings : /\ a \o (b \o c) = (a \o b) \o c
                               /\ a \o b \in Strings
                               /\ Drop(a \o b, Len(a)) = b
    <2>1. \A T : \A a, b \in Seq(T) : a \o b \in Seq(T) /\ SubSeq(a \o b, Len(a) + 1, Len(a \o b)) = b
        OBVIOUS
    <2> TAKE a, b, c \in Strings
    <2> DEFINE T == 0 .. U8Max
    <2>2. a \in Seq(T) /\ b \in Seq(T) /\ c \in Seq(T)
        BY DEF Strings
    <2> HIDE DEF T
    <2>3. a \o (b \o c) = (a \o b) \o c
        BY <2>2
    <2>4. a \o b \in Seq(T) /\ SubSeq(a \o b, Len(a) + 1, Len(a \o b)) = b
        BY <2>1, <2>2, Zenon
    <2> QED BY <2>3, <2>4, Zenon DEF Strings, Drop, T
<1> HIDE DEF x, y
<1>8. x \in Strings /\ y \in Strings /\ s = Magic \o x /\ PackBytes(w) = Magic \o (x \o y) /\ Magic \in Strings
    BY <1>4, <1>5, <1>6 DEF x, y
<1>9. Magic \o (x \o y) = s \o y /\ s \in Strings
    BY <1>7, <1>8, Zenon
<1>10. Drop(s \o y, Len(s)) = y
    BY <1>7, <1>8, <1>9, Zenon
<1>11. Drop(PackBytes(w), Len(s)) = y
    BY <1>8, <1>9, <1>10, Zenon
<1>12. QED
    BY <1>11 DEF s, y, others, n
-----------------------------------------------------------------------------
(* The graph in memory.                                                    *)

\* How many of some records have a number up to n.
Count(want, n) == Cardinality({i \in want : i <= n})

\* Of no records it is none, and each wanted record adds one.
LEMMA OneMoreWanted ==
    ASSUME NEW m \in Nat, NEW want \in SUBSET (1 .. m)
    PROVE  /\ Count(want, 0) = 0
           /\ \A n \in Nat : Count(want, n) \in Nat
           /\ \A r \in Nat \ {0} : Count(want, r) = IF r \in want THEN Count(want, r - 1) + 1 ELSE Count(want, r - 1)
<1>0. \A i \in want : i \in 1 .. m /\ i \in Int /\ i >= 1
    OBVIOUS
<1>1. \A n \in Nat : IsFiniteSet({i \in want : i <= n})
    <2>1. IsFiniteSet(1 .. m)
        BY FS_Interval
    <2>2. \A n \in Nat : {i \in want : i <= n} \in SUBSET (1 .. m)
        OBVIOUS
    <2> QED BY <2>1, <2>2, FS_Subset
<1>2. Count(want, 0) = 0
    <2>0. \A i \in want : ~ (i <= 0)
        BY <1>0
    <2>1. {i \in want : i <= 0} = {}
        BY <2>0, Zenon
    <2> QED BY <2>1, FS_EmptySet DEF Count
<1>3. \A n \in Nat : Count(want, n) \in Nat
    BY <1>1, FS_CardinalityType DEF Count
<1>4. ASSUME NEW r \in Nat \ {0}
      PROVE  Count(want, r) = IF r \in want THEN Count(want, r - 1) + 1 ELSE Count(want, r - 1)
    <2> DEFINE S == {i \in want : i <= r - 1}
               U == {i \in want : i <= r}
    <2>0. \A i \in want : i <= r <=> i <= r - 1 \/ i = r
        BY <1>0
    <2>1. IsFiniteSet(S) /\ r \notin S
        <3>1. r - 1 \in Nat /\ ~ (r <= r - 1)
            OBVIOUS
        <3> QED BY <1>1, <3>1
    <2>2. r \in want => U = S \cup {r}
        <3>1. r <= r
            OBVIOUS
        <3> QED BY <2>0, <3>1
    <2>3. r \notin want => U = S
        BY <2>0
    <2>4. Count(want, r) = Cardinality(U) /\ Count(want, r - 1) = Cardinality(S)
        BY DEF Count
    <2> HIDE DEF S, U
    <2>5. Cardinality(S \cup {r}) = Cardinality(S) + 1
        BY <2>1, FS_AddElement
    <2> QED BY <2>2, <2>3, <2>4, <2>5
<1>5. QED
    BY <1>2, <1>3, <1>4

\* A graph of the wanted partitions among the records before a number, in the
\* order of the records.
Gathered(graph, w, want, r) ==
    /\ graph \in Seq({Stored(w[i]) : i \in want})
    /\ Len(graph) = Count(want, r - 1)
    /\ \A i \in want : i < r => Count(want, i) \in DOMAIN graph /\ graph[Count(want, i)] = Stored(w[i])
    /\ \A k \in DOMAIN graph : \E i \in want : i < r /\ k = Count(want, i)

\* One partition per file.
Distinct(w) == \A i, j \in DOMAIN w : w[i].file_id = w[j].file_id => i = j

\* What is stored of a partition names the same file.
LEMMA StoredIsPartition ==
    ASSUME NEW p \in Partitions
    PROVE  Stored(p).file_id = p.file_id /\ IsPartition(Stored(p))
<1> DEFINE N == Seq(Nodes)
           E == Seq(Edges)
           D == Seq(Diagnostics)
           L == Range(EncodedLanguage)
           fields == {"file_id", "path", "language", "fingerprint", "parse_time", "extraction_time",
                      "nodes", "edges", "diagnostics"}
           q == Stored(p)
<1>1. p \in [file_id : Strings, path : Strings, language : L, fingerprint : Strings,
             parse_time : 0 .. U64Max, extraction_time : 0 .. U64Max, nodes : N, edges : E, diagnostics : D]
    BY DEF Partitions
<1> HIDE DEF N, E, D, L
<1>2. p.path \in Strings /\ p.nodes \in N /\ p.edges \in E /\ p.diagnostics \in D
    BY <1>1
<1>3. DOMAIN q = fields
    BY <1>1 DEF Stored
<1>4. q.file_id = p.file_id /\ q.path = Lossy(p.path) /\ q.nodes = p.nodes /\ q.edges = p.edges
      /\ q.diagnostics = p.diagnostics
    BY <1>1 DEF Stored
<1>5. q = [field \in DOMAIN q |-> q[field]]
    BY DEF Stored
<1> HIDE DEF q
<1>6. \A S : \A s \in Seq(S) : IsList(s)
    BY DEF IsList
<1>7. IsList(q.path) /\ IsList(q.nodes) /\ IsList(q.edges) /\ IsList(q.diagnostics)
    <2>1. q.path \in Strings
        BY <1>2, <1>4, LossyIsString
    <2> QED BY <1>2, <1>4, <1>6, <2>1 DEF N, E, D, Strings
<1>8. IsPartition(q)
    BY <1>3, <1>5, <1>7 DEF IsPartition
<1>9. QED
    BY <1>4, <1>8 DEF q

\* What has been gathered is a graph.
LEMMA GatheredIsGraph ==
    ASSUME NEW w \in Seq(Partitions), Distinct(w), NEW want \in SUBSET DOMAIN w, NEW r, NEW graph,
           Gathered(graph, w, want, r)
    PROVE  IsGraph(graph)
<1>1. DOMAIN w = 1 .. Len(w) /\ \A i \in DOMAIN w : w[i] \in Partitions
    OBVIOUS
<1>2. \A i \in want : IsPartition(Stored(w[i])) /\ Stored(w[i]).file_id = w[i].file_id
    BY <1>1, StoredIsPartition
<1>3. IsList(graph)
    BY DEF Gathered, IsList
<1>4. \A k \in DOMAIN graph : \E i \in want : k = Count(want, i) /\ graph[k] = Stored(w[i])
    BY DEF Gathered
<1>5. \A k \in DOMAIN graph : IsPartition(graph[k])
    BY <1>2, <1>4
<1>6. ASSUME NEW k \in DOMAIN graph, NEW l \in DOMAIN graph, graph[k].file_id = graph[l].file_id PROVE k = l
    <2>1. PICK i \in want : k = Count(want, i) /\ graph[k] = Stored(w[i])
        BY <1>4
    <2>2. PICK j \in want : l = Count(want, j) /\ graph[l] = Stored(w[j])
        BY <1>4
    <2>3. w[i].file_id = w[j].file_id
        BY <1>2, <1>6, <2>1, <2>2
    <2>4. i = j
        BY <2>3 DEF Distinct
    <2> QED BY <2>1, <2>2, <2>4
<1>7. QED
    BY <1>3, <1>5, <1>6 DEF IsGraph

\* A record that is read is gathered where it is wanted.
LEMMA OneRecordRead ==
    ASSUME NEW w \in Seq(Partitions), Distinct(w), NEW want \in SUBSET DOMAIN w, NEW r \in DOMAIN w, NEW graph,
           Gathered(graph, w, want, r)
    PROVE  Gathered(IF r \in want THEN ReplacePartition(graph, Stored(w[r])) ELSE graph, w, want, r + 1)
<1>1. DOMAIN w = 1 .. Len(w) /\ Len(w) \in Nat /\ r \in Nat \ {0} /\ r + 1 - 1 = r
    OBVIOUS
<1>2. \A i \in DOMAIN w : Stored(w[i]).file_id = w[i].file_id
    BY <1>1, StoredIsPartition
<1>3. /\ \A n \in Nat : Count(want, n) \in Nat
      /\ Count(want, r) = IF r \in want THEN Count(want, r - 1) + 1 ELSE Count(want, r - 1)
    BY <1>1, OneMoreWanted
<1>4. \A i \in want : i \in Nat /\ (i < r + 1 <=> i < r \/ i = r)
    BY <1>1
<1> DEFINE c(i) == Count(want, i)
           P == {Stored(w[i]) : i \in want}
           p == Stored(w[r])
<1>5. /\ graph \in Seq(P) /\ Len(graph) = c(r - 1)
      /\ \A i \in want : i < r => c(i) \in DOMAIN graph /\ graph[c(i)] = Stored(w[i])
      /\ \A k \in DOMAIN graph : \E i \in want : i < r /\ k = c(i)
    BY DEF Gathered
<1>6. CASE r \notin want
    <2>1. c(r) = c(r - 1)
        BY <1>3, <1>6
    <2> HIDE DEF c, P
    <2>2. \A i \in want : i < r + 1 => i < r
        BY <1>4, <1>6
    <2>3. \A i \in want : i < r => i < r + 1
        BY <1>4
    <2>4. /\ graph \in Seq(P) /\ Len(graph) = c(r)
          /\ \A i \in want : i < r + 1 => c(i) \in DOMAIN graph /\ graph[c(i)] = Stored(w[i])
          /\ \A k \in DOMAIN graph : \E i \in want : i < r + 1 /\ k = c(i)
        BY <1>5, <2>1, <2>2, <2>3
    <2> QED BY <1>1, <1>6, <2>4 DEF Gathered, c, P
<1>7. CASE r \in want
    <2> DEFINE next == Append(graph, p)
               n == Len(graph)
    <2>1. \A k \in DOMAIN graph : graph[k].file_id # p.file_id
        <3> SUFFICES ASSUME NEW k \in DOMAIN graph, graph[k].file_id = p.file_id PROVE FALSE
            OBVIOUS
        <3>1. PICK i \in want : i < r /\ graph[k] = Stored(w[i])
            BY <1>5
        <3>2. w[i].file_id = w[r].file_id
            BY <1>2, <1>7, <3>1
        <3>3. i = r
            BY <3>2 DEF Distinct
        <3> QED BY <1>1, <3>1, <3>3
    <2>2. ReplacePartition(graph, p) = next
        <3>1. Holder(graph, p.file_id) = 0
            <4>1. graph \in Seq(P)
                BY <1>5
            <4> HIDE DEF p, P
            <4> QED BY <2>1, <4>1, HolderHolds
        <3> QED BY <3>1 DEF ReplacePartition
    <2>3. p \in P
        BY <1>7
    <2>4. c(r) = c(r - 1) + 1
        BY <1>3, <1>7
    <2> HIDE DEF p, P, c
    <2>5. next \in Seq(P) /\ n \in Nat /\ Len(next) = n + 1 /\ DOMAIN next = 1 .. n + 1 /\ DOMAIN graph = 1 .. n
          /\ next[n + 1] = p /\ \A k \in 1 .. n : next[k] = graph[k]
        BY <1>5, <2>3
    <2> HIDE DEF next, n
    <2>6. c(r) = n + 1
        BY <1>5, <2>4 DEF n
    <2>7. ASSUME NEW i \in want, i < r + 1 PROVE c(i) \in DOMAIN next /\ next[c(i)] = Stored(w[i])
        <3>1. CASE i = r
            BY <2>5, <2>6, <3>1 DEF p
        <3>2. CASE i # r
            <4>1. c(i) \in 1 .. n /\ graph[c(i)] = Stored(w[i])
                BY <1>4, <1>5, <2>5, <2>7, <3>2
            <4> QED BY <2>5, <4>1
        <3> QED BY <3>1, <3>2
    <2>8. ASSUME NEW k \in DOMAIN next PROVE \E i \in want : i < r + 1 /\ k = c(i)
        <3>1. CASE k = n + 1
            BY <1>4, <1>7, <2>6, <3>1
        <3>2. CASE k # n + 1
            <4>1. k \in DOMAIN graph
                BY <2>5, <3>2
            <4> QED BY <1>4, <1>5, <4>1
        <3> QED BY <3>1, <3>2
    <2>9. next \in Seq(P) /\ Len(next) = c(r)
        BY <2>5, <2>6
    <2>10. Gathered(next, w, want, r + 1)
        BY <1>1, <2>7, <2>8, <2>9 DEF Gathered, c, P
    <2> QED BY <1>7, <2>2, <2>10 DEF p
<1>8. QED
    BY <1>6, <1>7
-----------------------------------------------------------------------------
(* The stages.                                                             *)

\* What is held in each stage.
HeldInv ==
    /\ pc \in Stages
    /\ pack \in Strings /\ rest \in Strings
    /\ wanted \subseteq DOMAIN written
    /\ record \in Nat \ {0}
    /\ torn \in BOOLEAN
    /\ written # <<>> => IsGraph(snapshot)

\* A pack that is written has the records so far, and they fit.
WritingInv ==
    pc = "writing" =>
        /\ written \in Packs
        /\ record - 1 \in 0 .. Len(written)
        /\ snapshot = <<>>
        /\ SubSeq(written, 1, record - 1) \in Seq(Packable)
        /\ pack = PackBytes(SubSeq(written, 1, record - 1))

\* A pack that is stored has all of them, or has lost its end.
StoredInv ==
    /\ pc \in {"stored", "reading"} =>
        /\ written \in Packs
        /\ written \in Seq(Packable)
        /\ Begins(pack, PackBytes(written))
    /\ pc = "stored" => snapshot = <<>>

\* A pack that is read has been read up to a record, and what was wanted of it
\* is in memory.
ReadingInv ==
    pc = "reading" =>
        /\ record \in 1 .. Len(written) + 1
        /\ Len(FirstRecords(written, record - 1)) <= Len(pack)
        /\ rest = Drop(pack, Len(FirstRecords(written, record - 1)))
        /\ Gathered(snapshot, written, wanted, record)

\* It is refused, or read to an early end, according to where it ends.
EndInv ==
    /\ pc = "unreadable" => ~EndsBetweenRecords
    /\ pc = "loaded" /\ written # <<>> /\ (\E i \in wanted : record <= i) =>
        pack # PackBytes(written) /\ EndsBetweenRecords

PackInv == HeldInv /\ WritingInv /\ StoredInv /\ ReadingInv /\ EndInv

\* The records of a full index are partitions, one per file.
LEMMA WrittenIsList ==
    ASSUME NEW w \in Packs
    PROVE  w \in Seq(Partitions) /\ Distinct(w) /\ Len(w) \in Nat /\ DOMAIN w = 1 .. Len(w)
<1>1. w \in Seq(Partitions) /\ Distinct(w)
    BY PacksAssumption DEF Distinct
<1>2. QED
    BY <1>1

\* Nothing is a graph.
LEMMA NothingIsGraph == IsGraph(<<>>)
BY DEF IsGraph, IsList

\* A pack begins with its magic bytes.
LEMMA PackInit == Init => PackInv
<1> SUFFICES ASSUME Init PROVE PackInv
    OBVIOUS
<1>1. /\ pc \in {"writing", "enriching"} /\ wanted = {} /\ rest = <<>> /\ record = 1 /\ snapshot = <<>>
      /\ torn = FALSE /\ pack = IF pc = "writing" THEN Magic ELSE <<>>
    BY DEF Init
<1>2. Magic \in Strings /\ <<>> \in Strings
    BY PacksAssumption DEF Strings
<1>3. HeldInv
    <2>1. pack \in Strings /\ rest \in Strings
        BY <1>1, <1>2
    <2>2. pc \in Stages /\ record \in Nat \ {0} /\ wanted \subseteq DOMAIN written
        <3>1. pc \in Stages /\ wanted \subseteq DOMAIN written
            BY <1>1, Zenon DEF Stages
        <3>2. record = 1
            BY <1>1, Zenon
        <3> QED BY <3>1, <3>2
    <2>4. torn \in BOOLEAN
        BY <1>1, Zenon
    <2>3. IsGraph(snapshot)
        BY <1>1, NothingIsGraph
    <2> QED BY <2>1, <2>2, <2>3, <2>4 DEF HeldInv
<1>4. WritingInv
    <2> SUFFICES ASSUME pc = "writing"
                 PROVE  /\ written \in Packs
                        /\ record - 1 \in 0 .. Len(written)
                        /\ snapshot = <<>>
                        /\ SubSeq(written, 1, record - 1) \in Seq(Packable)
                        /\ pack = PackBytes(SubSeq(written, 1, record - 1))
        BY DEF WritingInv
    <2>1. written \in Packs
        BY DEF Init
    <2>2. written \in Seq(Partitions) /\ Len(written) \in Nat
        BY <2>1, WrittenIsList
    <2>3. SubSeq(written, 1, 0) = <<>> /\ 0 \in 0 .. Len(written) /\ record - 1 = 0 /\ <<>> \in Seq(Packable)
        BY <1>1, <2>2
    <2>4. PackBytes(<<>>) = Magic
        <3>1. FirstRecords(<<>>, 0) = Magic
            BY <2>3, Layout
        <3>2. SubSeq(<<>>, 1, 0) = <<>>
            OBVIOUS
        <3> QED BY <3>1, <3>2 DEF FirstRecords
    <2> QED BY <1>1, <2>1, <2>3, <2>4
<1>5. StoredInv /\ ReadingInv /\ EndInv
    BY <1>1 DEF StoredInv, ReadingInv, EndInv
<1>6. QED
    BY <1>3, <1>4, <1>5 DEF PackInv

\* A record that fits is written behind the others; one that does not gives up
\* the pack.
LEMMA RecordIsWritten == ASSUME PackInv, WriteRecord PROVE PackInv'
<1>1. /\ pc = "writing" /\ record \in DOMAIN written /\ record - 1 \in 0 .. Len(written) /\ written \in Packs
      /\ SubSeq(written, 1, record - 1) \in Seq(Packable)
      /\ pack = PackBytes(SubSeq(written, 1, record - 1)) /\ snapshot = <<>>
      /\ UNCHANGED <<written, wanted, rest, input, snapshot, torn>>
    BY DEF PackInv, WritingInv, WriteRecord
<1>2. HeldInv
    BY DEF PackInv
<1>3. written \in Seq(Partitions) /\ Len(written) \in Nat /\ DOMAIN written = 1 .. Len(written)
    BY <1>1, WrittenIsList
<1>4. CASE Fits(written[record])
    <2>1. pack' = pack \o RecordBytes(written[record]) /\ record' = record + 1 /\ pc' = pc
        BY <1>4 DEF WriteRecord
    <2> DEFINE u == SubSeq(written, 1, record - 1)
               p == written[record]
    <2>2. p \in Packable /\ u \in Seq(Packable)
        BY <1>1, <1>3, <1>4 DEF Packable
    <2>3. SubSeq(written, 1, record) = Append(u, p) /\ record' - 1 = record /\ record \in 0 .. Len(written)
        BY <1>1, <1>3, <2>1
    <2> HIDE DEF u, p
    <2>4. Append(u, p) \in Seq(Packable)
        BY <2>2
    <2>5. PackBytes(Append(u, p)) = PackBytes(u) \o RecordBytes(p) /\ PackBytes(Append(u, p)) \in Strings
        BY <2>2, <2>4, OneRecordMore
    <2>6. pack' = PackBytes(SubSeq(written, 1, record)) /\ pack' \in Strings
        BY <1>1, <2>1, <2>3, <2>5 DEF u, p
    <2>7. SubSeq(written, 1, record) \in Seq(Packable)
        BY <2>3, <2>4
    <2>8. WritingInv'
        BY <1>1, <2>1, <2>3, <2>6, <2>7 DEF WritingInv
    <2>9. HeldInv'
        <3>1. record' \in Nat \ {0}
            BY <1>2, <2>1 DEF HeldInv
        <3> QED BY <1>1, <1>2, <2>1, <2>6, <3>1 DEF HeldInv
    <2>10. (StoredInv /\ ReadingInv /\ EndInv)'
        BY <1>1, <2>1 DEF StoredInv, ReadingInv, EndInv
    <2> QED BY <2>8, <2>9, <2>10 DEF PackInv
<1>5. CASE ~ Fits(written[record])
    <2>1. pack' = <<>> /\ record' = record /\ pc' = "given up"
        BY <1>5 DEF WriteRecord
    <2>2. <<>> \in Strings
        BY DEF Strings
    <2>3. HeldInv'
        BY <1>1, <1>2, <2>1, <2>2 DEF HeldInv, Stages
    <2>4. (WritingInv /\ StoredInv /\ ReadingInv /\ EndInv)'
        BY <2>1 DEF WritingInv, StoredInv, ReadingInv, EndInv
    <2> QED BY <2>3, <2>4 DEF PackInv
<1>6. QED
    BY <1>4, <1>5

\* A pack is published when all of its records are written.
LEMMA PackIsPublished == ASSUME PackInv, PublishPack PROVE PackInv'
<1>1. /\ pc = "writing" /\ record = Len(written) + 1 /\ written \in Packs
      /\ SubSeq(written, 1, record - 1) \in Seq(Packable)
      /\ pack = PackBytes(SubSeq(written, 1, record - 1)) /\ snapshot = <<>>
      /\ wanted' \in SUBSET DOMAIN written /\ pc' = "stored"
      /\ UNCHANGED <<written, pack, rest, record, snapshot, torn>>
    BY DEF PackInv, WritingInv, PublishPack
<1>2. HeldInv
    BY DEF PackInv
<1>3. written \in Seq(Partitions) /\ Len(written) \in Nat
    BY <1>1, WrittenIsList
<1>4. SubSeq(written, 1, record - 1) = written
    BY <1>1, <1>3
<1>5. written \in Seq(Packable) /\ pack = PackBytes(written)
    BY <1>1, <1>4
<1>6. Begins(pack, pack)
    <2>1. Len(pack) \in Nat
        BY <1>2 DEF HeldInv, Strings
    <2> QED BY <2>1 DEF Begins
<1>7. StoredInv'
    BY <1>1, <1>5, <1>6 DEF StoredInv
<1>8. HeldInv'
    BY <1>1, <1>2 DEF HeldInv, Stages
<1>9. (WritingInv /\ ReadingInv /\ EndInv)'
    BY <1>1 DEF WritingInv, ReadingInv, EndInv
<1>10. QED
    BY <1>7, <1>8, <1>9 DEF PackInv

\* A pack that loses its end still begins the pack that was written.
LEMMA EndIsLost == ASSUME PackInv, LosePackEnd PROVE PackInv'
<1>1. /\ pc = "stored" /\ pc' = pc /\ written \in Packs /\ written \in Seq(Packable) /\ snapshot = <<>>
      /\ pack = PackBytes(written)
      /\ UNCHANGED <<written, wanted, rest, record, snapshot, torn>>
    BY DEF PackInv, StoredInv, LosePackEnd
<1>2. PICK size \in 0 .. Len(pack) - 1 : pack' = SubSeq(pack, 1, size)
    BY DEF LosePackEnd
<1>3. HeldInv
    BY DEF PackInv
<1>4. pack \in Strings /\ Len(pack) \in Nat
    BY <1>3 DEF HeldInv, Strings
<1>5. pack' \in Strings /\ Len(pack') = size /\ \A j \in 1 .. size : pack'[j] = pack[j]
    <2>1. size \in 0 .. Len(pack)
        BY <1>4
    <2> QED BY <1>2, <1>4, <2>1, Parts DEF Strings
<1>6. Begins(pack', pack)
    <2>1. size <= Len(pack)
        BY <1>4
    <2> QED BY <1>5, <2>1 DEF Begins
<1>7. StoredInv'
    BY <1>1, <1>6 DEF StoredInv
<1>8. HeldInv'
    BY <1>1, <1>3, <1>5 DEF HeldInv
<1>9. (WritingInv /\ ReadingInv /\ EndInv)'
    BY <1>1 DEF WritingInv, ReadingInv, EndInv
<1>10. QED
    BY <1>7, <1>8, <1>9 DEF PackInv

\* A pack that does not begin with the magic bytes ends between no two records.
LEMMA PackIsOpened == ASSUME PackInv, OpenPack PROVE PackInv'
<1>1. /\ pc = "stored" /\ written \in Packs /\ written \in Seq(Packable) /\ snapshot = <<>>
      /\ Begins(pack, PackBytes(written))
      /\ UNCHANGED <<written, pack, wanted, snapshot, torn>>
    BY DEF PackInv, StoredInv, OpenPack
<1>2. HeldInv
    BY DEF PackInv
<1>3. pack \in Strings /\ Len(pack) \in Nat /\ Magic \in Strings /\ Len(Magic) \in Nat
    BY <1>2, PacksAssumption DEF HeldInv, Strings
<1>4. /\ Len(written) \in Nat /\ DOMAIN written = 1 .. Len(written)
      /\ FirstRecords(written, 0) = Magic
    BY <1>1, Layout
<1>5. CASE IsPrefix(Magic, pack)
    <2>1. pc' = "reading" /\ rest' = Drop(pack, Len(Magic)) /\ record' = 1
        BY <1>5 DEF OpenPack
    <2>2. Len(Magic) <= Len(pack)
        BY <1>5 DEF IsPrefix
    <2>3. rest' \in Strings
        <3>1. Len(Magic) \in 0 .. Len(pack)
            BY <1>3, <2>2
        <3> QED BY <1>3, <2>1, <3>1, Dropped
    <2>4. Gathered(<<>>, written, wanted, 1)
        <3>1. wanted \in SUBSET (1 .. Len(written))
            BY <1>2, <1>4 DEF HeldInv
        <3>2. Count(wanted, 0) = 0
            BY <1>4, <3>1, OneMoreWanted
        <3>3. \A i \in wanted : ~ (i < 1)
            BY <3>1
        <3>4. Len(<<>>) = 0 /\ DOMAIN <<>> = {} /\ 1 - 1 = 0
            OBVIOUS
        <3>5. <<>> \in Seq({Stored(written[i]) : i \in wanted})
            OBVIOUS
        <3> QED BY <3>2, <3>3, <3>4, <3>5 DEF Gathered
    <2>5. record' - 1 = 0 /\ 1 \in 1 .. Len(written) + 1 /\ 1 \in Nat \ {0}
        BY <1>4, <2>1
    <2>6. ReadingInv'
        BY <1>1, <1>4, <2>1, <2>2, <2>4, <2>5 DEF ReadingInv
    <2>7. HeldInv'
        BY <1>1, <1>2, <2>1, <2>3, <2>5 DEF HeldInv, Stages
    <2>8. StoredInv' /\ WritingInv' /\ EndInv'
        BY <1>1, <2>1 DEF StoredInv, WritingInv, EndInv
    <2> QED BY <2>6, <2>7, <2>8 DEF PackInv
<1>6. CASE ~IsPrefix(Magic, pack)
    <2>1. pc' = "unreadable" /\ rest' = rest /\ record' = record
        BY <1>6 DEF OpenPack
    <2>2. ASSUME NEW n \in 0 .. Len(written), pack = FirstRecords(written, n) PROVE FALSE
        <3>1. 0 \in 0 .. n
            BY <1>4
        <3>2. Begins(Magic, pack)
            BY <1>1, <1>4, <2>2, <3>1, RecordsInTurn
        <3> DEFINE m == Len(Magic)
        <3>3. m \in 0 .. Len(pack) /\ m \in 0 .. Len(Magic) /\ \A j \in 1 .. m : pack[j] = Magic[j]
            BY <1>3, <3>2 DEF Begins
        <3>4. /\ SubSeq(pack, 1, m) \in Strings /\ Len(SubSeq(pack, 1, m)) = m
              /\ \A j \in 1 .. m : SubSeq(pack, 1, m)[j] = pack[j]
              /\ SubSeq(Magic, 1, m) \in Strings /\ Len(SubSeq(Magic, 1, m)) = m
              /\ \A j \in 1 .. m : SubSeq(Magic, 1, m)[j] = Magic[j]
            <4> HIDE DEF m
            <4>1. \A s \in Strings : m \in 0 .. Len(s) =>
                    /\ SubSeq(s, 1, m) \in Strings /\ Len(SubSeq(s, 1, m)) = m
                    /\ \A j \in 1 .. m : SubSeq(s, 1, m)[j] = s[j]
                BY Parts DEF Strings
            <4> QED BY <1>3, <3>3, <4>1
        <3>5. SubSeq(Magic, 1, m) = SubSeq(pack, 1, m)
            <4> DEFINE s == SubSeq(Magic, 1, m)
                       t == SubSeq(pack, 1, m)
            <4>1. s \in Strings /\ t \in Strings /\ Len(s) = Len(t) /\ \A j \in 1 .. Len(t) : s[j] = t[j]
                BY <3>3, <3>4
            <4> HIDE DEF s, t
            <4>2. s = t
                BY <4>1, SameList DEF Strings
            <4> QED BY <4>2 DEF s, t
        <3> QED BY <1>6, <3>2, <3>5 DEF IsPrefix, Begins
    <2>3. ~EndsBetweenRecords
        BY <2>2 DEF EndsBetweenRecords, FirstRecords
    <2>4. EndInv'
        BY <1>1, <2>1, <2>3 DEF EndInv, EndsBetweenRecords
    <2>5. HeldInv'
        BY <1>1, <1>2, <2>1 DEF HeldInv, Stages
    <2>6. (WritingInv /\ StoredInv /\ ReadingInv)'
        BY <2>1 DEF WritingInv, StoredInv, ReadingInv
    <2> QED BY <2>4, <2>5, <2>6 DEF PackInv
<1>7. QED
    BY <1>5, <1>6

\* A record is read as it was written, or not at all.
LEMMA RecordIsTaken == ASSUME PackInv, ReadRecord PROVE PackInv'
<1> DEFINE read == ReadPartition(rest)
           w == written
           next == IF record \in wanted THEN ReplacePartition(snapshot, read.partition) ELSE snapshot
<1>1. /\ pc = "reading" /\ w \in Packs /\ w \in Seq(Packable) /\ Begins(pack, PackBytes(w))
      /\ record \in 1 .. Len(w) + 1 /\ Len(FirstRecords(w, record - 1)) <= Len(pack)
      /\ rest = Drop(pack, Len(FirstRecords(w, record - 1)))
      /\ Gathered(snapshot, w, wanted, record)
    BY DEF PackInv, StoredInv, ReadingInv, ReadRecord, TakeRecord
<1>2. HeldInv
    BY DEF PackInv
<1>3. w \in Seq(Partitions) /\ Distinct(w) /\ Len(w) \in Nat /\ DOMAIN w = 1 .. Len(w)
    BY <1>1, WrittenIsList
<1>4. /\ \E i \in wanted : record <= i
      /\ pc' = IF read.outcome = "partition" THEN "reading"
               ELSE IF read.outcome = "end" THEN "loaded" ELSE "unreadable"
      /\ read.outcome = "partition" => rest' = read.rest /\ record' = record + 1 /\ snapshot' = next
      /\ read.outcome # "partition" => UNCHANGED <<rest, record, snapshot>>
      /\ UNCHANGED <<written, pack, wanted, torn>>
    BY DEF ReadRecord, TakeRecord, WithRecord
<1>5. wanted \in SUBSET DOMAIN w /\ pack \in Strings
    BY <1>2 DEF HeldInv
<1>6. record \in 1 .. Len(w) /\ record \in DOMAIN w
    <2>1. PICK i \in wanted : record <= i
        BY <1>4
    <2>2. i \in 1 .. Len(w)
        BY <1>3, <1>5
    <2> QED BY <1>1, <1>3, <2>1, <2>2
<1>7. \/ /\ read.outcome = "partition" /\ read.partition = Stored(w[record])
         /\ Len(FirstRecords(w, record)) <= Len(pack)
         /\ read.rest = Drop(pack, Len(FirstRecords(w, record)))
      \/ /\ read.outcome = "end" /\ pack = FirstRecords(w, record - 1) /\ pack # PackBytes(w)
      \/ /\ read.outcome = "error" /\ \A n \in 0 .. Len(w) : pack # FirstRecords(w, n)
    <2>1. read = ReadPartition(Drop(pack, Len(FirstRecords(w, record - 1))))
        BY <1>1
    <2> HIDE DEF read, w
    <2> QED BY <1>1, <1>5, <1>6, <2>1, NextRecordIsRead
<1> HIDE DEF read
<1>8. CASE read.outcome = "partition"
    <2>1. pc' = "reading" /\ rest' = Drop(pack, Len(FirstRecords(w, record))) /\ record' = record + 1
          /\ Len(FirstRecords(w, record)) <= Len(pack) /\ read.partition = Stored(w[record])
        BY <1>4, <1>7, <1>8
    <2>2. snapshot' = IF record \in wanted THEN ReplacePartition(snapshot, Stored(w[record])) ELSE snapshot
        BY <1>4, <1>8, <2>1
    <2>3. Gathered(snapshot', w, wanted, record + 1)
        <3> HIDE DEF w
        <3> QED BY <1>1, <1>3, <1>5, <1>6, <2>2, OneRecordRead
    <2>4. IsGraph(snapshot')
        <3> HIDE DEF w
        <3> QED BY <1>3, <1>5, <2>3, GatheredIsGraph
    <2>5. rest' \in Strings
        <3>1. FirstRecords(w, record) \in Strings
            <4>1. record \in 0 .. Len(w)
                BY <1>6
            <4> HIDE DEF w
            <4> QED BY <1>1, <4>1, Layout
        <3>2. Len(FirstRecords(w, record)) \in 0 .. Len(pack)
            <4>1. Len(FirstRecords(w, record)) \in Nat /\ Len(pack) \in Nat
                BY <1>5, <3>1 DEF Strings
            <4> QED BY <2>1, <4>1
        <3> QED BY <1>5, <2>1, <3>2, Dropped
    <2>6. record' - 1 = record /\ record' \in 1 .. Len(w) + 1 /\ record' \in Nat \ {0}
        BY <1>3, <1>6, <2>1
    <2>7. ReadingInv'
        BY <1>4, <2>1, <2>3, <2>6 DEF ReadingInv
    <2>8. HeldInv'
        BY <1>1, <1>2, <1>4, <2>1, <2>4, <2>5, <2>6 DEF HeldInv
    <2>9. (WritingInv /\ StoredInv /\ EndInv)'
        BY <1>1, <1>4, <2>1 DEF WritingInv, StoredInv, EndInv
    <2> QED BY <2>7, <2>8, <2>9 DEF PackInv
<1>9. CASE read.outcome = "end"
    <2>1. pc' = "loaded" /\ pack = FirstRecords(w, record - 1) /\ pack # PackBytes(w)
          /\ UNCHANGED <<rest, record, snapshot, written, pack, wanted, torn>>
        BY <1>4, <1>7, <1>9
    <2>2. record - 1 \in 0 .. Len(w)
        BY <1>3, <1>6
    <2>3. EndsBetweenRecords
        BY <2>1, <2>2 DEF EndsBetweenRecords, FirstRecords
    <2>4. EndInv'
        BY <2>1, <2>3 DEF EndInv, EndsBetweenRecords
    <2>5. HeldInv'
        BY <1>2, <2>1 DEF HeldInv, Stages
    <2>6. (WritingInv /\ StoredInv /\ ReadingInv)'
        BY <2>1 DEF WritingInv, StoredInv, ReadingInv
    <2> QED BY <2>4, <2>5, <2>6 DEF PackInv
<1>10. CASE read.outcome = "error"
    <2>1. pc' = "unreadable" /\ UNCHANGED <<rest, record, snapshot, written, pack, wanted, torn>>
        BY <1>4, <1>10
    <2>2. \A n \in 0 .. Len(w) : pack # FirstRecords(w, n)
        BY <1>7, <1>10
    <2>3. ~EndsBetweenRecords
        BY <2>2 DEF EndsBetweenRecords, FirstRecords
    <2>4. EndInv'
        BY <2>1, <2>3 DEF EndInv, EndsBetweenRecords
    <2>5. HeldInv'
        BY <1>2, <2>1 DEF HeldInv, Stages
    <2>6. (WritingInv /\ StoredInv /\ ReadingInv)'
        BY <2>1 DEF WritingInv, StoredInv, ReadingInv
    <2> QED BY <2>4, <2>5, <2>6 DEF PackInv
<1>11. QED
    BY <1>7, <1>8, <1>9, <1>10

\* The other steps leave a pack and what was read of it alone.
LEMMA PackStep == EnrichmentInv /\ PackInv /\ [Next]_vars => PackInv'
<1> SUFFICES ASSUME EnrichmentInv, PackInv, [Next]_vars PROVE PackInv'
    OBVIOUS
<1>1. HeldInv /\ WritingInv /\ StoredInv /\ ReadingInv /\ EndInv
    BY DEF PackInv
<1>2. CASE FinishReading
    <2>1. /\ pc = "reading" /\ pc' = "loaded" /\ \A i \in wanted : record > i
          /\ UNCHANGED <<written, pack, wanted, rest, record, snapshot, torn>>
        BY <1>2 DEF FinishReading
    <2>2. \A i \in wanted : ~ (record <= i)
        <3>1. wanted \subseteq DOMAIN written /\ written \in Seq(Packable) /\ record \in Nat
            BY <1>1, <2>1 DEF HeldInv, StoredInv
        <3>2. DOMAIN written = 1 .. Len(written)
            BY <3>1
        <3>3. \A i \in wanted : i \in Nat
            BY <3>1, <3>2
        <3> QED BY <2>1, <3>1, <3>3
    <2>3. EndInv'
        BY <2>1, <2>2 DEF EndInv
    <2>4. HeldInv'
        BY <1>1, <2>1 DEF HeldInv, Stages
    <2>5. (WritingInv /\ StoredInv /\ ReadingInv)'
        BY <2>1 DEF WritingInv, StoredInv, ReadingInv
    <2> QED BY <2>3, <2>4, <2>5 DEF PackInv
<1>3. CASE ImportDocument
    <2>1. /\ pc = "enriching" /\ written = <<>> /\ record' = record + 1
          /\ pc' = IF record = Len(input.documents) THEN "loaded" ELSE pc
          /\ UNCHANGED <<written, pack, wanted, rest, torn>>
        BY <1>3 DEF ImportDocument, EnrichmentInv
    <2>2. pc' \in {"loaded", "enriching"}
        BY <2>1
    <2>3. record' \in Nat \ {0}
        BY <1>1, <2>1 DEF HeldInv
    <2>4. HeldInv'
        <3>1. pc' \in Stages
            BY <2>2 DEF Stages
        <3> QED BY <1>1, <2>1, <2>3, <3>1, Zenon DEF HeldInv
    <2>5. (WritingInv /\ StoredInv /\ ReadingInv /\ EndInv)'
        BY <2>1, <2>2 DEF WritingInv, StoredInv, ReadingInv, EndInv
    <2> QED BY <2>4, <2>5 DEF PackInv
<1>4. CASE Export
    <2>1. /\ pc' = "importing" /\ record' = 1 /\ torn' \in BOOLEAN
          /\ UNCHANGED <<written, pack, wanted, rest, snapshot>>
        BY <1>4, Zenon DEF Export
    <2>2. record' \in Nat \ {0}
        <3>1. record' = 1
            BY <2>1, Zenon
        <3> QED BY <3>1
    <2>3. HeldInv'
        BY <1>1, <2>1, <2>2, Zenon DEF HeldInv, Stages
    <2>4. (WritingInv /\ StoredInv /\ ReadingInv /\ EndInv)'
        BY <2>1, Zenon DEF WritingInv, StoredInv, ReadingInv, EndInv
    <2> QED BY <2>3, <2>4 DEF PackInv
<1>5. CASE ImportLine \/ FinishImport
    <2>1. /\ pc = "importing" /\ pc' \in {"importing", "imported", "refused"} /\ record' \in {record, record + 1}
          /\ UNCHANGED <<written, pack, wanted, rest, snapshot, torn>>
        BY <1>5 DEF ImportLine, FinishImport
    <2>2. record' \in Nat \ {0}
        BY <1>1, <2>1 DEF HeldInv
    <2>3. HeldInv'
        BY <1>1, <2>1, <2>2 DEF HeldInv, Stages
    <2>4. (WritingInv /\ StoredInv /\ ReadingInv /\ EndInv)'
        BY <2>1 DEF WritingInv, StoredInv, ReadingInv, EndInv
    <2> QED BY <2>3, <2>4 DEF PackInv
<1>6. CASE UNCHANGED vars
    BY <1>1, <1>6 DEF vars, PackInv, HeldInv, WritingInv, StoredInv, ReadingInv, EndInv, EndsBetweenRecords
<1>7. QED
    BY <1>2, <1>3, <1>4, <1>5, <1>6, RecordIsWritten, PackIsPublished, EndIsLost, PackIsOpened, RecordIsTaken DEF Next

\* A list of lists, of whatever.
OfLists(seqs) == \E T : seqs \in Seq(Seq(T))

\* Every place of the flattened list is a place of one of the lists.
EachSomewhere(seqs, off) ==
    \A x \in 1 .. Len(FlattenSeq(seqs)) :
        \E i \in 1 .. Len(seqs) : \E j \in 1 .. Len(seqs[i]) : x = off[i] + j

\* So it is with lists that are placed.
LEMMA Somewhere ==
    ASSUME NEW seqs, NEW off, OfLists(seqs), Placed(seqs, off)
    PROVE  EachSomewhere(seqs, off)
<1>0. PICK T : seqs \in Seq(Seq(T))
    BY DEF OfLists
<1> SUFFICES \A x \in 1 .. Len(FlattenSeq(seqs)) :
                \E i \in 1 .. Len(seqs) : \E j \in 1 .. Len(seqs[i]) : x = off[i] + j
    BY DEF EachSomewhere
<1> TAKE x \in 1 .. Len(FlattenSeq(seqs))
<1> DEFINE n == Len(seqs)
           m == Len(FlattenSeq(seqs))
           I == {i \in 1 .. n : off[i] < x}
<1>1. /\ n \in Nat /\ \A i \in 1 .. n : Len(seqs[i]) \in Nat
      /\ off \in [1 .. n + 1 -> Nat] /\ off[1] = 0 /\ m = off[n + 1]
      /\ \A i \in 1 .. n : off[i + 1] = off[i] + Len(seqs[i])
    BY <1>0 DEF Placed
<1> HIDE DEF n, m
<1>2. x \in Nat /\ 1 <= x /\ x <= off[n + 1]
    <2>1. off[n + 1] \in Nat
        BY <1>1
    <2>2. x \in 1 .. m
        BY DEF m
    <2> QED BY <1>1, <2>1, <2>2
<1>3. 1 \in I
    <2>1. n # 0
        BY <1>1, <1>2
    <2> QED BY <1>1, <1>2, <2>1
<1>4. PICK i \in I : \A k \in I : k <= i
    <2>1. I \in SUBSET (1 .. n) /\ I # {}
        BY <1>3
    <2> HIDE DEF I
    <2> QED BY <1>1, <2>1, LastPlace
<1>5. i \in 1 .. n /\ off[i] \in Nat /\ off[i] < x
    BY <1>1
<1>6. x <= off[i + 1]
    <2>1. CASE i = n
        BY <1>2, <2>1
    <2>2. CASE i # n
        <3>1. i + 1 \in 1 .. n /\ ~(i + 1 <= i)
            BY <1>1, <1>5, <2>2
        <3>2. i + 1 \notin I
            <4> HIDE DEF I
            <4> QED BY <1>4, <3>1
        <3>3. ~(off[i + 1] < x) /\ off[i + 1] \in Nat
            BY <1>1, <3>1, <3>2
        <3> QED BY <1>2, <3>3
    <2> QED BY <2>1, <2>2
<1>7. off[i + 1] = off[i] + Len(seqs[i]) /\ Len(seqs[i]) \in Nat
    BY <1>1, <1>5
<1> DEFINE j == x - off[i]
<1>8. j \in 1 .. Len(seqs[i]) /\ x = off[i] + j
    BY <1>2, <1>5, <1>6, <1>7
<1>9. QED
    BY <1>5, <1>8 DEF n

\* Lists of the same lengths are placed alike.
LEMMA PlacedAlike ==
    ASSUME NEW S, NEW s \in Seq(Seq(S)), NEW f, Placed(s, f),
           NEW T, NEW t \in Seq(Seq(T)), NEW g, Placed(t, g),
           Len(s) = Len(t), \A i \in 1 .. Len(s) : Len(s[i]) = Len(t[i])
    PROVE  Len(FlattenSeq(s)) = Len(FlattenSeq(t)) /\ \A i \in 1 .. Len(s) + 1 : f[i] = g[i]
<1> DEFINE n == Len(s)
           I == {k \in 0 .. n : f[k + 1] = g[k + 1]}
<1>1. /\ n \in Nat /\ f[1] = 0 /\ g[1] = 0
      /\ \A i \in 1 .. n : f[i + 1] = f[i] + Len(s[i]) /\ g[i + 1] = g[i] + Len(s[i])
      /\ Len(FlattenSeq(s)) = f[n + 1] /\ Len(FlattenSeq(t)) = g[n + 1]
    BY DEF Placed
<1> HIDE DEF n
<1>2. 0 \in I
    BY <1>1
<1>3. ASSUME NEW k \in 1 .. n, k - 1 \in I PROVE k \in I
    <2>1. f[(k - 1) + 1] = g[(k - 1) + 1] /\ (k - 1) + 1 = k
        BY <1>3
    <2>2. f[k + 1] = g[k + 1]
        BY <1>1, <2>1
    <2> QED BY <1>1, <2>2
<1> HIDE DEF I
<1>4. \A k \in 0 .. n : k \in I
    BY <1>1, <1>2, <1>3, Upward
<1>5. ASSUME NEW i \in 1 .. n + 1 PROVE f[i] = g[i]
    <2>1. i - 1 \in 0 .. n /\ (i - 1) + 1 = i
        BY <1>1
    <2>2. i - 1 \in I
        BY <1>4, <2>1
    <2> QED BY <2>1, <2>2 DEF I
<1>6. n + 1 \in 1 .. n + 1
    BY <1>1
<1>7. QED
    BY <1>1, <1>5, <1>6 DEF n

\* What is picked of lists that each begin with something else is what follows
\* there, list by list: places of the one and of the other.
Picks(s, t, g, u) ==
    /\ Len(t) = Len(s) /\ \A i \in 1 .. Len(s) : Len(t[i]) = 1 + Len(s[i])
    /\ Len(u) = Len(FlattenSeq(t))
    /\ \A i \in 1 .. Len(s) : /\ Len(u[g[i] + 1]) = 0
                              /\ \A j \in 1 .. Len(s[i]) : Len(u[g[i] + (1 + j)]) = 1

\* There are as many of them, and each is where the other is.
InTurn(s, f, g, u) ==
    /\ Len(FlattenSeq(u)) = Len(FlattenSeq(s))
    /\ \A i \in 1 .. Len(s) : \A j \in 1 .. Len(s[i]) :
            FlattenSeq(u)[f[i] + j] = u[g[i] + (1 + j)][1]

\* They are picked in turn.
LEMMA PickedInTurn ==
    ASSUME NEW s, NEW f, NEW t, NEW g, NEW u, NEW h, Placed(s, f), Placed(t, g), Placed(u, h),
           OfLists(s), OfLists(u), Picks(s, t, g, u)
    PROVE  InTurn(s, f, g, u)
<1> DEFINE n == Len(s)
           l(i) == Len(s[i])
           N == Len(u)
           all == FlattenSeq(u)
<1>0. PICK S, U : s \in Seq(Seq(S)) /\ u \in Seq(Seq(U))
    BY DEF OfLists
<1>1. n \in Nat /\ N \in Nat /\ \A i \in 1 .. n : l(i) \in Nat
    BY <1>0
<1>2. /\ f \in [1 .. n + 1 -> Nat] /\ f[1] = 0 /\ Len(FlattenSeq(s)) = f[n + 1]
      /\ \A i \in 1 .. n : f[i + 1] = f[i] + l(i)
    BY DEF Placed
<1>3. /\ g \in [1 .. n + 1 -> Nat] /\ g[1] = 0 /\ N = g[n + 1]
      /\ \A i \in 1 .. n : g[i + 1] = g[i] + (1 + l(i))
      /\ \A i, k \in 1 .. n + 1 : i <= k => g[i] <= g[k]
    BY DEF Placed, Picks
<1>4. /\ h \in [1 .. N + 1 -> Nat] /\ h[1] = 0 /\ Len(all) = h[N + 1]
      /\ \A x \in 1 .. N : h[x + 1] = h[x] + Len(u[x])
      /\ \A x \in 1 .. N : Len(u[x]) = 1 => all[h[x] + 1] = u[x][1]
    BY DEF Placed
<1>5. \A i \in 1 .. n : /\ Len(u[g[i] + 1]) = 0
                        /\ \A j \in 1 .. l(i) : Len(u[g[i] + (1 + j)]) = 1
    BY DEF Picks
<1> HIDE DEF n, l, N, all
<1>6. ASSUME NEW i \in 1 .. n, NEW j \in 0 .. l(i)
      PROVE  g[i] + (1 + j) \in 1 .. N /\ g[i] \in Nat /\ f[i] \in Nat
    <2>1. i \in 1 .. n + 1 /\ i + 1 \in 1 .. n + 1 /\ n + 1 \in 1 .. n + 1 /\ i + 1 <= n + 1
        BY <1>1
    <2>2. g[i + 1] <= N /\ g[i + 1] = g[i] + (1 + l(i)) /\ g[i] \in Nat /\ g[i + 1] \in Nat /\ f[i] \in Nat
        BY <1>2, <1>3, <2>1
    <2> QED BY <1>1, <2>2
\* After so many of them, how many have been picked.
<1> DEFINE Right(x) == \A i \in 1 .. n : \A j \in 0 .. l(i) : x = g[i] + (1 + j) => h[x + 1] = f[i] + j
           I == {x \in 0 .. N : Right(x)}
<1>7. 0 \in I
    <2>1. \A i \in 1 .. n : \A j \in 0 .. l(i) : 0 # g[i] + (1 + j)
        BY <1>6
    <2>2. Right(0)
        BY <2>1
    <2> QED BY <1>1, <2>2
<1>8. ASSUME NEW x \in 1 .. N, x - 1 \in I PROVE x \in I
    <2>0. Right(x - 1)
        BY <1>8
    <2>1. ASSUME NEW i \in 1 .. n, NEW j \in 0 .. l(i), x = g[i] + (1 + j) PROVE h[x + 1] = f[i] + j
        <3>0. l(i) \in Nat /\ g[i] \in Nat /\ f[i] \in Nat
            BY <1>1, <1>6
        <3>1. h[x + 1] = h[x] + Len(u[x])
            BY <1>4
        <3>2. CASE j # 0
            <4>1. j - 1 \in 0 .. l(i) /\ j \in 1 .. l(i) /\ x - 1 = g[i] + (1 + (j - 1))
                <5> DEFINE a == g[i]
                           b == l(i)
                <5>1. a \in Nat /\ b \in Nat /\ x = a + (1 + j) /\ j \in 0 .. b /\ j # 0
                    BY <2>1, <3>0, <3>2
                <5> HIDE DEF a, b
                <5>2. j - 1 \in 0 .. b /\ j \in 1 .. b
                    BY <5>1
                <5>3. x - 1 = a + (1 + (j - 1))
                    BY <5>1
                <5> QED BY <5>2, <5>3 DEF a, b
            <4>2. h[(x - 1) + 1] = f[i] + (j - 1)
                BY <2>0, <4>1
            <4>3. (x - 1) + 1 = x
                OBVIOUS
            <4>6. j \in 1 .. l(i)
                BY <4>1
            <4>4. Len(u[x]) = 1
                BY <1>5, <2>1, <4>6
            <4>5. h[x] = f[i] + (j - 1)
                BY <4>2, <4>3
            <4> QED BY <3>0, <3>1, <4>1, <4>4, <4>5
        <3>3. CASE j = 0
            <4>1. Len(u[x]) = 0
                <5>1. x = g[i] + 1
                    BY <2>1, <3>0, <3>3
                <5> QED BY <1>5, <5>1
            <4>2. h[x] = f[i]
                <5>1. CASE i = 1
                    <6>1. x = 1
                        BY <1>3, <2>1, <3>3, <5>1
                    <6> QED BY <1>2, <1>4, <5>1, <6>1
                <5>2. CASE i # 1
                    <6> DEFINE b == i - 1
                    <6>1. b \in 1 .. n /\ b + 1 = i
                        BY <1>1, <5>2
                    <6> HIDE DEF b
                    <6>2. l(b) \in Nat /\ g[b] \in Nat /\ g[i] = g[b] + (1 + l(b)) /\ f[i] = f[b] + l(b)
                        <7>1. g[b + 1] = g[b] + (1 + l(b)) /\ f[b + 1] = f[b] + l(b)
                            BY <1>2, <1>3, <6>1
                        <7>2. l(b) \in Nat
                            BY <1>1, <6>1
                        <7>3. l(b) \in 0 .. l(b)
                            BY <7>2
                        <7>4. g[b] \in Nat
                            BY <1>6, <6>1, <7>3
                        <7> QED BY <6>1, <7>1, <7>2, <7>4
                    <6>3. x - 1 = g[b] + (1 + l(b)) /\ l(b) \in 0 .. l(b)
                        BY <2>1, <3>3, <6>2
                    <6>4. h[(x - 1) + 1] = f[b] + l(b)
                        BY <2>0, <6>1, <6>3
                    <6>5. (x - 1) + 1 = x
                        OBVIOUS
                    <6> QED BY <6>2, <6>4, <6>5
                <5> QED BY <5>1, <5>2
            <4> QED BY <3>0, <3>1, <3>3, <4>1, <4>2
        <3> QED BY <3>2, <3>3
    <2>2. Right(x)
        BY <2>1
    <2>3. x \in 0 .. N
        BY <1>1
    <2> HIDE DEF Right
    <2> QED BY <2>2, <2>3
<1> HIDE DEF I
<1>9. \A x \in 0 .. N : x \in I
    BY <1>1, <1>7, <1>8, Upward
<1>10. \A x \in 0 .. N : Right(x)
    BY <1>9 DEF I
<1>11. Len(all) = f[n + 1]
    <2>1. CASE n = 0
        BY <1>2, <1>3, <1>4, <2>1
    <2>2. CASE n # 0
        <3>1. n \in 1 .. n /\ l(n) \in Nat
            BY <1>1, <2>2
        <3>2. N = g[n] + (1 + l(n)) /\ f[n + 1] = f[n] + l(n) /\ l(n) \in 0 .. l(n) /\ N \in 0 .. N
            BY <1>1, <1>2, <1>3, <3>1
        <3>3. h[N + 1] = f[n] + l(n)
            BY <1>10, <3>1, <3>2
        <3> QED BY <1>4, <3>2, <3>3
    <2> QED BY <2>1, <2>2
<1>12. ASSUME NEW i \in 1 .. n, NEW j \in 1 .. l(i) PROVE all[f[i] + j] = u[g[i] + (1 + j)][1]
    <2> DEFINE x == g[i] + (1 + j)
               w == x - 1
    <2>0. l(i) \in Nat
        BY <1>1
    <2>1. j \in 0 .. l(i) /\ j - 1 \in 0 .. l(i)
        BY <2>0
    <2>2. x \in 1 .. N /\ g[i] \in Nat /\ f[i] \in Nat
        BY <1>6, <2>1
    <2>3. w = g[i] + (1 + (j - 1)) /\ w \in 0 .. N /\ w + 1 = x
        <3> DEFINE a == g[i]
        <3>0. a \in Nat /\ j \in Nat /\ w = (a + (1 + j)) - 1
            BY <2>2
        <3>1. w = a + (1 + (j - 1))
            <4> HIDE DEF a, w
            <4> QED BY <3>0
        <3> HIDE DEF x
        <3>2. w \in 0 .. N /\ w + 1 = x
            BY <1>1, <2>2
        <3> QED BY <3>1, <3>2
    <2>4. Len(u[x]) = 1
        BY <1>5
    <2> HIDE DEF x, w
    <2>5. h[w + 1] = f[i] + (j - 1)
        <3>1. Right(w)
            BY <1>10, <2>3
        <3> QED BY <2>1, <2>3, <3>1
    <2>6. h[x] + 1 = f[i] + j
        <3> DEFINE b == f[i]
        <3>1. h[x] = b + (j - 1) /\ b \in Nat /\ j \in Nat
            BY <2>0, <2>2, <2>3, <2>5
        <3> HIDE DEF b
        <3>2. h[x] + 1 = b + j
            BY <3>1
        <3> QED BY <3>2 DEF b
    <2>7. all[h[x] + 1] = u[x][1]
        BY <1>4, <2>2, <2>4
    <2> QED BY <2>6, <2>7 DEF x
<1>13. QED
    BY <1>2, <1>11, <1>12 DEF n, l, N, all, InTurn

\* What passes a test is a list of what it was picked from.
LEMMA SymbolsAreNodes ==
    ASSUME NEW p, IsList(p.nodes)
    PROVE  Symbols(p) \in Seq(Range(p.nodes))
<1> DEFINE T == Range(p.nodes)
           picks == [i \in DOMAIN p.nodes |->
                        IF p.nodes[i].symbol_kind # None THEN <<p.nodes[i]>> ELSE <<>>]
<1>1. PICK n \in Nat : DOMAIN p.nodes = 1 .. n
    BY ListIsSeq
<1>2. Symbols(p) = FlattenSeq(picks)
    BY DEF Symbols, Where
<1>3. \A i \in 1 .. n : p.nodes[i] \in T
    BY <1>1 DEF Range
<1> HIDE DEF T
<1>4. \A i \in 1 .. n : <<p.nodes[i]>> \in Seq(T) /\ <<>> \in Seq(T)
    BY <1>3
<1>5. picks \in [1 .. n -> Seq(T)]
    BY <1>1, <1>4
<1> HIDE DEF picks
<1>6. picks \in Seq(Seq(T))
    BY <1>5
<1>7. Symbols(p) \in Seq(T)
    BY <1>2, <1>6, Flattened
<1>8. QED
    BY <1>7 DEF T

\* The vertex of an entry, under its number.
Vertex(entries, x) == [id |-> x, label |-> entries[x].label, content |-> entries[x].content]

\* The vertices are numbered in their order.
LEMMA VerticesAreNumbered ==
    ASSUME NEW E, NEW entries \in Seq(E)
    PROVE  VerticesOf(entries) = [x \in 1 .. Len(entries) |-> Vertex(entries, x)]
<1> DEFINE k == Len(entries)
           V == {Vertex(entries, x) : x \in 1 .. k}
           first(n) == [x \in 1 .. n |-> Vertex(entries, x)]
           Defines(h) == h = [n \in 0 .. k |-> IF n = 0 THEN <<>> ELSE LsifVertex(h[n - 1], entries[n])]
           f == [n \in 0 .. k |-> first(n)]
           g == CHOOSE h : Defines(h)
<1>1. k \in Nat
    OBVIOUS
<1>2. VerticesOf(entries) = g[k]
    BY DEF VerticesOf
<1>3. first(0) = <<>>
    OBVIOUS
<1>4. ASSUME NEW n \in 1 .. k PROVE LsifVertex(first(n - 1), entries[n]) = first(n)
    <2> DEFINE s == first(n - 1)
               v == Vertex(entries, n)
               more == Append(s, v)
    <2>1. \A x \in 1 .. n : Vertex(entries, x) \in V
        BY <1>1
    <2>2. s \in [1 .. n - 1 -> V] /\ n - 1 \in Nat
        <3> HIDE DEF V
        <3> QED BY <1>1, <2>1
    <2>3. \A x \in 1 .. n - 1 : s[x] = Vertex(entries, x)
        OBVIOUS
    <2>4. v \in V
        BY <2>1
    <2> HIDE DEF s, V
    <2>5. s \in Seq(V) /\ Len(s) = n - 1
        BY <2>2
    <2>6. LsifVertex(s, entries[n]) = more
        <3>1. Len(s) + 1 = n
            BY <2>2, <2>5
        <3> QED BY <3>1 DEF LsifVertex, Vertex
    <2> HIDE DEF v
    <2>7. more = [x \in 1 .. n |-> more[x]]
        <3>1. more \in Seq(V) /\ Len(more) = n
            BY <2>2, <2>4, <2>5
        <3> HIDE DEF more
        <3> QED BY <3>1
    <2>8. \A x \in 1 .. n : more[x] = Vertex(entries, x)
        <3>1. \A x \in 1 .. n - 1 : more[x] = s[x]
            BY <2>2, <2>4, <2>5
        <3>2. more[n] = v
            BY <2>2, <2>4, <2>5
        <3>3. \A x \in 1 .. n : x \in 1 .. n - 1 \/ x = n
            BY <1>1
        <3> HIDE DEF more
        <3> QED BY <2>3, <3>1, <3>2, <3>3 DEF v
    <2> HIDE DEF more
    <2>9. more = first(n)
        BY <2>7, <2>8
    <2> QED BY <2>6, <2>9 DEF s
<1> HIDE DEF first
<1>5. Defines(f)
    <2>1. ASSUME NEW n \in 0 .. k
          PROVE  f[n] = IF n = 0 THEN <<>> ELSE LsifVertex(f[n - 1], entries[n])
        <3>1. CASE n = 0
            BY <1>3, <3>1
        <3>2. CASE n # 0
            <4>1. n \in 1 .. k /\ n - 1 \in 0 .. k
                BY <1>1, <3>2
            <4>2. f[n - 1] = first(n - 1) /\ f[n] = first(n)
                BY <4>1
            <4> HIDE DEF f
            <4> QED BY <1>4, <3>2, <4>1, <4>2
        <3> QED BY <3>1, <3>2
    <2>2. f = [n \in 0 .. k |-> f[n]]
        OBVIOUS
    <2> HIDE DEF f
    <2>3. [n \in 0 .. k |-> f[n]]
            = [n \in 0 .. k |-> IF n = 0 THEN <<>> ELSE LsifVertex(f[n - 1], entries[n])]
        BY <2>1
    <2> QED BY <2>2, <2>3
<1>6. Defines(g)
    <2> HIDE DEF Defines, f
    <2> QED BY <1>5
<1> HIDE DEF g
<1>7. \A n \in 0 .. k : g[n] = IF n = 0 THEN <<>> ELSE LsifVertex(g[n - 1], entries[n])
    BY <1>6
<1> HIDE DEF Defines, f
<1> DEFINE I == {n \in 0 .. k : g[n] = first(n)}
<1>8. 0 \in I
    BY <1>1, <1>3, <1>7
<1>9. ASSUME NEW n \in 1 .. k, n - 1 \in I PROVE n \in I
    <2>1. g[n - 1] = first(n - 1) /\ n \in 0 .. k /\ n # 0
        BY <1>1, <1>9
    <2>2. g[n] = LsifVertex(first(n - 1), entries[n])
        BY <1>7, <2>1
    <2> QED BY <1>4, <2>1, <2>2
<1> HIDE DEF I, k
<1>10. k \in I
    <2>1. \A n \in 0 .. k : n \in I
        BY <1>1, <1>8, <1>9, Upward
    <2> QED BY <1>1, <2>1
<1>11. QED
    BY <1>2, <1>10 DEF I, first, k

\* The symbols of a graph, partition by partition.
SymbolLists(graph) == [i \in DOMAIN graph |-> Symbols(graph[i])]

\* They are lists of nodes.
LEMMA SymbolListsAreLists ==
    ASSUME NEW graph, IsGraph(graph)
    PROVE  \E T : SymbolLists(graph) \in Seq(Seq(T))
<1> DEFINE T == UNION {Range(graph[i].nodes) : i \in DOMAIN graph}
<1>1. PICK n \in Nat : DOMAIN graph = 1 .. n /\ n = Len(graph)
    BY ListIsSeq DEF IsGraph
<1>2. ASSUME NEW i \in 1 .. n PROVE Symbols(graph[i]) \in Seq(T)
    <2> DEFINE R == Range(graph[i].nodes)
               s == Symbols(graph[i])
    <2>1. IsList(graph[i].nodes)
        BY <1>1 DEF IsGraph, IsPartition
    <2>2. s \in Seq(R)
        BY <2>1, SymbolsAreNodes
    <2>3. R \subseteq T
        BY <1>1
    <2> HIDE DEF T, R, s
    <2>4. s \in Seq(T)
        BY <2>2, <2>3
    <2> QED BY <2>4 DEF s
<1> HIDE DEF T
<1>3. SymbolLists(graph) \in [1 .. n -> Seq(T)]
    BY <1>1, <1>2 DEF SymbolLists
<1>4. SymbolLists(graph) \in Seq(Seq(T))
    BY <1>3
<1>5. QED
    BY <1>4

\* KiteDB has a record for each symbol, in the order of SCIP.
LEMMA KiteFollowsScip ==
    ASSUME NEW graph, IsGraph(graph)
    PROVE  LET scip == FlattenSeq(SymbolLists(graph)) IN
           /\ Len(KiteRecords(graph)) = Len(scip)
           /\ \A i \in DOMAIN scip : KiteRecords(graph)[i].qualified_name = scip[i].qualified_name
<1> DEFINE Record(n) == [path |-> n.file_id, name |-> n.name, qualified_name |-> n.qualified_name]
           s == SymbolLists(graph)
           k == [i \in DOMAIN graph |-> [j \in DOMAIN s[i] |-> Record(s[i][j])]]
<1>1. PICK n \in Nat : DOMAIN graph = 1 .. n /\ n = Len(graph)
    BY ListIsSeq DEF IsGraph
<1>2. PICK T : s \in Seq(Seq(T))
    BY SymbolListsAreLists
<1>3. DOMAIN s = 1 .. n /\ \A i \in 1 .. n : s[i] = Symbols(graph[i])
    BY <1>1 DEF SymbolLists
<1>4. KiteRecords(graph) = FlattenSeq(k)
    <2>1. k = [i \in DOMAIN graph |->
                [j \in DOMAIN Symbols(graph[i]) |->
                    [path |-> Symbols(graph[i])[j].file_id, name |-> Symbols(graph[i])[j].name,
                     qualified_name |-> Symbols(graph[i])[j].qualified_name]]]
        BY <1>1, <1>3
    <2> HIDE DEF k
    <2> QED BY <2>1 DEF KiteRecords
<1> HIDE DEF s
<1>5. Len(s) = n /\ \A i \in 1 .. n : s[i] \in Seq(T) /\ DOMAIN s[i] = 1 .. Len(s[i]) /\ Len(s[i]) \in Nat
    BY <1>2, <1>3
<1> DEFINE U == {Record(x) : x \in T}
<1>6. \A i \in 1 .. n : k[i] = [j \in 1 .. Len(s[i]) |-> Record(s[i][j])]
    BY <1>1, <1>5
<1>7. ASSUME NEW i \in 1 .. n PROVE k[i] \in Seq(U) /\ Len(k[i]) = Len(s[i])
    <2> DEFINE l == Len(s[i])
               q == s[i]
    <2>1. l \in Nat /\ q \in Seq(T) /\ \A j \in 1 .. l : q[j] \in T
        BY <1>5
    <2>2. k[i] = [j \in 1 .. l |-> Record(q[j])]
        BY <1>6
    <2> HIDE DEF l, q, k
    <2>3. \A j \in 1 .. l : Record(q[j]) \in U
        BY <2>1
    <2> HIDE DEF U
    <2>4. k[i] \in [1 .. l -> U]
        BY <2>2, <2>3
    <2>5. k[i] \in Seq(U) /\ Len(k[i]) = l
        BY <2>1, <2>4
    <2> QED BY <2>5 DEF l
<1>8. k = [i \in 1 .. n |-> k[i]]
    BY <1>1
<1> HIDE DEF k, U
<1>9. k \in Seq(Seq(U)) /\ Len(k) = n
    BY <1>7, <1>8
<1> DEFINE scip == FlattenSeq(s)
           kite == FlattenSeq(k)
<1>10. PICK f : Placed(s, f) /\ scip \in Seq(T)
    BY <1>2, Flattened
<1>11. PICK g : Placed(k, g)
    BY <1>9, Flattened
<1>12. Len(scip) = Len(kite) /\ \A i \in 1 .. n + 1 : f[i] = g[i]
    BY <1>2, <1>5, <1>7, <1>9, <1>10, <1>11, PlacedAlike
<1>13. DOMAIN scip = 1 .. Len(scip)
    BY <1>10
<1>14. ASSUME NEW x \in 1 .. Len(scip) PROVE kite[x].qualified_name = scip[x].qualified_name
    <2>1. PICK i \in 1 .. n : \E j \in 1 .. Len(s[i]) : x = f[i] + j
        <3>1. OfLists(s)
            BY <1>2 DEF OfLists
        <3>2. EachSomewhere(s, f)
            BY <1>10, <3>1, Somewhere
        <3> QED BY <1>5, <3>2 DEF EachSomewhere
    <2>2. PICK j \in 1 .. Len(s[i]) : x = f[i] + j
        BY <2>1
    <2>3. scip[f[i] + j] = s[i][j]
        BY <1>5, <1>10 DEF Placed
    <2>4. kite[g[i] + j] = k[i][j]
        BY <1>7, <1>9, <1>11 DEF Placed
    <2>5. f[i] = g[i]
        BY <1>12
    <2>6. k[i][j] = Record(s[i][j])
        BY <1>6
    <2> HIDE DEF scip, kite
    <2>7. scip[x] = s[i][j] /\ kite[x] = Record(s[i][j])
        BY <2>2, <2>3, <2>4, <2>5, <2>6
    <2> QED BY <2>7
<1>15. QED
    BY <1>4, <1>12, <1>13, <1>14 DEF s

\* The entries of an LSIF dump, partition by partition.
EntryLists(graph) == [i \in DOMAIN graph |-> LsifEntries(graph[i])]

\* A document and a result set per symbol.
LEMMA EntriesOfAPartition ==
    ASSUME NEW T, NEW p, Symbols(p) \in Seq(T)
    PROVE  \E E : /\ LsifEntries(p) \in Seq(E) /\ Len(LsifEntries(p)) = 1 + Len(Symbols(p))
                  /\ LsifEntries(p)[1].label = "document"
                  /\ \A j \in 1 .. Len(Symbols(p)) :
                        LsifEntries(p)[1 + j] = [label |-> "resultSet", content |-> Symbols(p)[j].qualified_name]
<1> DEFINE s == Symbols(p)
           n == Len(s)
           d == [label |-> "document", content |-> Lossy(p.path)]
           r(j) == [label |-> "resultSet", content |-> s[j].qualified_name]
           E == {d} \cup {r(j) : j \in 1 .. n}
           sets == [j \in DOMAIN s |-> r(j)]
<1>1. n \in Nat /\ DOMAIN s = 1 .. n
    OBVIOUS
<1>2. LsifEntries(p) = <<d>> \o sets
    BY DEF LsifEntries
<1>3. d.label = "document"
    OBVIOUS
<1> HIDE DEF s, n, d, r
<1>4. d \in E /\ \A j \in 1 .. n : r(j) \in E
    OBVIOUS
<1>5. sets = [j \in 1 .. n |-> r(j)]
    BY <1>1
<1> HIDE DEF E, sets
<1>6. sets \in Seq(E) /\ Len(sets) = n /\ \A j \in 1 .. n : sets[j] = r(j)
    <2>1. sets \in [1 .. n -> E]
        BY <1>4, <1>5
    <2> QED BY <1>1, <1>5, <2>1
<1>7. <<d>> \in Seq(E) /\ Len(<<d>>) = 1 /\ <<d>>[1] = d
    BY <1>4
<1> DEFINE h == <<d>>
<1> HIDE DEF h
<1>8. h \in Seq(E) /\ Len(h) = 1 /\ h[1] = d
    BY <1>7 DEF h
<1>9. h \o sets \in Seq(E) /\ Joins(h \o sets, h, sets)
    BY <1>6, <1>8, Joined
<1>10. /\ Len(h \o sets) = 1 + n /\ (h \o sets)[1] = d
       /\ \A j \in 1 .. n : (h \o sets)[1 + j] = r(j)
    BY <1>6, <1>8, <1>9 DEF Joins
<1>11. LsifEntries(p) = h \o sets
    BY <1>2 DEF h
<1>12. QED
    BY <1>3, <1>9, <1>10, <1>11 DEF r, n, s

\* LSIF has a result set for each symbol, in the order of SCIP, and numbers its
\* vertices in the order of the file.
LEMMA LsifFollowsScip ==
    ASSUME NEW graph, IsGraph(graph)
    PROVE  LET scip == FlattenSeq(SymbolLists(graph))
               sets == Where(LsifVertices(graph), LAMBDA v : v.label = "resultSet")
           IN  /\ Len(sets) = Len(scip)
               /\ \A i \in DOMAIN scip : sets[i].content = scip[i].qualified_name
               /\ \A i \in DOMAIN LsifVertices(graph) : LsifVertices(graph)[i].id = i
<1> DEFINE s == SymbolLists(graph)
           t == EntryLists(graph)
           all == FlattenSeq(t)
           v == LsifVertices(graph)
           u == [x \in DOMAIN v |-> IF v[x].label = "resultSet" THEN <<v[x]>> ELSE <<>>]
           Set(i, j) == [label |-> "resultSet", content |-> s[i][j].qualified_name]
<1>1. PICK n \in Nat : DOMAIN graph = 1 .. n /\ n = Len(graph)
    BY ListIsSeq DEF IsGraph
<1>2. PICK T : s \in Seq(Seq(T))
    BY SymbolListsAreLists
<1>3. /\ DOMAIN s = 1 .. n /\ DOMAIN t = 1 .. n /\ t = [i \in 1 .. n |-> t[i]]
      /\ \A i \in 1 .. n : s[i] = Symbols(graph[i]) /\ t[i] = LsifEntries(graph[i])
    BY <1>1 DEF SymbolLists, EntryLists
<1>4. v = VerticesOf(all)
    BY DEF LsifVertices, EntryLists
<1>5. Where(v, LAMBDA w : w.label = "resultSet") = FlattenSeq(u)
    BY DEF Where
<1> HIDE DEF s, t, v
<1>6. Len(s) = n /\ \A i \in 1 .. n : s[i] \in Seq(T) /\ DOMAIN s[i] = 1 .. Len(s[i]) /\ Len(s[i]) \in Nat
    BY <1>2, <1>3
<1> DEFINE E == UNION {Range(t[i]) : i \in 1 .. n}
<1>7. ASSUME NEW i \in 1 .. n
      PROVE  /\ t[i] \in Seq(E) /\ Len(t[i]) = 1 + Len(s[i]) /\ t[i][1].label = "document"
             /\ \A j \in 1 .. Len(s[i]) : t[i][1 + j] = Set(i, j)
    <2> DEFINE q == t[i]
    <2>1. Symbols(graph[i]) \in Seq(T)
        BY <1>3, <1>6
    <2>2. \E F : /\ q \in Seq(F) /\ Len(q) = 1 + Len(s[i]) /\ q[1].label = "document"
                 /\ \A j \in 1 .. Len(s[i]) : q[1 + j] = Set(i, j)
        BY <1>3, <2>1, EntriesOfAPartition
    <2>3. Range(q) \subseteq E
        OBVIOUS
    <2> HIDE DEF q, E
    <2>4. q \in Seq(E)
        <3>1. PICK F : q \in Seq(F)
            BY <2>2
        <3>2. q \in [1 .. Len(q) -> Range(q)] /\ Len(q) \in Nat
            BY <3>1 DEF Range
        <3> QED BY <2>3, <3>2
    <2> QED BY <2>2, <2>4 DEF q
<1> HIDE DEF E
<1>8. t \in Seq(Seq(E)) /\ Len(t) = n
    BY <1>3, <1>7
<1>9. all \in Seq(E)
    BY <1>8, Flattened
<1> DEFINE N == Len(all)
<1>10. N \in Nat /\ DOMAIN all = 1 .. N
    BY <1>9
<1>11. v = [x \in 1 .. N |-> Vertex(all, x)]
    BY <1>4, <1>9, VerticesAreNumbered
<1> HIDE DEF all, N
<1>12. DOMAIN v = 1 .. N /\ \A x \in 1 .. N : /\ v[x].id = x /\ v[x].label = all[x].label
                                              /\ v[x].content = all[x].content
    BY <1>11 DEF Vertex
<1> DEFINE U == {v[x] : x \in 1 .. N}
<1>13. u \in Seq(Seq(U)) /\ Len(u) = N
    <2>1. \A x \in 1 .. N : v[x] \in U
        OBVIOUS
    <2> HIDE DEF U
    <2>2. \A x \in 1 .. N : <<v[x]>> \in Seq(U) /\ <<>> \in Seq(U)
        BY <2>1
    <2>3. u \in [1 .. N -> Seq(U)]
        BY <1>12, <2>2
    <2> HIDE DEF u
    <2> QED BY <1>10, <2>3
<1>14. \A x \in 1 .. N : u[x] = IF v[x].label = "resultSet" THEN <<v[x]>> ELSE <<>>
    BY <1>12
<1> HIDE DEF u, U
<1> DEFINE scip == FlattenSeq(s)
           sets == FlattenSeq(u)
<1>15. PICK f : Placed(s, f) /\ scip \in Seq(T)
    BY <1>2, Flattened
<1>16. PICK g : Placed(t, g)
    BY <1>8, Flattened
<1>17. PICK h : Placed(u, h)
    BY <1>13, Flattened
<1>18. ASSUME NEW i \in 1 .. n, NEW j \in 1 .. 1 + Len(s[i])
       PROVE  g[i] + j \in 1 .. N /\ all[g[i] + j] = t[i][j]
    <2>1. j \in 1 .. Len(t[i])
        BY <1>7
    <2>2. all[g[i] + j] = t[i][j]
        BY <1>8, <1>16, <2>1 DEF Placed, all
    <2>3. i \in 1 .. n + 1 /\ i + 1 \in 1 .. n + 1 /\ n + 1 \in 1 .. n + 1 /\ i + 1 <= n + 1
        BY <1>1
    <2>4. g[i] \in Nat /\ g[i + 1] = g[i] + (1 + Len(s[i])) /\ g[i + 1] <= N
        <3>1. g[i] \in Nat /\ g[i + 1] = g[i] + Len(t[i])
            BY <1>8, <1>16, <2>3 DEF Placed
        <3>2. g[i + 1] <= g[n + 1] /\ N = g[n + 1]
            BY <1>8, <1>16, <2>3 DEF Placed, N, all
        <3> QED BY <1>7, <3>1, <3>2
    <2> DEFINE l == Len(s[i])
               a == g[i]
    <2>5. l \in Nat /\ a \in Nat /\ a + (1 + l) <= N /\ j \in 1 .. 1 + l
        BY <1>6, <2>4
    <2> HIDE DEF l, a
    <2>6. a + j \in 1 .. N
        BY <1>10, <2>5
    <2> QED BY <2>2, <2>6 DEF a
<1>19. ASSUME NEW i \in 1 .. n PROVE Len(u[g[i] + 1]) = 0
    <2>1. 1 \in 1 .. 1 + Len(s[i])
        BY <1>6
    <2>2. v[g[i] + 1].label = "document" /\ g[i] + 1 \in 1 .. N
        BY <1>7, <1>12, <1>18, <2>1
    <2> DEFINE x == g[i] + 1
    <2>3. v[x].label = "document" /\ x \in 1 .. N
        BY <2>2
    <2> HIDE DEF x
    <2>4. u[x] = <<>>
        BY <1>14, <2>3
    <2>5. Len(u[x]) = 0
        BY <2>4
    <2> QED BY <2>5 DEF x
<1>20. ASSUME NEW i \in 1 .. n, NEW j \in 1 .. Len(s[i])
       PROVE  /\ Len(u[g[i] + (1 + j)]) = 1
              /\ u[g[i] + (1 + j)][1].content = s[i][j].qualified_name
    <2>1. 1 + j \in 1 .. 1 + Len(s[i])
        BY <1>6
    <2> DEFINE x == g[i] + (1 + j)
    <2>2. x \in 1 .. N /\ all[x] = Set(i, j)
        BY <1>7, <1>18, <2>1
    <2> HIDE DEF x
    <2>3. v[x].label = "resultSet" /\ v[x].content = s[i][j].qualified_name
        BY <1>12, <2>2
    <2>4. u[x] = <<v[x]>>
        BY <1>14, <2>2, <2>3
    <2>5. Len(u[x]) = 1 /\ u[x][1] = v[x]
        BY <2>4
    <2> QED BY <2>3, <2>5 DEF x
<1>21. Len(u) = Len(FlattenSeq(t)) /\ Len(t) = Len(s)
    BY <1>6, <1>8, <1>13 DEF N, all
<1>22. \A i \in 1 .. Len(s) : Len(t[i]) = 1 + Len(s[i])
    BY <1>6, <1>7
<1>23. \A i \in 1 .. Len(s) : /\ Len(u[g[i] + 1]) = 0
                              /\ \A j \in 1 .. Len(s[i]) : Len(u[g[i] + (1 + j)]) = 1
    BY <1>6, <1>19, <1>20
<1>24. InTurn(s, f, g, u)
    <2>1. Picks(s, t, g, u)
        BY <1>21, <1>22, <1>23 DEF Picks
    <2>2. Placed(s, f) /\ Placed(t, g) /\ Placed(u, h)
        BY <1>15, <1>16, <1>17
    <2>3. OfLists(s) /\ OfLists(u)
        BY <1>2, <1>13 DEF OfLists
    <2> QED BY <2>1, <2>2, <2>3, PickedInTurn
<1>25. DOMAIN scip = 1 .. Len(scip)
    BY <1>15
<1>26. ASSUME NEW x \in 1 .. Len(scip) PROVE sets[x].content = scip[x].qualified_name
    <2>1. PICK i \in 1 .. n : \E j \in 1 .. Len(s[i]) : x = f[i] + j
        <3>1. OfLists(s)
            BY <1>2 DEF OfLists
        <3>2. EachSomewhere(s, f)
            BY <1>15, <3>1, Somewhere
        <3> QED BY <1>6, <3>2 DEF EachSomewhere
    <2>2. PICK j \in 1 .. Len(s[i]) : x = f[i] + j
        BY <2>1
    <2>3. scip[f[i] + j] = s[i][j]
        BY <1>6, <1>15 DEF Placed
    <2>4. sets[f[i] + j] = u[g[i] + (1 + j)][1]
        BY <1>6, <1>24 DEF InTurn
    <2>5. u[g[i] + (1 + j)][1].content = s[i][j].qualified_name
        BY <1>20
    <2> HIDE DEF scip, sets
    <2> QED BY <2>2, <2>3, <2>4, <2>5
<1>27. QED
    BY <1>5, <1>12, <1>24, <1>25, <1>26 DEF s, v, InTurn

\* The projections of a graph agree.
LEMMA ProjectionsAgree == IsGraph(snapshot) => ExportsAgree
<1> SUFFICES ASSUME IsGraph(snapshot) PROVE ExportsAgree
    OBVIOUS
<1> DEFINE scip == FlattenSeq(SymbolLists(snapshot))
           kite == KiteRecords(snapshot)
           v == LsifVertices(snapshot)
           sets == Where(v, LAMBDA w : w.label = "resultSet")
<1>1. FlattenSeq([i \in DOMAIN snapshot |-> ScipDocuments(snapshot)[i].symbols]) = scip
    <2>1. [i \in DOMAIN snapshot |-> ScipDocuments(snapshot)[i].symbols] = SymbolLists(snapshot)
        BY DEF ScipDocuments, SymbolLists
    <2> QED BY <2>1
<1>2. Len(kite) = Len(scip) /\ \A i \in DOMAIN scip : kite[i].qualified_name = scip[i].qualified_name
    BY KiteFollowsScip
<1>3. Len(sets) = Len(scip) /\ \A i \in DOMAIN scip : sets[i].content = scip[i].qualified_name
    BY LsifFollowsScip
<1>4. \A i \in DOMAIN v : v[i].id = i
    BY LsifFollowsScip
<1>5. IsInjective([i \in DOMAIN v |-> v[i].id])
    <2> HIDE DEF v
    <2> QED BY <1>4 DEF IsInjective
<1> HIDE DEF scip, kite
<1>6. QED
    BY <1>1, <1>2, <1>3, <1>5 DEF ExportsAgree, kite

\* What documents made of memory, and what a pack did.
HeldAndRead == DocumentsInv /\ PackInv

\* Every step keeps it: documents touch no pack, and a pack no documents.
LEMMA HeldAndReadStep == HeldAndRead /\ [Next]_vars => HeldAndRead'
BY DocumentsStep, PackStep DEF HeldAndRead, DocumentsInv

\* It holds at the start, of a pack to be written as of documents to be read.
LEMMA HeldAndReadInit == Init => HeldAndRead
BY DocumentsInit, PackInit DEF HeldAndRead

\* The stages of the formats and what is held in each.
THEOREM TypeOKCorrect == Spec => []TypeOK
<1>1. HeldAndRead => TypeOK
    <2> SUFFICES ASSUME HeldAndRead PROVE TypeOK
        OBVIOUS
    <2>1. HeldInv /\ (written = <<>> => IsGraph(snapshot))
        BY DEF HeldAndRead, DocumentsInv, PackInv
    <2>2. \A s \in Strings : Range(s) \subseteq 0 .. U8Max
        <3>1. ASSUME NEW s \in Strings, NEW x \in Range(s) PROVE x \in 0 .. U8Max
            <4>1. PICK i \in DOMAIN s : x = s[i]
                BY DEF Range
            <4>2. \A j \in DOMAIN s : s[j] \in 0 .. U8Max
                <5>1. \A T : \A q \in Seq(T) : \A j \in DOMAIN q : q[j] \in T
                    OBVIOUS
                <5> QED BY <5>1, Zenon DEF Strings
            <4> QED BY <4>1, <4>2
        <3> QED BY <3>1
    <2>3. Range(pack) \cup Range(rest) \subseteq 0 .. U8Max
        BY <2>1, <2>2 DEF HeldInv
    <2>4. IsGraph(snapshot)
        BY <2>1 DEF HeldInv
    <2> QED BY <2>1, <2>3, <2>4, Zenon DEF HeldInv, TypeOK
<1>2. QED
    BY <1>1, HeldAndReadInit, HeldAndReadStep, PTL DEF Spec

\* A pack gives back the wanted partitions as they were written, for any graph,
\* any choice of records and any place at which the pack may end, and one that
\* ends within a record is refused (pack.rs, compact.rs, tags.rs, load.rs).
THEOREM PackReadsWhatWasWrittenCorrect == Spec => []PackReadsWhatWasWritten
<1>1. HeldAndRead => PackReadsWhatWasWritten
    <2> SUFFICES ASSUME PackInv PROVE PackReadsWhatWasWritten
        BY DEF HeldAndRead
    <2>1. ASSUME pc = "reading"
          PROVE  /\ Len(snapshot) = Wanted(record - 1)
                 /\ \A i \in wanted : i < record => snapshot[Wanted(i)] = Stored(written[i])
        <3>1. Gathered(snapshot, written, wanted, record)
            BY <2>1 DEF PackInv, ReadingInv
        <3>2. \A n : Wanted(n) = Count(wanted, n)
            BY DEF Wanted, Count
        <3> QED BY <3>1, <3>2 DEF Gathered
    <2>2. ASSUME pc = "reading", pack = PackBytes(written)
          PROVE  rest = FlattenSeq([i \in 1 .. Len(written) - record + 1 |-> RecordBytes(written[record + i - 1])])
        <3>1. /\ written \in Seq(Packable) /\ record \in 1 .. Len(written) + 1
              /\ rest = Drop(PackBytes(written), Len(FirstRecords(written, record - 1)))
            BY <2>2 DEF PackInv, StoredInv, ReadingInv
        <3> QED BY <3>1, OthersFollow
    <2>3. EndInv
        BY DEF PackInv
    <2> QED BY <2>1, <2>2, <2>3 DEF PackReadsWhatWasWritten, EndInv
<1>2. QED
    BY <1>1, HeldAndReadInit, HeldAndReadStep, PTL DEF Spec

\* JSONL gives back the graph, wherever it came from.
THEOREM ImportGivesBackTheGraphCorrect == Spec => []ImportGivesBackTheGraph
<1>1. HeldAndRead => IsGraph(snapshot)
    BY DEF HeldAndRead, DocumentsInv, PackInv, HeldInv
<1>2. QED
    BY <1>1, HeldAndReadInit, HeldAndReadStep, AnyGraphComesBack, PTL DEF Spec

\* The exports name the same symbols in the same order, and an LSIF dump numbers
\* its vertices apart, whatever graph is in memory (write_kitedb, export_snapshot,
\* write_lsif).
THEOREM ExportsAgreeCorrect == Spec => []ExportsAgree
<1>1. HeldAndRead => ExportsAgree
    <2>1. HeldAndRead => IsGraph(snapshot)
        BY DEF HeldAndRead, DocumentsInv, PackInv, HeldInv
    <2> QED BY <2>1, ProjectionsAgree
<1>2. QED
    BY <1>1, HeldAndReadInit, HeldAndReadStep, PTL DEF Spec
=============================================================================
