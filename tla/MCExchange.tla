----------------------------- MODULE MCExchange -----------------------------
(***************************************************************************)
(* Instances of Exchange for TLC.  Bytes of 3 bits and a flag: an u8 tag   *)
(* table of 11 entries fits, a record number takes two bytes, a table of   *)
(* ten strings is one too many.                                            *)
(***************************************************************************)
EXTENDS Exchange

MCMagic == <<5, 1>>

Letter(n) == <<n>>
Span == <<0, 9, 1, 8, 2, 7>>

Node(id, name, qualified_name, symbol_kind, file_id, span, language) ==
    [id |-> id, kind |-> "symbol", language |-> language, name |-> name,
     qualified_name |-> qualified_name, symbol_kind |-> symbol_kind, file_id |-> file_id,
     span |-> span, provenance |-> "manual", confidence |-> "exact"]
Edge(id, from, to, span) ==
    [id |-> id, kind |-> "tests", from |-> from, to |-> to, span |-> span,
     provenance |-> "structural-scanner", confidence |-> "medium"]
Diagnostic(message, file_id, span) ==
    [severity |-> "error", message |-> message, file_id |-> file_id, span |-> span]
Partition(file_id, path, parse_time, nodes, edges, diagnostics) ==
    [file_id |-> file_id, path |-> path, language |-> "rust", fingerprint |-> <<2, 3>>,
     parse_time |-> parse_time, extraction_time |-> 8, nodes |-> nodes, edges |-> edges,
     diagnostics |-> diagnostics]

A == <<0>>
B == <<1>>

\* Options present and absent, an index of 0 and one of 8, a node of another
\* language, a name that is also an id, the empty string.
Rich ==
    Partition(A, <<3, BadByte>>, U64Max,
        <<Node(Letter(4), A, Letter(6), "unknown", A, Span, "c"),
          Node(Letter(7), None, None, None, None, None, "rust"),
          Node(Letter(8), Letter(9), <<>>, "function", None, Span, "unknown")>>,
        <<Edge(Letter(6), Letter(4), Letter(7), Span), Edge(Letter(4), Letter(8), A, None)>>,
        <<Diagnostic(Letter(9), A, None), Diagnostic(<<>>, None, Span)>>)
Plain(file_id) == Partition(file_id, <<3>>, 7, <<>>, <<>>, <<>>)
Small(file_id) ==
    Partition(file_id, file_id, 63, <<Node(Letter(4), Letter(5), None, "class", file_id, None, "rust")>>,
        <<Edge(Letter(6), Letter(4), Letter(4), None)>>, <<Diagnostic(Letter(7), file_id, Span)>>)

\* n nodes with names of their own: a table of n + 2 strings.
Wide(file_id, n) ==
    Partition(file_id, file_id, 0,
        [i \in 1 .. n |-> Node(file_id, Letter(i + 3), None, "field", None, None, "rust")], <<>>, <<>>)
LongName(file_id) == Partition(file_id, [i \in 1 .. U32Max + 1 |-> 1], 0, <<>>, <<>>, <<>>)

MCPacks ==
    {<<Rich>>, <<Rich, Plain(B)>>, <<Plain(A), Small(B)>>, <<Small(A), Plain(B), Small(<<12>>)>>,
     <<Wide(A, U32Max - 2), Plain(B)>>, <<Plain(A), Wide(B, U32Max - 1)>>, <<Plain(A), Wide(B, U32Max)>>,
     <<LongName(A)>>}

Document(file, spelling, occurrences) ==
    [file |-> file, spelling |-> spelling, path |-> <<5>> \o spelling, occurrences |-> occurrences]
Occurrence(text, segment, range, defines) ==
    [symbol |-> [text |-> text, segment |-> segment], range |-> range, defines |-> defines]
Occurrences(range, other) ==
    <<Occurrence("pkg/run", "run", range, TRUE), Occurrence("pkg/run", "run", other, FALSE),
      Occurrence("local 0 main().", None, other, TRUE)>>

\* One file under two spellings, another one in between, a document without
\* occurrences; SCIP ranges with and without numbers.
DocumentLists(range, other) ==
    {<<Document("f", <<1>>, Occurrences(range, other)), Document("g", <<2>>, SubSeq(Occurrences(range, other), 2, 3)),
       Document("f", spelling, SubSeq(Occurrences(other, range), 1, n))>> : spelling \in {<<1>>, <<0, 1>>}, n \in 0 .. 2}
    \cup {<<Document("f", <<1>>, Occurrences(range, other))>>}
MCInputs ==
    {[format |-> "scip", documents |-> d] : d \in DocumentLists(<<0, 4, 8>>, <<>>)}
    \cup {[format |-> "lsp", documents |-> d] : d \in DocumentLists(<<0, 4, 0, 8>>, <<1, 2, 3, 4>>)}
=============================================================================
