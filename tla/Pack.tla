-------------------------------- MODULE Pack --------------------------------
(***************************************************************************)
(* The records of partitions/pack-00000.bin (aci-store: pack.rs,           *)
(* compact.rs, tags.rs): a partition as a table of strings followed by     *)
(* rows of numbers that point into it, written and read as bytes.          *)
(*                                                                         *)
(* A byte carries Base payload values and a continuation flag (128 in the  *)
(* code); widths are parameters, so that a table can outgrow its index and *)
(* a number its type in a small instance.  A string is the sequence of its *)
(* UTF-8 bytes; the only strings that are not UTF-8 are paths.             *)
(***************************************************************************)
EXTENDS Integers, Sequences, SequencesExt, Functions

CONSTANTS
    Base,         \* payload values of one byte, 2^7
    Groups,       \* bytes of the longest varint the reader accepts, 10
    LastGroup,    \* payload values of its last byte that fit in u64, 2
    U32Max,       \* u32::MAX
    BadByte,      \* a byte that never occurs in UTF-8
    Replacement,  \* what to_string_lossy puts in its place
    None,         \* Option::None
    Invalid       \* the Err of a lookup or of a decoded tag

\* What one value is worth in the byte that follows so many others.
Weight[n \in 0 .. Groups] == IF n = 0 THEN 1 ELSE Base * Weight[n - 1]

U8Max == 2 * Base - 1
U64Max == Weight[Groups - 1] * LastGroup - 1

ASSUME WidthsAssumption ==
    /\ {Base, Groups, LastGroup, U32Max} \subseteq Nat \ {0}
    /\ LastGroup <= Base
    /\ U32Max <= U64Max
    /\ BadByte \in 0 .. U8Max /\ Replacement \in 0 .. U8Max \ {BadByte}
-----------------------------------------------------------------------------
(* Tags.  Encoding and decoding are two tables in the code.                *)

EncodedLanguage ==
    <<"c", "cpp", "go", "javascript", "json", "java", "objective-c", "typescript", "python", "rust",
      "unknown">>
DecodedLanguage ==
    <<"c", "cpp", "go", "javascript", "json", "java", "objective-c", "typescript", "python", "rust",
      "unknown">>
EncodedSymbolKind ==
    <<"function", "method", "class", "interface", "type-alias", "enum", "variable", "module", "field",
      "unknown">>
DecodedSymbolKind ==
    <<"function", "method", "class", "interface", "type-alias", "enum", "variable", "module", "field",
      "unknown">>
EncodedNodeKind ==
    <<"repository", "directory", "file", "module", "symbol", "import", "export", "package",
      "external-symbol", "span", "chunk">>
DecodedNodeKind ==
    <<"repository", "directory", "file", "module", "symbol", "import", "export", "package",
      "external-symbol", "span", "chunk">>
EncodedEdgeKind ==
    <<"contains", "defines", "imports", "exports", "calls", "references", "extends", "implements",
      "overrides", "depends-on", "tests">>
DecodedEdgeKind ==
    <<"contains", "defines", "imports", "exports", "calls", "references", "extends", "implements",
      "overrides", "depends-on", "tests">>
EncodedProvenance == <<"structural-scanner", "tree-sitter", "scip", "lsp", "compiler", "manual">>
DecodedProvenance == <<"structural-scanner", "tree-sitter", "scip", "lsp", "compiler", "manual">>
EncodedConfidence == <<"medium", "low", "high", "exact">>
DecodedConfidence == <<"medium", "low", "high", "exact">>
EncodedSeverity == <<"info", "warning", "error">>
DecodedSeverity == <<"info", "warning", "error">>

\* The largest tag is free for an option that is absent.
ASSUME TagsAssumption ==
    /\ Len(EncodedLanguage) <= U8Max /\ Len(EncodedSymbolKind) <= U8Max
    /\ Len(EncodedNodeKind) <= U8Max /\ Len(EncodedEdgeKind) <= U8Max
    /\ Len(EncodedProvenance) <= U8Max /\ Len(EncodedConfidence) <= U8Max
    /\ Len(EncodedSeverity) <= U8Max

Encode(table, value) == SelectInSeq(table, LAMBDA v : v = value) - 1
EncodeOption(table, value) == IF value = None THEN None ELSE Encode(table, value)

\* An index into a table of strings or of tags: optional ones may be absent,
\* one that points nowhere makes the whole record an error.
Lookup(table, index) ==
    IF index = None THEN None ELSE IF index + 1 \in DOMAIN table THEN table[index + 1] ELSE Invalid
-----------------------------------------------------------------------------
(* What is written: partitions, the facts of a file.                       *)

Strings == Seq(0 .. U8Max)
Optional(values) == values \cup {None}

\* Start and end: two byte offsets, two lines and columns.
Spans == [1 .. 6 -> 0 .. U32Max]

Nodes ==
    [id : Strings, kind : Range(EncodedNodeKind), language : Range(EncodedLanguage),
     name : Optional(Strings), qualified_name : Optional(Strings),
     symbol_kind : Optional(Range(EncodedSymbolKind)), file_id : Optional(Strings),
     span : Optional(Spans), provenance : Range(EncodedProvenance), confidence : Range(EncodedConfidence)]
Edges ==
    [id : Strings, kind : Range(EncodedEdgeKind), from : Strings, to : Strings, span : Optional(Spans),
     provenance : Range(EncodedProvenance), confidence : Range(EncodedConfidence)]
Diagnostics ==
    [severity : Range(EncodedSeverity), message : Strings, file_id : Optional(Strings), span : Optional(Spans)]
Partitions ==
    [file_id : Strings, path : Strings, language : Range(EncodedLanguage), fingerprint : Strings,
     parse_time : 0 .. U64Max, extraction_time : 0 .. U64Max,
     nodes : Seq(Nodes), edges : Seq(Edges), diagnostics : Seq(Diagnostics)]

\* Absence is not a number, and an error is no value.
ASSUME AbsenceAssumption ==
    /\ None \notin Nat
    /\ Invalid \notin Optional(Strings) \cup Optional(Spans) \cup Nat
    /\ Invalid \notin Seq(Nodes) \cup Seq(Edges) \cup Seq(Diagnostics)
    /\ \A table \in {EncodedLanguage, EncodedSymbolKind, EncodedNodeKind, EncodedEdgeKind,
                     EncodedProvenance, EncodedConfidence, EncodedSeverity} : Invalid \notin Range(table)
-----------------------------------------------------------------------------
(* Writing.                                                                *)

U8(value) == <<value>>
OptU8(value) == <<IF value = None THEN U8Max ELSE value>>

\* Seven bits at a time, lowest first, the flag on all bytes but the last.
VarInt[value \in 0 .. U64Max] ==
    IF value < Base THEN <<value>> ELSE <<Base + (value % Base)>> \o VarInt[value \div Base]

\* None is 0 and so every index is stored one higher, in an u32 that wraps.
OptU32(value) == VarInt[IF value = None THEN 0 ELSE (value + 1) % (U32Max + 1)]
OptSpan(span) ==
    IF span = None THEN <<0>> ELSE <<1>> \o FlattenSeq([i \in DOMAIN span |-> VarInt[span[i]]])
Text(string) == VarInt[Len(string)] \o string

\* The string table: each string once, in the order of first mention.
Intern(table, string) == IF Contains(table, string) THEN table ELSE Append(table, string)
Option(value) == IF value = None THEN <<>> ELSE <<value>>
Lossy(path) == ReplaceAll(path, BadByte, Replacement)
Mentions(p) ==
    <<p.file_id, Lossy(p.path), p.fingerprint>>
    \o FlattenSeq([i \in DOMAIN p.nodes |->
            LET n == p.nodes[i] IN
            <<n.id>> \o Option(n.name) \o Option(n.qualified_name) \o Option(n.file_id)])
    \o FlattenSeq([i \in DOMAIN p.edges |-> <<p.edges[i].id, p.edges[i].from, p.edges[i].to>>])
    \o FlattenSeq([i \in DOMAIN p.diagnostics |->
            <<p.diagnostics[i].message>> \o Option(p.diagnostics[i].file_id)])
TableOf(mentions) ==
    LET table[n \in 0 .. Len(mentions)] == IF n = 0 THEN <<>> ELSE Intern(table[n - 1], mentions[n])
    IN  table[Len(mentions)]
StringTable(p) == TableOf(Mentions(p))

\* "values.len() as u32" keeps the low bits of an index that does not fit.
IndexOf(table, string) ==
    (SelectInSeq(table, LAMBDA s : s = string) - 1) % (U32Max + 1)
OptIndexOf(table, string) == IF string = None THEN None ELSE IndexOf(table, string)

\* A node stores its language only where it is not the partition's.
NodeBytes(n, table, language) ==
    FlattenSeq(<<
        VarInt[IndexOf(table, n.id)], U8(Encode(EncodedNodeKind, n.kind)),
        OptU8(IF n.language = language THEN None ELSE Encode(EncodedLanguage, n.language)),
        OptU32(OptIndexOf(table, n.name)), OptU32(OptIndexOf(table, n.qualified_name)),
        OptU8(EncodeOption(EncodedSymbolKind, n.symbol_kind)), OptU32(OptIndexOf(table, n.file_id)),
        OptSpan(n.span), U8(Encode(EncodedProvenance, n.provenance)),
        U8(Encode(EncodedConfidence, n.confidence))>>)
EdgeBytes(e, table) ==
    FlattenSeq(<<
        VarInt[IndexOf(table, e.id)], U8(Encode(EncodedEdgeKind, e.kind)),
        VarInt[IndexOf(table, e.from)], VarInt[IndexOf(table, e.to)], OptSpan(e.span),
        U8(Encode(EncodedProvenance, e.provenance)), U8(Encode(EncodedConfidence, e.confidence))>>)
DiagnosticBytes(d, table) ==
    FlattenSeq(<<
        U8(Encode(EncodedSeverity, d.severity)), VarInt[IndexOf(table, d.message)],
        OptU32(OptIndexOf(table, d.file_id)), OptSpan(d.span)>>)

\* The third metric is a leftover that is always zero.
HeaderBytes(p, table) ==
    FlattenSeq(<<
        VarInt[IndexOf(table, p.file_id)], VarInt[IndexOf(table, Lossy(p.path))],
        U8(Encode(EncodedLanguage, p.language)), VarInt[IndexOf(table, p.fingerprint)],
        VarInt[p.parse_time], VarInt[p.extraction_time], VarInt[0]>>)
Rows(parts) == VarInt[Len(parts)] \o FlattenSeq(parts)
RecordWith(p, table) ==
    FlattenSeq(<<
        Rows([i \in DOMAIN table |-> Text(table[i])]),
        HeaderBytes(p, table),
        Rows([i \in DOMAIN p.nodes |-> NodeBytes(p.nodes[i], table, p.language)]),
        Rows([i \in DOMAIN p.edges |-> EdgeBytes(p.edges[i], table)]),
        Rows([i \in DOMAIN p.diagnostics |-> DiagnosticBytes(p.diagnostics[i], table)])>>)
RecordBytes(p) == RecordWith(p, StringTable(p))

Fits_MutOnlyRows(p) ==
    /\ Len(p.nodes) <= U32Max /\ Len(p.edges) <= U32Max /\ Len(p.diagnostics) <= U32Max

\* write_len: every count that is written has to fit in an u32, otherwise the
\* record, and with it the whole index run, is an error.
Short(table) == Len(table) <= U32Max /\ \A i \in DOMAIN table : Len(table[i]) <= U32Max
Fits(p) ==
    /\ Len(p.nodes) <= U32Max /\ Len(p.edges) <= U32Max /\ Len(p.diagnostics) <= U32Max
    /\ Short(StringTable(p))
-----------------------------------------------------------------------------
(* Reading.  A read gives a value and the bytes after it, or fails.        *)

Got(value, rest) == [ok |-> TRUE, value |-> value, rest |-> rest]
Failed == [ok |-> FALSE, value |-> Invalid, rest |-> <<>>]
Drop(bytes, n) == SubSeq(bytes, n + 1, Len(bytes))
Map(read, Op(_)) == IF read.ok THEN Got(Op(read.value), read.rest) ELSE Failed

\* The number in some bytes, the first of them the lowest.
Number(bytes) ==
    LET from[i \in 1 .. Len(bytes)] ==
            (bytes[i] % Base) + (IF i = Len(bytes) THEN 0 ELSE Base * from[i + 1])
    IN  from[1] % (U64Max + 1)

IntSize(bytes) == SelectInSeq(bytes, LAMBDA b : b < Base)

ReadVarInt_MutBigEndian(bytes) ==
    IF IntSize(bytes) \notin 1 .. Groups THEN Failed
    ELSE Got(Number(Reverse(SubSeq(bytes, 1, IntSize(bytes)))), Drop(bytes, IntSize(bytes)))

\* read_var_u64_optional on a file that has not ended: up to Groups bytes; what
\* the last one holds beyond 64 bits is shifted out without an error.
ReadVarInt(bytes) ==
    IF IntSize(bytes) \notin 1 .. Groups THEN Failed
    ELSE Got(Number(SubSeq(bytes, 1, IntSize(bytes))), Drop(bytes, IntSize(bytes)))
Require(read, Test(_)) == IF read.ok /\ Test(read) THEN read ELSE Failed
ReadU32(bytes) == Require(ReadVarInt(bytes), LAMBDA read : read.value <= U32Max)
ReadU8(bytes) == IF bytes = <<>> THEN Failed ELSE Got(Head(bytes), Tail(bytes))

ReadOptU32_MutKeepsOffset(bytes) ==
    Map(ReadU32(bytes), LAMBDA value : IF value = 0 THEN None ELSE value)
ReadOptU32(bytes) == Map(ReadU32(bytes), LAMBDA value : IF value = 0 THEN None ELSE value - 1)
ReadOptU8(bytes) == Map(ReadU8(bytes), LAMBDA value : IF value = U8Max THEN None ELSE value)
TextOf(size) ==
    IF size.ok THEN Got(SubSeq(size.rest, 1, size.value), Drop(size.rest, size.value)) ELSE Failed
ReadText(bytes) == TextOf(Require(ReadU32(bytes), LAMBDA size : size.value <= Len(size.rest)))

\* A cursor: how far a record has been read and the values found so far.
Cursor(bytes) == Got(<<>>, bytes)
Advance(cursor, read) ==
    IF cursor.ok /\ read.ok THEN Got(Append(cursor.value, read.value), read.rest) ELSE Failed
Then(cursor, Read(_)) == Advance(cursor, Read(cursor.rest))
ReadOptSpan(bytes) ==
    IF bytes = <<>> \/ Head(bytes) \notin {0, 1} THEN Failed
    ELSE IF Head(bytes) = 0 THEN Got(None, Tail(bytes))
    ELSE Then(Then(Then(Then(Then(Then(Cursor(Tail(bytes)),
             ReadU32), ReadU32), ReadU32), ReadU32), ReadU32), ReadU32)

ReadValue(bytes, field) ==
    CASE field = "u8" -> ReadU8(bytes)
      [] field = "u32" -> ReadU32(bytes)
      [] field = "u64" -> ReadVarInt(bytes)
      [] field = "opt u8" -> ReadOptU8(bytes)
      [] field = "opt u32" -> ReadOptU32(bytes)
      [] field = "span" -> ReadOptSpan(bytes)
      [] field = "text" -> ReadText(bytes)
ReadRow(bytes, fields) ==
    LET read[n \in 0 .. Len(fields)] ==
            IF n = 0 THEN Cursor(bytes) ELSE Then(read[n - 1], LAMBDA rest : ReadValue(rest, fields[n]))
    IN  read[Len(fields)]
RowsOf(count, fields) ==
    LET read[n \in 0 .. count.value] ==
            IF n = 0 THEN Cursor(count.rest) ELSE Then(read[n - 1], LAMBDA rest : ReadRow(rest, fields))
    IN  IF count.ok THEN read[count.value] ELSE Failed
ReadRows(bytes, fields) == RowsOf(ReadU32(bytes), fields)

HeaderFields == <<"u32", "u32", "u8", "u32", "u64", "u64", "u64">>
NodeFields ==
    <<"u32", "u8", "opt u8", "opt u32", "opt u32", "opt u8", "opt u32", "span", "u8", "u8">>
EdgeFields == <<"u32", "u8", "u32", "u32", "span", "u8", "u8">>
DiagnosticFields == <<"u8", "u32", "opt u32", "span">>

ReadCompact(bytes) ==
    Then(Then(Then(Then(Then(Cursor(bytes),
        LAMBDA rest : ReadRows(rest, <<"text">>)),
        LAMBDA rest : ReadRow(rest, HeaderFields)),
        LAMBDA rest : ReadRows(rest, NodeFields)),
        LAMBDA rest : ReadRows(rest, EdgeFields)),
        LAMBDA rest : ReadRows(rest, DiagnosticFields))

\* into_partition: indices become strings, tags become kinds.
ExpandNode(row, table, language) ==
    [id |-> Lookup(table, row[1]), kind |-> Lookup(DecodedNodeKind, row[2]),
     language |-> IF row[3] = None THEN language ELSE Lookup(DecodedLanguage, row[3]),
     name |-> Lookup(table, row[4]), qualified_name |-> Lookup(table, row[5]),
     symbol_kind |-> Lookup(DecodedSymbolKind, row[6]), file_id |-> Lookup(table, row[7]),
     span |-> row[8], provenance |-> Lookup(DecodedProvenance, row[9]),
     confidence |-> Lookup(DecodedConfidence, row[10])]
ExpandEdge(row, table) ==
    [id |-> Lookup(table, row[1]), kind |-> Lookup(DecodedEdgeKind, row[2]),
     from |-> Lookup(table, row[3]), to |-> Lookup(table, row[4]), span |-> row[5],
     provenance |-> Lookup(DecodedProvenance, row[6]), confidence |-> Lookup(DecodedConfidence, row[7])]
ExpandDiagnostic(row, table) ==
    [severity |-> Lookup(DecodedSeverity, row[1]), message |-> Lookup(table, row[2]),
     file_id |-> Lookup(table, row[3]), span |-> row[4]]
ExpandWith(compact, table, header, language) ==
    [file_id |-> Lookup(table, header[1]), path |-> Lookup(table, header[2]),
     language |-> language, fingerprint |-> Lookup(table, header[4]),
     parse_time |-> header[5], extraction_time |-> header[6],
     nodes |-> [i \in DOMAIN compact[3] |-> ExpandNode(compact[3][i], table, language)],
     edges |-> [i \in DOMAIN compact[4] |-> ExpandEdge(compact[4][i], table)],
     diagnostics |-> [i \in DOMAIN compact[5] |-> ExpandDiagnostic(compact[5][i], table)]]
Expand(compact) ==
    ExpandWith(compact, [i \in DOMAIN compact[1] |-> compact[1][i][1]], compact[2],
               Lookup(DecodedLanguage, compact[2][3]))
Complete(record) == \A field \in DOMAIN record : record[field] # Invalid
Valid(p) ==
    /\ Complete(p)
    /\ \A i \in DOMAIN p.nodes : Complete(p.nodes[i])
    /\ \A i \in DOMAIN p.edges : Complete(p.edges[i])
    /\ \A i \in DOMAIN p.diagnostics : Complete(p.diagnostics[i])

\* read_partition_binary: a file that ends where a record would begin has no
\* more records, one that ends anywhere else is an error.
NoMore == [outcome |-> "end", partition |-> None, rest |-> <<>>]
Unreadable == [outcome |-> "error", partition |-> None, rest |-> <<>>]

ReadAll(compact) ==
    IF ~compact.ok THEN Unreadable
    ELSE IF ~Valid(Expand(compact.value)) THEN Unreadable
    ELSE [outcome |-> "partition", partition |-> Expand(compact.value), rest |-> compact.rest]

ReadPartition_MutTornIsEnd(bytes) ==
    IF ReadCompact(bytes).ok THEN ReadAll(ReadCompact(bytes)) ELSE NoMore

ReadPartition(bytes) == IF bytes = <<>> THEN NoMore ELSE ReadAll(ReadCompact(bytes))

\* A partition as it comes back: only what was not UTF-8 in its path differs.
Stored(p) == [p EXCEPT !.path = Lossy(p.path)]
=============================================================================
