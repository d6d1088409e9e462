----------------------------- MODULE Extraction -----------------------------
(***************************************************************************)
(* The extraction of a batch of files: the workers and parser pools of     *)
(* ParserPool, with the partitions that Adapters makes of the trees and    *)
(* lines of the files.                                                     *)
(***************************************************************************)
EXTENDS ParserPool, Adapters

CONSTANT Source  \* of each file: what the visitors and scanners see of it

\* Computed once: an adapter is a function of the source.
FromTree == [f \in {g \in Files : GrammarOf[g] # Absent} |-> TreePartition(Source[f])]
FromLines ==
    [f \in Files |-> IF GrammarOf[f] = Absent THEN ExtractJson(Source[f]) ELSE ScannerPartition(Source[f])]
-----------------------------------------------------------------------------
(* The same facts without a stack.                                         *)

Ids(p) == {p.nodes[i].id : i \in DOMAIN p.nodes}
Edges(p) == Range(p.edges)
Anchored(p) == \A e \in Edges(p) : {e.from, e.to} \subseteq Ids(p)

\* The scope a node of the tree stands in is that of its parent, or the one its
\* parent opens; None if the visitor does not come there.
EnterAlone(source, i, scope) ==
    Enter(source.grammar, source.tree, i, NewBuilder(source.file, "tree-sitter"), scope)
ModuleAlone(source) ==
    Open(NewBuilder(source.file, "tree-sitter"), [qualified_name |-> <<>>], source.stem, "module", 1)
ScopeBelow(scope, e) == IF e.descend THEN Or(e.scope, scope) ELSE None
ScopesOf(source) ==
    LET at[i \in DOMAIN source.tree] ==
            CASE i = 1 -> ModuleAlone(source).scope
              [] i > 1 /\ ~source.tree[i].named -> None
              [] i > 1 /\ source.tree[i].named ->
                    LET parent == source.tree[i].parent IN
                    IF at[parent] = None THEN None
                    ELSE ScopeBelow(at[parent], EnterAlone(source, parent, at[parent]))
    IN  at

\* What each node of the tree says of the scope it stands in, before resolution.
SaidIn(source, at) ==
    UNION {Edges(EnterAlone(source, i, at[i]).b) : i \in {j \in DOMAIN source.tree : at[j] # None}}
Said(source) == SaidIn(source, ScopesOf(source)) \cup Edges(ModuleAlone(source).b)

\* The symbols that a name may mean in the file, the first one declared first.
Meant(p, name) ==
    SelectSeq(p.nodes, LAMBDA n : n.kind = "symbol" /\ name \in {n.name, n.qualified_name})
ResolvedTo(p, e) ==
    IF e.kind \notin {"calls", "references"} \/ Meant(p, e.to[3]) = <<>> THEN e
    ELSE [e EXCEPT !.to = Meant(p, e.to[3])[1].id]

\* Lines of Python: a line belongs to the last line before it that opens a scope
\* and that no line since has been indented as little as.
Level(line) ==
    CASE line.blank -> None
      [] ~line.blank /\ line.import # None -> line.indent + 1
      [] ~line.blank /\ line.import = None /\ line.symbol # None -> line.indent
      [] OTHER -> None
Encloses(lines, j, i) ==
    /\ Level(lines[j]) # None
    /\ \A k \in j + 1 .. i : lines[k].blank \/ lines[k].indent > Level(lines[j])
Enclosing(lines, i) ==
    LET around == {j \in 1 .. i - 1 : Encloses(lines, j, i)} IN IF around = {} THEN 0 ELSE Max(around)
PythonNames(lines) ==
    LET name[i \in 0 .. Len(lines)] ==
            IF i = 0 THEN <<>>
            ELSE IF lines[i].import # None THEN lines[i].import.specifier
            ELSE IF lines[i].symbol # None THEN name[Enclosing(lines, i)] \o lines[i].symbol.name
            ELSE <<>>
    IN  name
PythonOwner(source, i) ==
    LET j == Enclosing(source.lines, i) IN
    IF j = 0 THEN FileNode(source.file)
    ELSE NodeId(source.file, IF source.lines[j].import = None THEN "symbol" ELSE "import",
                PythonNames(source.lines)[j], j)

\* Every fact taken from a tree is about the scope it stands in, every call and
\* reference leads to the first declaration of its name in the file or, without
\* one, to an external name, and no fact the tree states is missing.
TreeFactsInScope(source, p) ==
    /\ Edges(p) = {ResolvedTo(p, e) : e \in Said(source)}
    /\ (p.diagnostics # <<>>) <=> (MaxDiagnostics > 0 /\ HasError(source.tree, 1))
    /\ Len(p.diagnostics) <= MaxDiagnostics

\* Every fact the scanner takes from a line of Python belongs to the block that
\* the line is in.
PythonFactsInScope(source, p) ==
    \A e \in Edges(p) :
        /\ e.kind \in {"calls", "references"} => e.from = PythonOwner(source, e.span)
        /\ e.kind = "defines" => e.to[3] = PythonNames(source.lines)[e.span]

\* Computed once, like the partitions.
TreeInScope ==
    [f \in DOMAIN FromTree |-> Anchored(FromTree[f]) /\ TreeFactsInScope(Source[f], FromTree[f])]
LinesInScope ==
    [f \in Files |-> /\ Anchored(FromLines[f])
                     /\ GrammarOf[f] = "Python" => PythonFactsInScope(Source[f], FromLines[f])]

\* Whatever way the partition of a file was made, every edge ends in nodes of
\* the partition and belongs to the declaration it stands in (visit_node,
\* add_scope and visit_children of the adapters, their resolve_partition, the
\* scope stack of scanner_extract_python, PartitionBuilder).
FactsAreInScope ==
    \A f \in batch :
        /\ answer[f] # Absent /\ answer[f].by = "tree" => TreeInScope[answer[f].source]
        /\ answer[f] # Absent /\ answer[f].by = "scanner" => LinesInScope[answer[f].source]
=============================================================================
