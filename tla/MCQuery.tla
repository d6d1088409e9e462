------------------------------ MODULE MCQuery -------------------------------
(***************************************************************************)
(* Instances of Query for TLC.  From s a short arm and a long arm lead to  *)
(* x, behind which lies y; c leads back to s, and y is called, not         *)
(* depended on, by s.  A snapshot has any of these edges.                  *)
(***************************************************************************)
EXTENDS Query, SequencesExt

MCNodes == {"s", "a", "b", "c", "x", "y"}

Edge(from, to, kind) == [from |-> from, to |-> to, kind |-> kind]
Everything ==
    {Edge("s", "a", "depends-on"), Edge("s", "b", "depends-on"), Edge("s", "y", "calls"),
     Edge("a", "x", "depends-on"), Edge("b", "c", "depends-on"), Edge("c", "x", "depends-on"),
     Edge("c", "s", "depends-on"), Edge("x", "y", "depends-on")}

\* The adjacency lists of a set of edges; the order within a list is any.
Adjacency(edges) ==
    [n \in MCNodes |->
        SetToSeq({[to |-> e.to, kind |-> e.kind] : e \in {d \in edges : d.from = n}})]
MCGraphs == {Adjacency(edges) : edges \in SUBSET Everything}

Fact(key, name, provenance, confidence) ==
    [key |-> key, name |-> name, provenance |-> provenance, confidence |-> confidence]
MCFacts ==
    {Fact("A.run", "run", "structural-scanner", "exact"), Fact("A.run", "run", "tree-sitter", "high"),
     Fact("A.run", "run", "scip", "low"), Fact("A.run", "run", "scip", "high"),
     Fact("B.run", "run", "tree-sitter", "high"), Fact("go", "go", "lsp", "medium"),
     Fact("go", "go", "tree-sitter", "exact")}
=============================================================================
