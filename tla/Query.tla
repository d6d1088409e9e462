------------------------------- MODULE Query --------------------------------
(***************************************************************************)
(* "aci query": the query engine of aci-query over one loaded snapshot.    *)
(* Two of its questions are modelled, one of them is asked in a run:       *)
(*                                                                         *)
(*   symbols     lookup_symbols, and lookup of the symbol index, which keep*)
(*               one fact of each symbol while they go over all of them;   *)
(*   deps-tree   traverse_dependencies, a bounded breadth-first search.    *)
(***************************************************************************)
EXTENDS Naturals, Sequences

CONSTANTS
    Nodes,     \* node ids an edge may name
    Start,     \* the symbol deps-tree starts from
    Graphs,    \* the adjacency lists a snapshot may have: edges [to, kind] of each node
    MaxDepth,  \* bound on --depth
    Facts,     \* symbol facts, each [key, name, provenance, confidence]
    All,       \* the name of a query for all symbols
    None       \* no fact

\* Ranks of a fact: its place in the order of trust, aci-core's quality.rs.
Provenances == <<"structural-scanner", "tree-sitter", "lsp", "scip", "compiler", "manual">>
Confidences == <<"low", "medium", "high", "exact">>

ASSUME QueryAssumption ==
    /\ MaxDepth \in Nat
    /\ Start \in Nodes
    /\ Graphs \subseteq [Nodes -> Seq([to : Nodes, kind : STRING])]
    /\ \A f \in Facts :
          /\ \E i \in DOMAIN Provenances : f.provenance = Provenances[i]
          /\ \E i \in DOMAIN Confidences : f.confidence = Confidences[i]
    /\ None \notin Facts

VARIABLES
    question,  \* what is asked, with its arguments
    outgoing,  \* the snapshot's edges by node, in its order
    known,     \* ids of the nodes of the snapshot
    facts,     \* the symbol facts of the snapshot or of its index
    queue,     \* deps-tree: nodes to expand with their depth
    level,     \* deps-tree: the depth of the node being expanded
    row,       \* deps-tree: targets of its edges that are left
    seen,      \* deps-tree: nodes that were reached
    todo,      \* symbols: facts that were not looked at
    selected,  \* symbols: the fact kept for each symbol, or None
    done       \* the answer is complete

vars == <<question, outgoing, known, facts, queue, level, row, seen,
          todo, selected, done>>
search == <<queue, level, row, seen>>
snapshot == <<question, outgoing, known, facts>>

Keys == {f.key : f \in Facts}
-----------------------------------------------------------------------------
\* Which fact is kept: prefer_fact in aci-core's quality.rs.

Rank(provenance) == CHOOSE i \in DOMAIN Provenances : Provenances[i] = provenance
ConfidenceScore(confidence) == CHOOSE i \in DOMAIN Confidences : Confidences[i] = confidence

\* Mutations.  Each operator named ..._Mut... is a plausible wrong version of the
\* definition that follows it; PROJECT.json names the property it breaks.
FactScore_MutConfidenceFirst(f) == ConfidenceScore(f.confidence) * 10 + Rank(f.provenance)

FactScore(f) == Rank(f.provenance) * 10 + ConfidenceScore(f.confidence)

PreferFact(existing, candidate) == FactScore(candidate) > FactScore(existing)

-----------------------------------------------------------------------------
Init ==
    /\ \/ \E name \in {f.name : f \in Facts} \cup {All} : question = [kind |-> "symbols", name |-> name]
       \/ \E depth \in 0 .. MaxDepth : question = [kind |-> "deps-tree", depth |-> depth]
    /\ IF question.kind = "deps-tree"
       THEN outgoing \in Graphs /\ known \in {Nodes} \cup {Nodes \ {n} : n \in Nodes \ {Start}}
       ELSE outgoing = [n \in Nodes |-> <<>>] /\ known = Nodes
    /\ IF question.kind = "symbols" THEN facts \in SUBSET Facts ELSE facts = {}
    /\ queue = <<[node |-> Start, depth |-> 0]>>
    /\ level = 0 /\ row = <<>>
    /\ seen = {}
    /\ todo = facts
    /\ selected = [k \in Keys |-> None]
    /\ done = FALSE

\* lookup_symbols, and read_shard of the index: the next fact, in an order that
\* is that of the ids in one and that of the shards in the other.  The filters by
\* qualified name, file and kind are like the one by name.
ConsiderFact(f) ==
    /\ question.kind = "symbols"
    /\ f \in todo
    /\ todo' = todo \ {f}
    /\ selected' =
        IF /\ question.name \in {All, f.name}
           /\ selected[f.key] = None \/ PreferFact(selected[f.key], f)
        THEN [selected EXCEPT ![f.key] = f]
        ELSE selected
    /\ UNCHANGED <<snapshot, search, done>>

AnswerSymbols ==
    /\ question.kind = "symbols"
    /\ ~done /\ todo = {}
    /\ done' = TRUE
    /\ UNCHANGED <<snapshot, search, todo, selected>>

\* traverse_dependencies: the next node of the queue is expanded, unless it is
\* at the depth asked for.
Pop_MutLast ==
    /\ question.kind = "deps-tree"
    /\ row = <<>> /\ queue # <<>>
    /\ queue' = SubSeq(queue, 1, Len(queue) - 1)
    /\ LET entry == queue[Len(queue)]
       IN  IF entry.depth >= question.depth
           THEN UNCHANGED <<level, row>>
           ELSE level' = entry.depth /\ row' = outgoing[entry.node]
    /\ UNCHANGED <<snapshot, seen, todo, selected, done>>

Pop_MutOneDeeper ==
    /\ question.kind = "deps-tree"
    /\ row = <<>> /\ queue # <<>>
    /\ queue' = Tail(queue)
    /\ LET entry == Head(queue)
       IN  IF entry.depth > question.depth
           THEN UNCHANGED <<level, row>>
           ELSE level' = entry.depth /\ row' = outgoing[entry.node]
    /\ UNCHANGED <<snapshot, seen, todo, selected, done>>

Pop ==
    /\ question.kind = "deps-tree"
    /\ row = <<>> /\ queue # <<>>
    /\ queue' = Tail(queue)
    /\ LET entry == Head(queue)
       IN  IF entry.depth >= question.depth
           THEN UNCHANGED <<level, row>>
           ELSE level' = entry.depth /\ row' = outgoing[entry.node]
    /\ UNCHANGED <<snapshot, seen, todo, selected, done>>

\* The target of its next dependency joins the queue, one step deeper, if it was
\* not seen before.  edges_from leaves edges of other kinds out.
Visit_MutAnyKind ==
    /\ question.kind = "deps-tree"
    /\ row # <<>>
    /\ row' = Tail(row)
    /\ LET edge == Head(row)
       IN  IF edge.to \notin seen
           THEN /\ seen' = seen \cup {edge.to}
                /\ queue' = Append(queue, [node |-> edge.to, depth |-> level + 1])
           ELSE UNCHANGED <<seen, queue>>
    /\ UNCHANGED <<snapshot, level, todo, selected, done>>

Visit ==
    /\ question.kind = "deps-tree"
    /\ row # <<>>
    /\ row' = Tail(row)
    /\ LET edge == Head(row)
       IN  IF edge.kind = "depends-on" /\ edge.to \notin seen
           THEN /\ seen' = seen \cup {edge.to}
                /\ queue' = Append(queue, [node |-> edge.to, depth |-> level + 1])
           ELSE UNCHANGED <<seen, queue>>
    /\ UNCHANGED <<snapshot, level, todo, selected, done>>

AnswerDependencies ==
    /\ question.kind = "deps-tree"
    /\ ~done /\ row = <<>> /\ queue = <<>>
    /\ done' = TRUE
    /\ UNCHANGED <<snapshot, search, todo, selected>>

Next ==
    \/ \E f \in Facts : ConsiderFact(f)
    \/ AnswerSymbols
    \/ Pop
    \/ Visit
    \/ AnswerDependencies

Spec == Init /\ [][Next]_vars
-----------------------------------------------------------------------------
Depends(from, to) ==
    \E i \in DOMAIN outgoing[from] : outgoing[from][i] = [to |-> to, kind |-> "depends-on"]

\* The walks of n dependencies from the start.
Walks(n) ==
    {w \in [0 .. n -> Nodes] : w[0] = Start /\ \A i \in 0 .. (n - 1) : Depends(w[i], w[i + 1])}

\* The variables have their types; the queue holds nodes that were seen, or the
\* start, no deeper than asked for, and the edges of a node are followed only
\* when its depth leaves a step.
TypeOK ==
    /\ outgoing \in [Nodes -> Seq([to : Nodes, kind : STRING])]
    /\ known \subseteq Nodes
    /\ facts \subseteq Facts /\ todo \subseteq facts
    /\ seen \subseteq Nodes
    /\ queue \in Seq([node : Nodes, depth : 0 .. MaxDepth])
    /\ \A i \in DOMAIN queue : queue[i].node \in seen \cup {Start}
    /\ row \in Seq([to : Nodes, kind : STRING])
    /\ level \in 0 .. MaxDepth
    /\ row # <<>> => level < MaxDepth
    /\ selected \in [Keys -> Facts \cup {None}]
    /\ done \in BOOLEAN

\* The answer of traverse_dependencies.
DependenciesAnswer == seen \cap known

\* traverse_dependencies answers no node that is further away than asked for.
TraversalIsSound ==
    \A n \in seen : \E k \in 1 .. MaxDepth :
        k <= question.depth /\ \E w \in Walks(k) : w[k] = n

\* It answers every node of the snapshot that is near enough, also one that was
\* reached a longer way before, or through nodes the snapshot has no record of.
TraversalIsComplete ==
    done /\ question.kind = "deps-tree" =>
        \A k \in 1 .. MaxDepth : k <= question.depth =>
            \A w \in Walks(k) : w[k] \in known => w[k] \in DependenciesAnswer

\* Of the facts about one symbol the answer keeps one of the best, by provenance
\* and then by confidence, in whatever order they come: the symbol index and the
\* graph give facts of the same quality for the same symbols.
BestFactIsKept ==
    done /\ question.kind = "symbols" =>
        \A k \in Keys :
            LET found == {f \in facts : f.key = k /\ question.name \in {All, f.name}}
            IN  IF found = {} THEN selected[k] = None
                ELSE /\ selected[k] \in found
                     /\ \A f \in found :
                          \/ Rank(f.provenance) < Rank(selected[k].provenance)
                          \/ /\ f.provenance = selected[k].provenance
                             /\ ConfidenceScore(f.confidence) <= ConfidenceScore(selected[k].confidence)
=============================================================================
