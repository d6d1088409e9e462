---------------------------- MODULE QueryProofs -----------------------------
(***************************************************************************)
(* Theorems about Query: its types, that a traversal answers nothing out   *)
(* of reach and everything within, and that a symbol lookup keeps a best   *)
(* fact of every symbol.                                                   *)
(***************************************************************************)
EXTENDS Query, FiniteSetTheorems, TLAPS

Reached(n, k) == \E w \in Walks(k) : w[k] = n

Edges == [to : Nodes, kind : STRING]
Entries == [node : Nodes, depth : 0 .. MaxDepth]

QuestionOK == question.kind = "deps-tree" => question.depth \in 0 .. MaxDepth

TypeInv == TypeOK /\ QuestionOK

\* Every entry of the queue was reached by a walk as long as its depth, and the
\* edges in hand belong to a node that was reached and may be expanded.
SearchInv ==
    /\ question.kind # "deps-tree" => seen = {} /\ row = <<>>
    /\ \A i \in DOMAIN queue : Reached(queue[i].node, queue[i].depth)
    /\ row # <<>> =>
        /\ level < question.depth
        /\ \E n \in Nodes :
            /\ Reached(n, level)
            /\ \A i \in DOMAIN row : \E j \in DOMAIN outgoing[n] : row[i] = outgoing[n][j]
    /\ TraversalIsSound

\* Breadth first: the queue is sorted by depth, and no entry of it is more than
\* one step deeper than the node being expanded.
Ordered ==
    /\ \A i, j \in DOMAIN queue : i < j => queue[i].depth <= queue[j].depth
    /\ \A i \in DOMAIN queue : level <= queue[i].depth /\ queue[i].depth <= level + 1

InQueue(e) == \E i \in DOMAIN queue : queue[i] = e
InRow(t) == \E i \in DOMAIN row : row[i] = [to |-> t, kind |-> "depends-on"]

\* E is what was queued up to now.  An entry that left the queue above the depth
\* asked for has each of its dependencies seen and queued one step deeper at most,
\* or still in the list in hand.
Covered(E) ==
    /\ [node |-> Start, depth |-> 0] \in E
    /\ \A t \in seen : \E f \in E : f.node = t /\ f.depth <= level + 1
    /\ \A e \in E :
        \/ InQueue(e)
        \/ e.depth >= question.depth
        \/ \A t \in Nodes : Depends(e.node, t) =>
            \/ t \in seen /\ \E f \in E : f.node = t /\ f.depth <= e.depth + 1
            \/ e.depth = level /\ InRow(t)

\* What the queue has held is in no variable of the program: some such set exists.
BreadthFirstInv ==
    question.kind = "deps-tree" =>
        /\ Ordered
        /\ \E E \in SUBSET [node : Nodes, depth : Nat] : Covered(E)
        /\ done => queue = <<>> /\ row = <<>>

Asked(f) == question.name \in {All, f.name}

\* Of the facts that were looked at, the one kept for a symbol is one of its own
\* and none scores higher.
Kept(k) ==
    /\ selected[k] # None =>
        selected[k] \in facts \ todo /\ selected[k].key = k /\ Asked(selected[k])
    /\ \A f \in facts \ todo :
        f.key = k /\ Asked(f) => selected[k] # None /\ FactScore(f) <= FactScore(selected[k])

FactInv ==
    /\ \A k \in Keys : Kept(k)
    /\ done /\ question.kind = "symbols" => todo = {}
-----------------------------------------------------------------------------
(* Facts about the ranks: prefer_fact compares provenances first.          *)

\* rank is one of 1 to 6 and tells provenances apart; so does the score of a
\* confidence with 1 to 4.
LEMMA RankProperties ==
    ASSUME NEW f \in Facts
    PROVE  /\ Rank(f.provenance) \in 1 .. 6 /\ Provenances[Rank(f.provenance)] = f.provenance
           /\ ConfidenceScore(f.confidence) \in 1 .. 4
<1>1. PICK i \in DOMAIN Provenances : Provenances[i] = f.provenance
    BY QueryAssumption
<1>2. PICK j \in DOMAIN Confidences : Confidences[j] = f.confidence
    BY QueryAssumption
<1>3. Rank(f.provenance) \in DOMAIN Provenances /\ Provenances[Rank(f.provenance)] = f.provenance
    BY <1>1 DEF Rank
<1>4. ConfidenceScore(f.confidence) \in DOMAIN Confidences
    BY <1>2 DEF ConfidenceScore
<1>5. DOMAIN Provenances = 1 .. 6 /\ DOMAIN Confidences = 1 .. 4
    BY DEF Provenances, Confidences
<1> QED BY <1>3, <1>4, <1>5

\* FactScore is a number.
LEMMA ScoreType == \A f \in Facts : FactScore(f) \in Nat
BY RankProperties, SMT DEF FactScore

\* A score that is no higher means a lesser provenance, or the same provenance
\* and no more confidence: ten times the rank outweighs every confidence.
LEMMA ScoreOrder ==
    ASSUME NEW f \in Facts, NEW g \in Facts, FactScore(f) <= FactScore(g)
    PROVE  \/ Rank(f.provenance) < Rank(g.provenance)
           \/ f.provenance = g.provenance /\ ConfidenceScore(f.confidence) <= ConfidenceScore(g.confidence)
<1>1. /\ Rank(f.provenance) \in 1 .. 6 /\ Rank(g.provenance) \in 1 .. 6
      /\ ConfidenceScore(f.confidence) \in 1 .. 4 /\ ConfidenceScore(g.confidence) \in 1 .. 4
    BY RankProperties
<1>2. \/ Rank(f.provenance) < Rank(g.provenance)
      \/ /\ Rank(f.provenance) = Rank(g.provenance)
         /\ ConfidenceScore(f.confidence) <= ConfidenceScore(g.confidence)
    BY <1>1 DEF FactScore
<1>3. Rank(f.provenance) = Rank(g.provenance) => f.provenance = g.provenance
    BY RankProperties
<1> QED BY <1>2, <1>3
-----------------------------------------------------------------------------
(* Facts about the queue and the list in hand.                             *)

\* What the first element and the rest of a sequence are.
LEMMA HeadTail ==
    ASSUME NEW S, NEW s \in Seq(S), s # <<>>
    PROVE  /\ Head(s) = s[1] /\ 1 \in DOMAIN s /\ Head(s) \in S /\ Tail(s) \in Seq(S)
           /\ \A i \in DOMAIN Tail(s) : i + 1 \in DOMAIN s /\ Tail(s)[i] = s[i + 1]
OBVIOUS

\* What the elements of a sequence are after one more joined it.
LEMMA Appended ==
    ASSUME NEW S, NEW s \in Seq(S), NEW e \in S
    PROVE  /\ Append(s, e) \in Seq(S)
           /\ \A i \in DOMAIN Append(s, e) : (i \in DOMAIN s /\ Append(s, e)[i] = s[i]) \/ Append(s, e)[i] = e
OBVIOUS
-----------------------------------------------------------------------------
(* Types.                                                                  *)

\* The first state is of the declared types.
LEMMA TypeInit == Init => TypeInv
<1> SUFFICES ASSUME Init PROVE TypeInv
    OBVIOUS
<1>1. QuestionOK
    BY DEF Init, QuestionOK
<1>2. outgoing \in [Nodes -> Seq(Edges)]
    <2>1. outgoing \in Graphs \/ outgoing = [n \in Nodes |-> <<>>]
        BY DEF Init
    <2>2. CASE outgoing \in Graphs
        BY <2>2, QueryAssumption DEF Edges
    <2>3. CASE outgoing = [n \in Nodes |-> <<>>]
        BY <2>3
    <2> QED BY <2>1, <2>2, <2>3
<1>3. queue = <<[node |-> Start, depth |-> 0]>> /\ row = <<>> /\ level = 0 /\ seen = {}
    BY DEF Init
<1>4. queue \in Seq(Entries) /\ \A i \in DOMAIN queue : queue[i].node = Start
    BY <1>3, QueryAssumption DEF Entries
<1>5. known \subseteq Nodes
    BY DEF Init
<1>6. facts \subseteq Facts /\ todo \subseteq facts
    BY DEF Init
<1>7. selected \in [Keys -> Facts \cup {None}] /\ done \in BOOLEAN
    BY DEF Init
<1>8. row \in Seq(Edges) /\ level \in 0 .. MaxDepth
    BY <1>3, QueryAssumption
<1> QED BY <1>1, <1>2, <1>3, <1>4, <1>5, <1>6, <1>7, <1>8 DEF TypeInv, TypeOK, Edges, Entries

\* A step keeps the types.
LEMMA TypeStep == TypeInv /\ [Next]_vars => TypeInv'
<1> SUFFICES ASSUME TypeInv, [Next]_vars PROVE TypeInv'
    OBVIOUS
<1>0. MaxDepth \in Nat /\ Start \in Nodes
    BY QueryAssumption
<1> USE <1>0 DEF TypeInv, TypeOK, QuestionOK, snapshot, search
<1>1. ASSUME NEW f \in Facts, ConsiderFact(f) PROVE TypeInv'
    <2>1. todo' \subseteq facts'
        BY <1>1 DEF ConsiderFact
    <2>2. selected' \in [Keys -> Facts \cup {None}]
        BY <1>1 DEF ConsiderFact, Keys
    <2> QED BY <1>1, <2>1, <2>2 DEF ConsiderFact
<1>2. CASE AnswerSymbols
    BY <1>2 DEF AnswerSymbols
<1>3. CASE Pop
    <2>1. queue' \in Seq(Entries) /\ Head(queue) \in Entries
        BY <1>3, HeadTail DEF Pop, Entries
    <2>2. \A i \in DOMAIN queue' : queue'[i].node \in seen' \cup {Start}
        BY <1>3, HeadTail DEF Pop
    <2>3. row' \in Seq(Edges) /\ level' \in 0 .. MaxDepth /\ (row' # <<>> => level' < MaxDepth)
        <3>1. CASE row' = row /\ level' = level
            BY <3>1 DEF Edges
        <3>2. CASE /\ level' = Head(queue).depth /\ row' = outgoing[Head(queue).node]
                   /\ Head(queue).depth < question.depth /\ question.kind = "deps-tree"
            <4>1. Head(queue).node \in Nodes /\ Head(queue).depth \in 0 .. MaxDepth
                BY <2>1 DEF Entries
            <4>2. row' \in Seq(Edges)
                BY <3>2, <4>1 DEF Edges
            <4>3. Head(queue).depth < MaxDepth
                BY <3>2, <4>1
            <4> QED BY <3>2, <4>1, <4>2, <4>3
        <3> QED BY <1>3, <2>1, <3>1, <3>2 DEF Pop, Entries
    <2> QED BY <1>3, <2>1, <2>2, <2>3 DEF Pop, Edges, Entries
<1>4. CASE Visit
    <2>1. Head(row) \in Edges /\ row' \in Seq(Edges)
        BY <1>4, HeadTail DEF Visit, Edges
    <2>2. level < MaxDepth
        BY <1>4 DEF Visit
    <2>3. CASE seen' = seen /\ queue' = queue
        BY <1>4, <2>1, <2>2, <2>3 DEF Visit, Edges
    <2>4. CASE /\ seen' = seen \cup {Head(row).to}
               /\ queue' = Append(queue, [node |-> Head(row).to, depth |-> level + 1])
        <3> DEFINE e == [node |-> Head(row).to, depth |-> level + 1]
        <3>1. e \in Entries
            BY <2>1, <2>2 DEF Edges, Entries
        <3>2. queue' \in Seq(Entries)
            BY <2>4, <3>1, Appended DEF Entries
        <3>3. \A i \in DOMAIN queue' : queue'[i].node \in seen' \cup {Start}
            <4>1. queue \in Seq(Entries)
                BY DEF Entries
            <4>2. queue' = Append(queue, e) /\ e.node \in seen' /\ seen \subseteq seen'
                BY <2>4
            <4> HIDE DEF e
            <4>3. \A i \in DOMAIN queue' : (i \in DOMAIN queue /\ queue'[i] = queue[i]) \/ queue'[i] = e
                BY <3>1, <4>1, <4>2, Appended
            <4> QED BY <4>2, <4>3
        <3>4. seen' \subseteq Nodes
            BY <2>4, <2>1 DEF Edges
        <3> QED BY <1>4, <2>1, <2>2, <3>2, <3>3, <3>4 DEF Visit, Edges, Entries
    <2> QED BY <1>4, <2>3, <2>4 DEF Visit
<1>5. CASE AnswerDependencies
    BY <1>5 DEF AnswerDependencies
<1>6. CASE UNCHANGED vars
    BY <1>6 DEF vars, Depends
<1> QED BY <1>1, <1>2, <1>3, <1>4, <1>5, <1>6 DEF Next

\* The variables of a query keep their types and the queue its depth.
THEOREM TypeCorrect == Spec => []TypeOK
<1>1. TypeInv => TypeOK
    BY DEF TypeInv
<1> QED BY TypeInit, TypeStep, <1>1, PTL DEF Spec
-----------------------------------------------------------------------------
(* The traversal.                                                          *)

\* One more dependency makes a walk one longer.
LEMMA WalkExtends ==
    ASSUME TypeOK, NEW k \in Nat, NEW n \in Nodes, Reached(n, k), NEW t \in Nodes, Depends(n, t)
    PROVE  Reached(t, k + 1)
<1>1. PICK w \in Walks(k) : w[k] = n
    BY DEF Reached
<1>2. /\ w \in [0 .. k -> Nodes] /\ w[0] = Start
      /\ \A i \in 0 .. (k - 1) : Depends(w[i], w[i + 1])
    BY <1>1 DEF Walks
<1> DEFINE v == [i \in 0 .. (k + 1) |-> IF i = k + 1 THEN t ELSE w[i]]
<1>3. v \in [0 .. (k + 1) -> Nodes] /\ v[0] = Start /\ v[k + 1] = t
    BY <1>2
<1>4. ASSUME NEW i \in 0 .. k PROVE Depends(v[i], v[i + 1])
    <2>1. CASE i = k
        <3>1. v[i] = n /\ v[i + 1] = t
            BY <2>1, <1>1
        <3> QED BY <3>1
    <2>2. CASE i # k
        <3>1. i \in 0 .. (k - 1) /\ v[i] = w[i] /\ v[i + 1] = w[i + 1]
            BY <2>2
        <3> QED BY <3>1, <1>2
    <2> QED BY <2>1, <2>2
<1>5. v \in Walks(k + 1)
    <2>1. (k + 1) - 1 = k
        OBVIOUS
    <2> HIDE DEF v
    <2> QED BY <1>3, <1>4, <2>1 DEF Walks
<1> HIDE DEF v
<1> QED BY <1>3, <1>5 DEF Reached

\* The walk of no step reaches the start.
LEMMA StartReached == Reached(Start, 0)
<1> DEFINE w == [i \in 0 .. 0 |-> Start]
<1>1. w \in [0 .. 0 -> Nodes] /\ w[0] = Start
    BY QueryAssumption
<1>2. 0 .. (0 - 1) = {}
    OBVIOUS
<1> HIDE DEF w
<1>3. w \in Walks(0)
    BY <1>1, <1>2 DEF Walks
<1> QED BY <1>1, <1>3 DEF Reached

\* The search invariant holds before the first step.
LEMMA SearchInit == Init => SearchInv
<1> SUFFICES ASSUME Init PROVE SearchInv
    OBVIOUS
<1>1. queue = <<[node |-> Start, depth |-> 0]>> /\ row = <<>> /\ seen = {}
    BY DEF Init
<1>2. \A i \in DOMAIN queue : Reached(queue[i].node, queue[i].depth)
    BY <1>1, StartReached
<1> QED BY <1>1, <1>2 DEF SearchInv, TraversalIsSound

\* Walks are the same after a step that keeps the snapshot.
LEMMA SameWalks ==
    ASSUME UNCHANGED snapshot
    PROVE  /\ \A n, k : Reached(n, k)' <=> Reached(n, k)
           /\ \A k : Walks(k)' = Walks(k)
BY DEF snapshot, Reached, Walks, Depends

\* What the traversal has in hand by the queue and the list was reached, and a
\* node it takes up is no deeper than asked for.
LEMMA SearchStep == TypeInv /\ SearchInv /\ [Next]_vars => SearchInv'
<1> SUFFICES ASSUME TypeInv, SearchInv, [Next]_vars PROVE SearchInv'
    OBVIOUS
<1>0. /\ MaxDepth \in Nat /\ queue \in Seq(Entries) /\ row \in Seq(Edges)
      /\ level \in 0 .. MaxDepth /\ outgoing \in [Nodes -> Seq(Edges)] /\ QuestionOK
    BY QueryAssumption DEF TypeInv, TypeOK, Entries, Edges
<1>1. ASSUME UNCHANGED <<snapshot, search>> PROVE SearchInv'
    <2>1. /\ question' = question /\ outgoing' = outgoing
          /\ queue' = queue /\ level' = level /\ row' = row /\ seen' = seen
        BY <1>1 DEF snapshot, search
    <2>2. UNCHANGED snapshot
        BY <1>1
    <2> QED BY <2>1, <2>2, SameWalks DEF SearchInv, TraversalIsSound
<1>2. CASE Pop
    <2>1. /\ UNCHANGED snapshot /\ seen' = seen /\ question.kind = "deps-tree" /\ queue # <<>>
          /\ queue' = Tail(queue) /\ row = <<>> /\ question' = question /\ outgoing' = outgoing
        BY <1>2 DEF Pop, snapshot
    <2>2. /\ 1 \in DOMAIN queue /\ Head(queue) = queue[1] /\ Head(queue) \in Entries
          /\ \A i \in DOMAIN queue' : i + 1 \in DOMAIN queue /\ queue'[i] = queue[i + 1]
        BY <1>0, <2>1, HeadTail
    <2>3. \A i \in DOMAIN queue' : Reached(queue'[i].node, queue'[i].depth)
        BY <2>2 DEF SearchInv
    <2>4. Reached(Head(queue).node, Head(queue).depth) /\ Head(queue).node \in Nodes
        BY <2>2 DEF SearchInv, Entries
    <2>5. \/ row' = row
          \/ /\ level' = Head(queue).depth /\ row' = outgoing[Head(queue).node]
             /\ level' < question.depth
        <3>1. Head(queue).depth \in Nat /\ question.depth \in Nat
            BY <1>0, <2>1, <2>2 DEF Entries, QuestionOK
        <3> QED BY <1>2, <3>1 DEF Pop
    <2>6. row' # <<>> =>
            /\ level' < question'.depth
            /\ \E n \in Nodes :
                /\ Reached(n, level')
                /\ \A i \in DOMAIN row' : \E j \in DOMAIN outgoing'[n] : row'[i] = outgoing'[n][j]
        BY <2>1, <2>4, <2>5
    <2>7. TraversalIsSound'
        BY <2>1, SameWalks DEF SearchInv, TraversalIsSound
    <2> QED BY <2>1, <2>3, <2>6, <2>7, SameWalks DEF SearchInv
<1>3. CASE Visit
    <2>1. /\ UNCHANGED snapshot /\ question.kind = "deps-tree" /\ row # <<>> /\ level' = level
          /\ row' = Tail(row) /\ question' = question /\ outgoing' = outgoing
        BY <1>3 DEF Visit, snapshot
    <2>2. /\ 1 \in DOMAIN row /\ Head(row) = row[1] /\ Head(row) \in Edges
          /\ \A i \in DOMAIN row' : i + 1 \in DOMAIN row /\ row'[i] = row[i + 1]
        BY <1>0, <2>1, HeadTail
    <2>3. PICK n \in Nodes :
            /\ Reached(n, level) /\ level < question.depth
            /\ \A i \in DOMAIN row : \E j \in DOMAIN outgoing[n] : row[i] = outgoing[n][j]
        BY <2>1 DEF SearchInv
    <2>4. \A i \in DOMAIN row' : \E j \in DOMAIN outgoing[n] : row'[i] = outgoing[n][j]
        BY <2>2, <2>3
    <2>5. /\ row' # <<>> =>
            /\ level' < question'.depth
            /\ \E m \in Nodes :
                /\ Reached(m, level')
                /\ \A i \in DOMAIN row' : \E j \in DOMAIN outgoing'[m] : row'[i] = outgoing'[m][j]
        BY <2>1, <2>3, <2>4
    <2>6. CASE seen' = seen /\ queue' = queue
        <3>1. TraversalIsSound'
            BY <2>1, <2>6, SameWalks DEF SearchInv, TraversalIsSound
        <3> QED BY <2>1, <2>5, <2>6, <3>1, SameWalks DEF SearchInv
    <2>7. CASE /\ Head(row).kind = "depends-on" /\ seen' = seen \cup {Head(row).to}
               /\ queue' = Append(queue, [node |-> Head(row).to, depth |-> level + 1])
        <3>1. Head(row).to \in Nodes /\ Head(row) = [to |-> Head(row).to, kind |-> "depends-on"]
            BY <2>2, <2>7 DEF Edges
        <3>2. Depends(n, Head(row).to)
            BY <2>2, <2>3, <3>1 DEF Depends
        <3>3. Reached(Head(row).to, level + 1)
            BY <1>0, <2>3, <3>1, <3>2, WalkExtends DEF TypeInv
        <3>4. level + 1 \in 1 .. MaxDepth /\ level + 1 <= question.depth
            BY <1>0, <2>1, <2>3 DEF QuestionOK
        <3>5. TraversalIsSound'
            <4> SUFFICES ASSUME NEW m \in seen'
                         PROVE  \E k \in 1 .. MaxDepth :
                                    k <= question'.depth /\ \E w \in Walks(k)' : w[k] = m
                BY DEF TraversalIsSound
            <4>1. CASE m \in seen
                BY <2>1, <4>1, SameWalks DEF SearchInv, TraversalIsSound
            <4>2. CASE m = Head(row).to
                BY <2>1, <3>3, <3>4, <4>2, SameWalks DEF Reached
            <4> QED BY <2>7, <4>1, <4>2
        <3> DEFINE e == [node |-> Head(row).to, depth |-> level + 1]
        <3>6. e \in Entries /\ Reached(e.node, e.depth) /\ queue' = Append(queue, e)
            BY <2>7, <3>1, <3>3, <3>4 DEF Entries
        <3> HIDE DEF e
        <3>7. \A i \in DOMAIN queue' : (i \in DOMAIN queue /\ queue'[i] = queue[i]) \/ queue'[i] = e
            BY <1>0, <3>6, Appended
        <3>8. \A i \in DOMAIN queue' : Reached(queue'[i].node, queue'[i].depth)
            BY <3>6, <3>7 DEF SearchInv
        <3> QED BY <2>1, <2>5, <3>5, <3>8, SameWalks DEF SearchInv
    <2> QED BY <1>3, <2>6, <2>7 DEF Visit
<1> QED BY <1>1, <1>2, <1>3 DEF Next, ConsiderFact, AnswerSymbols, AnswerDependencies, vars, search, snapshot

\* A traversal answers only nodes that a walk of dependencies reaches from the
\* start in no more steps than --depth allows, on every graph.
THEOREM TraversalIsSoundCorrect == Spec => []TraversalIsSound
<1>1. SearchInv => TraversalIsSound
    BY DEF SearchInv
<1> QED BY TypeInit, TypeStep, SearchInit, SearchStep, <1>1, PTL DEF Spec

\* A set of natural numbers that is not empty has a least one.  The induction
\* theorems of the library take a predicate; this one comes from the well-founded
\* order of the finite sets.
LEMMA LeastNat ==
    ASSUME NEW T, T \subseteq Nat, T # {}
    PROVE  \E n \in T : \A m \in T : n <= m
<1> DEFINE Upto == {0 .. n : n \in T}
<1>1. Upto # {} /\ Upto \subseteq FiniteSubsetsOf(Nat)
    <2>1. \A n \in T : IsFiniteSet(0 .. n) /\ 0 .. n \subseteq Nat
        BY FS_Interval
    <2> QED BY <2>1 DEF FiniteSubsetsOf
<1>2. IsWellFoundedOn(StrictSubsetOrdering(Nat), FiniteSubsetsOf(Nat))
    BY FS_StrictSubsetOrderingWellFounded
<1>3. \E X \in Upto : \A Y \in Upto : <<Y, X>> \notin StrictSubsetOrdering(Nat)
    <2> HIDE DEF Upto
    <2> QED BY <1>1, <1>2, WFMin
<1>4. PICK n \in T : \A m \in T : <<0 .. m, 0 .. n>> \notin StrictSubsetOrdering(Nat)
    BY <1>3
<1>5. ASSUME NEW m \in T, m < n PROVE FALSE
    <2>1. 0 .. m \in SUBSET Nat /\ 0 .. n \in SUBSET Nat
        OBVIOUS
    <2>2. 0 .. m \subseteq 0 .. n /\ 0 .. m # 0 .. n
        BY <1>5
    <2>3. <<0 .. m, 0 .. n>> \in StrictSubsetOrdering(Nat)
        BY <2>1, <2>2 DEF StrictSubsetOrdering
    <2> QED BY <2>3, <1>4
<1> QED BY <1>5

\* The search starts with the one entry of the start in an ordered queue.
LEMMA BreadthFirstInit == Init => BreadthFirstInv
<1> SUFFICES ASSUME Init PROVE BreadthFirstInv
    OBVIOUS
<1> DEFINE first == [node |-> Start, depth |-> 0]
<1>1. /\ queue = <<first>> /\ level = 0 /\ seen = {} /\ done = FALSE
      /\ first \in [node : Nodes, depth : Nat] /\ first.depth = 0
    BY QueryAssumption DEF Init
<1> HIDE DEF first
<1>2. DOMAIN queue = {1} /\ queue[1] = first
    BY <1>1
<1>3. Ordered
    BY <1>1, <1>2 DEF Ordered
<1>4. Covered({first})
    BY <1>1, <1>2 DEF Covered, InQueue, first
<1> QED BY <1>1, <1>3, <1>4 DEF BreadthFirstInv

\* Expanding the next node, if it is not too deep, puts its dependencies in hand.
LEMMA PopIsBreadthFirst == TypeInv /\ BreadthFirstInv /\ Pop => BreadthFirstInv'
<1> SUFFICES ASSUME TypeInv, BreadthFirstInv, Pop PROVE BreadthFirstInv'
    OBVIOUS
<1> DEFINE entry == Head(queue)
<1>1. /\ queue \in Seq(Entries) /\ queue # <<>> /\ row = <<>> /\ level \in Nat
      /\ outgoing \in [Nodes -> Seq(Edges)]
      /\ question.kind = "deps-tree" /\ question.depth \in Nat
      /\ UNCHANGED <<question, outgoing, seen, done>> /\ queue' = Tail(queue)
    <2>1. MaxDepth \in Nat
        BY QueryAssumption
    <2>2. queue \in Seq(Entries) /\ outgoing \in [Nodes -> Seq(Edges)]
        BY DEF TypeInv, TypeOK, Entries, Edges
    <2>t. level \in Nat
        BY <2>1 DEF TypeInv, TypeOK
    <2>3. question.kind = "deps-tree" => question.depth \in Nat
        BY <2>1 DEF TypeInv, QuestionOK
    <2> QED BY <2>2, <2>t, <2>3 DEF Pop, snapshot
<1>2. /\ entry = queue[1] /\ 1 \in DOMAIN queue
      /\ entry.node \in Nodes /\ entry.depth \in Nat
      /\ \A i \in DOMAIN queue : queue[i].depth \in Nat
    <2>1. \A e \in Entries : e.node \in Nodes /\ e.depth \in Nat
        BY QueryAssumption DEF Entries
    <2>2. \A i \in DOMAIN queue : queue[i] \in Entries
        BY <1>1
    <2> QED BY <1>1, <2>1, <2>2, HeadTail
<1>3. /\ \A i \in DOMAIN queue' : i \in Nat /\ i + 1 \in DOMAIN queue /\ queue'[i] = queue[i + 1] /\ 1 < i + 1
      /\ \A i \in DOMAIN queue : i = 1 \/ (i - 1 \in DOMAIN queue' /\ queue'[i - 1] = queue[i])
    BY <1>1
<1>4. \/ entry.depth >= question.depth /\ level' = level /\ row' = row
      \/ level' = entry.depth /\ row' = outgoing[entry.node]
    BY DEF Pop
<1>5. Ordered /\ ~done
    BY <1>1 DEF BreadthFirstInv
<1>6. level <= level' /\ level' \in Nat /\ level' <= level + 1
    BY <1>1, <1>2, <1>4, <1>5 DEF Ordered
<1>7. Ordered'
    <2>1. \A i, j \in DOMAIN queue' : i < j => queue'[i].depth <= queue'[j].depth
        BY <1>3, <1>5 DEF Ordered
    <2>2. ASSUME NEW i \in DOMAIN queue'
          PROVE  level' <= queue'[i].depth /\ queue'[i].depth <= level' + 1
        <3>1. queue'[i] = queue[i + 1] /\ i + 1 \in DOMAIN queue /\ 1 < i + 1
            BY <1>3
        <3>2. /\ entry.depth <= queue[i + 1].depth
              /\ level <= queue[i + 1].depth /\ queue[i + 1].depth <= level + 1
              /\ queue[i + 1].depth \in Nat
            BY <1>2, <1>5, <3>1 DEF Ordered
        <3> QED BY <1>1, <1>2, <1>4, <1>6, <3>1, <3>2
    <2> QED BY <2>1, <2>2 DEF Ordered
<1>8. PICK E \in SUBSET [node : Nodes, depth : Nat] : Covered(E)
    BY <1>1 DEF BreadthFirstInv
<1>9. Covered(E)'
    <2>1. \A t \in seen : \E f \in E : f.node = t /\ f.depth <= level' + 1
        <3> SUFFICES ASSUME NEW t \in seen PROVE \E f \in E : f.node = t /\ f.depth <= level' + 1
            OBVIOUS
        <3>1. PICK f \in E : f.node = t /\ f.depth <= level + 1
            BY <1>8 DEF Covered
        <3> QED BY <1>1, <1>6, <3>1
    <2>2. ASSUME NEW e \in E
          PROVE  \/ InQueue(e)'
                 \/ e.depth >= question.depth
                 \/ \A t \in Nodes : Depends(e.node, t) =>
                        \/ t \in seen /\ \E f \in E : f.node = t /\ f.depth <= e.depth + 1
                        \/ e.depth = level' /\ InRow(t)'
        <3>1. CASE e = entry
            <4>1. ASSUME NEW t \in Nodes, Depends(e.node, t), row' = outgoing[entry.node]
                  PROVE  InRow(t)'
                BY <3>1, <4>1 DEF Depends, InRow
            <4> QED BY <1>4, <3>1, <4>1
        <3>2. CASE InQueue(e) /\ e # entry
            <4>1. PICK i \in DOMAIN queue : queue[i] = e
                BY <3>2 DEF InQueue
            <4>2. i - 1 \in DOMAIN queue' /\ queue'[i - 1] = e
                BY <1>2, <1>3, <3>2, <4>1
            <4> QED BY <4>2 DEF InQueue
        <3>3. CASE ~InQueue(e) /\ ~(e.depth >= question.depth)
            <4>1. \A t \in Nodes : ~InRow(t)
                BY <1>1 DEF InRow
            <4> QED BY <1>8, <3>3, <4>1 DEF Covered
        <3> QED BY <3>1, <3>2, <3>3
    <2>3. \A n, t : Depends(n, t)' <=> Depends(n, t)
        BY <1>1 DEF Depends
    <2> QED BY <1>1, <1>8, <2>1, <2>2, <2>3 DEF Covered
<1> QED BY <1>1, <1>5, <1>7, <1>8, <1>9 DEF BreadthFirstInv

\* The next dependency of the node being expanded was seen, and then it was queued
\* no deeper than this, or it is queued now, behind everything less deep.
LEMMA VisitIsBreadthFirst == TypeInv /\ BreadthFirstInv /\ Visit => BreadthFirstInv'
<1> SUFFICES ASSUME TypeInv, BreadthFirstInv, Visit PROVE BreadthFirstInv'
    OBVIOUS
<1> DEFINE edge == Head(row)
<1>1. /\ queue \in Seq(Entries) /\ row \in Seq(Edges) /\ row # <<>> /\ level \in Nat
      /\ level + 1 \in 0 .. MaxDepth /\ question.kind = "deps-tree"
      /\ UNCHANGED <<question, outgoing, level, done>> /\ row' = Tail(row)
    BY QueryAssumption DEF TypeInv, TypeOK, Visit, snapshot, Entries, Edges
<1>2. /\ edge = row[1] /\ edge \in Edges
      /\ \A i \in DOMAIN row : i = 1 \/ (i - 1 \in DOMAIN row' /\ row'[i - 1] = row[i])
    BY <1>1, HeadTail
<1>3. Ordered /\ ~done
    BY <1>1 DEF BreadthFirstInv
<1>4. PICK E \in SUBSET [node : Nodes, depth : Nat] : Covered(E)
    BY <1>1 DEF BreadthFirstInv
<1>5. \A n, t : Depends(n, t)' <=> Depends(n, t)
    BY <1>1 DEF Depends
<1>6. ASSUME NEW t \in Nodes, InRow(t)
      PROVE  InRow(t)' \/ edge = [to |-> t, kind |-> "depends-on"]
    <2>1. PICK i \in DOMAIN row : row[i] = [to |-> t, kind |-> "depends-on"]
        BY <1>6 DEF InRow
    <2>2. CASE i = 1
        BY <1>2, <2>1, <2>2
    <2>3. CASE i # 1
        <3>1. i - 1 \in DOMAIN row' /\ row'[i - 1] = [to |-> t, kind |-> "depends-on"]
            BY <1>2, <2>1, <2>3
        <3> QED BY <3>1 DEF InRow
    <2> QED BY <2>2, <2>3
<1>7. CASE edge.kind = "depends-on" /\ edge.to \notin seen
    <2>a. [node |-> edge.to, depth |-> level + 1] \in Entries
        BY <1>1, <1>2 DEF Entries, Edges
    <2>b. PICK new \in Entries : new = [node |-> edge.to, depth |-> level + 1]
        BY <2>a
    <2>1. new \in [node : Nodes, depth : Nat] /\ new.node = edge.to /\ new.depth = level + 1
        BY <1>1, <1>2, <2>b DEF Edges
    <2>2. seen' = seen \cup {edge.to} /\ queue' = Append(queue, new)
        BY <1>7, <2>b DEF Visit
    <2>3. /\ DOMAIN queue = 1 .. Len(queue) /\ Len(queue) \in Nat
          /\ DOMAIN queue' = 1 .. (Len(queue) + 1)
          /\ \A i \in DOMAIN queue : i \in DOMAIN queue' /\ queue'[i] = queue[i]
          /\ queue'[Len(queue) + 1] = new
        BY <1>1, <2>1, <2>2
    <2>4. Ordered'
        <3>1. ASSUME NEW i \in DOMAIN queue', NEW j \in DOMAIN queue', i < j
              PROVE  queue'[i].depth <= queue'[j].depth
            <4>1. i \in DOMAIN queue
                BY <2>3, <3>1
            <4>2. CASE j \in DOMAIN queue
                BY <1>3, <2>3, <3>1, <4>1, <4>2 DEF Ordered
            <4>3. CASE j = Len(queue) + 1
                BY <1>3, <2>1, <2>3, <4>1, <4>3 DEF Ordered
            <4> QED BY <2>3, <4>2, <4>3
        <3>2. ASSUME NEW i \in DOMAIN queue'
              PROVE  level <= queue'[i].depth /\ queue'[i].depth <= level + 1
            <4>1. CASE i \in DOMAIN queue
                BY <1>3, <2>3, <4>1 DEF Ordered
            <4>2. CASE i = Len(queue) + 1
                BY <1>1, <2>1, <2>3, <4>2
            <4> QED BY <2>3, <4>1, <4>2
        <3> QED BY <1>1, <3>1, <3>2 DEF Ordered
    <2>5. \A e : InQueue(e) => InQueue(e)'
        BY <2>3 DEF InQueue
    <2>6. InQueue(new)'
        BY <2>3 DEF InQueue
    <2>7. Covered(E \cup {new})'
        <3>1. \A t \in seen' : \E f \in E \cup {new} : f.node = t /\ f.depth <= level' + 1
            BY <1>1, <1>4, <2>1, <2>2 DEF Covered
        <3>2. ASSUME NEW e \in E, ~InQueue(e)', ~(e.depth >= question.depth),
                     NEW t \in Nodes, Depends(e.node, t)
              PROVE  \/ t \in seen' /\ \E f \in E \cup {new} : f.node = t /\ f.depth <= e.depth + 1
                     \/ e.depth = level' /\ InRow(t)'
            <4>1. \/ t \in seen /\ \E f \in E : f.node = t /\ f.depth <= e.depth + 1
                  \/ e.depth = level /\ InRow(t)
                BY <1>4, <2>5, <3>2 DEF Covered
            <4>2. CASE e.depth = level /\ InRow(t) /\ ~InRow(t)'
                <5>1. edge.to = t
                    BY <1>6, <4>2
                <5> QED BY <1>1, <2>1, <2>2, <4>2, <5>1
            <4> QED BY <1>1, <2>2, <4>1, <4>2
        <3> QED BY <1>1, <1>4, <1>5, <2>6, <3>1, <3>2 DEF Covered
    <2>8. E \cup {new} \in SUBSET [node : Nodes, depth : Nat]
        BY <2>1
    <2> QED BY <1>1, <1>3, <2>4, <2>7, <2>8 DEF BreadthFirstInv
<1>8. CASE ~(edge.kind = "depends-on" /\ edge.to \notin seen)
    <2>1. seen' = seen /\ queue' = queue
        BY <1>8 DEF Visit
    <2>2. Ordered' /\ \A e : InQueue(e)' <=> InQueue(e)
        BY <1>1, <1>3, <2>1 DEF Ordered, InQueue
    <2>3. ASSUME NEW e \in E, e.depth = level, NEW t \in Nodes, InRow(t), ~InRow(t)'
          PROVE  t \in seen /\ \E f \in E : f.node = t /\ f.depth <= e.depth + 1
        <3>1. edge = [to |-> t, kind |-> "depends-on"]
            BY <1>6, <2>3
        <3>2. t \in seen
            BY <1>8, <3>1
        <3> QED BY <1>4, <2>3, <3>2 DEF Covered
    <2>4. Covered(E)'
        BY <1>1, <1>4, <1>5, <2>1, <2>2, <2>3 DEF Covered
    <2> QED BY <1>1, <1>3, <2>2, <2>4 DEF BreadthFirstInv
<1> QED BY <1>7, <1>8

\* The search is breadth first in every state.
LEMMA BreadthFirstStep == TypeInv /\ BreadthFirstInv /\ [Next]_vars => BreadthFirstInv'
<1> SUFFICES ASSUME TypeInv, BreadthFirstInv, [Next]_vars PROVE BreadthFirstInv'
    OBVIOUS
<1>1. ASSUME NEW f \in Facts, ConsiderFact(f) PROVE BreadthFirstInv'
    BY <1>1 DEF ConsiderFact, snapshot, BreadthFirstInv
<1>2. CASE AnswerSymbols
    BY <1>2 DEF AnswerSymbols, snapshot, BreadthFirstInv
<1>3. CASE AnswerDependencies \/ UNCHANGED vars
    <2>1. /\ UNCHANGED <<snapshot, search>>
          /\ done' = done \/ (queue = <<>> /\ row = <<>>)
        BY <1>3 DEF AnswerDependencies, vars, snapshot, search
    <2>2. /\ Ordered' <=> Ordered
          /\ \A E : Covered(E)' <=> Covered(E)
        BY <2>1 DEF snapshot, search, Ordered, Covered, InQueue, InRow, Depends
    <2> QED BY <2>1, <2>2 DEF snapshot, search, BreadthFirstInv
<1> QED BY <1>1, <1>2, <1>3, PopIsBreadthFirst, VisitIsBreadthFirst DEF Next

\* When nothing is left to expand, every node at the end of a walk no longer than
\* the depth asked for was seen: the first node of a walk that was not queued early
\* enough would follow one that was.
LEMMA NothingIsMissed ==
    ASSUME TypeInv, BreadthFirstInv, done, question.kind = "deps-tree",
           NEW k \in Nat, 1 <= k, k <= question.depth, NEW w \in Walks(k)
    PROVE  w[k] \in seen
<1>1. PICK E \in SUBSET [node : Nodes, depth : Nat] : Covered(E)
    BY DEF BreadthFirstInv
<1>2. queue = <<>> /\ row = <<>> /\ question.depth \in Nat
    BY QueryAssumption DEF BreadthFirstInv, TypeInv, QuestionOK
<1>3. /\ w \in [0 .. k -> Nodes] /\ w[0] = Start
      /\ \A i \in 0 .. (k - 1) : Depends(w[i], w[i + 1])
    BY DEF Walks
<1> DEFINE Good(i) == /\ \E e \in E : e.node = w[i] /\ e.depth <= i
                      /\ i >= 1 => w[i] \in seen
           Bad == {i \in 0 .. k : ~Good(i)}
<1>4. Good(0)
    <2>1. [node |-> Start, depth |-> 0] \in E
        BY <1>1 DEF Covered
    <2> QED BY <1>3, <2>1
<1>5. ASSUME NEW i \in 0 .. (k - 1), Good(i) PROVE Good(i + 1)
    <2>1. PICK e \in E : e.node = w[i] /\ e.depth <= i
        BY <1>5
    <2>2. e.depth \in Nat /\ ~(e.depth >= question.depth) /\ w[i + 1] \in Nodes
        BY <1>2, <1>3, <2>1
    <2>3. ~InQueue(e) /\ ~InRow(w[i + 1])
        BY <1>2 DEF InQueue, InRow
    <2>4. Depends(e.node, w[i + 1])
        BY <1>3, <2>1
    <2>5. w[i + 1] \in seen /\ \E f \in E : f.node = w[i + 1] /\ f.depth <= e.depth + 1
        BY <1>1, <2>2, <2>3, <2>4 DEF Covered
    <2>6. PICK f \in E : f.node = w[i + 1] /\ f.depth <= e.depth + 1
        BY <2>5
    <2>7. f.depth <= i + 1
        BY <2>1, <2>2, <2>6
    <2> QED BY <2>5, <2>6, <2>7
<1>6. Bad = {}
    <2> SUFFICES ASSUME Bad # {} PROVE FALSE
        OBVIOUS
    <2>1. Bad \subseteq Nat
        OBVIOUS
    <2>2. PICK n \in Bad : \A m \in Bad : n <= m
        <3> HIDE DEF Bad
        <3> QED BY <2>1, LeastNat
    <2>3. n # 0 /\ n \in 0 .. k /\ ~Good(n)
        BY <1>4, <2>2
    <2> HIDE DEF Good
    <2>4. n - 1 \in 0 .. (k - 1) /\ n - 1 \notin Bad /\ (n - 1) + 1 = n
        BY <2>2, <2>3
    <2>5. Good(n - 1)
        BY <2>4
    <2>6. Good((n - 1) + 1)
        BY <1>5, <2>4, <2>5
    <2> QED BY <2>3, <2>4, <2>6
<1>7. Good(k)
    <2>1. k \in 0 .. k
        OBVIOUS
    <2> HIDE DEF Good
    <2> QED BY <1>6, <2>1
<1> QED BY <1>7

\* A traversal answers every node of the snapshot that a walk of dependencies no
\* longer than --depth reaches, on every graph and in every order of the edges.
THEOREM TraversalIsCompleteCorrect == Spec => []TraversalIsComplete
<1>1. TypeInv /\ BreadthFirstInv => TraversalIsComplete
    BY QueryAssumption, NothingIsMissed DEF TraversalIsComplete, DependenciesAnswer
<1> QED BY TypeInit, TypeStep, BreadthFirstInit, BreadthFirstStep, <1>1, PTL DEF Spec
-----------------------------------------------------------------------------
(* The symbol lookup.                                                      *)

\* Before the first step no fact was looked at.
LEMMA FactInit == Init => FactInv
BY DEF Init, FactInv, Kept

\* A fact that is looked at is kept unless one that scores as high is.
LEMMA FactStep == TypeInv /\ FactInv /\ [Next]_vars => FactInv'
<1> SUFFICES ASSUME TypeInv, FactInv, [Next]_vars PROVE FactInv'
    OBVIOUS
<1>0. /\ selected \in [Keys -> Facts \cup {None}] /\ None \notin Facts
      /\ facts \subseteq Facts /\ todo \subseteq facts
    BY QueryAssumption DEF TypeInv, TypeOK
<1>1. ASSUME NEW g \in Facts, ConsiderFact(g) PROVE FactInv'
    <2>1. /\ question' = question /\ facts' = facts /\ done' = done /\ g \in todo /\ todo' = todo \ {g}
          /\ facts' \ todo' = (facts \ todo) \cup {g}
        BY <1>0, <1>1 DEF ConsiderFact, snapshot
    <2>2. g.key \in Keys
        BY DEF Keys
    <2>3. ASSUME Asked(g), selected[g.key] = None \/ PreferFact(selected[g.key], g)
          PROVE  FactInv'
        <3>1. selected' = [selected EXCEPT ![g.key] = g]
            BY <1>1, <2>3 DEF ConsiderFact, Asked
        <3>5. ~(done /\ question.kind = "symbols")
            BY <2>1 DEF FactInv
        <3> SUFFICES ASSUME NEW k \in Keys PROVE Kept(k)'
            BY <2>1, <3>5 DEF FactInv
        <3>2. CASE k # g.key
            <4>1. selected'[k] = selected[k] /\ Kept(k)
                BY <1>0, <3>1, <3>2 DEF FactInv
            <4> QED BY <2>1, <3>2, <4>1 DEF Kept, Asked
        <3>3. CASE k = g.key
            <4>1. selected'[k] = g /\ g # None
                BY <1>0, <3>1, <3>3
            <4>2. ASSUME NEW f \in facts \ todo, f.key = k, Asked(f) PROVE FactScore(f) <= FactScore(g)
                <5>1. selected[k] # None /\ FactScore(f) <= FactScore(selected[k])
                    BY <4>2 DEF FactInv, Kept
                <5>2. FactScore(g) > FactScore(selected[k]) /\ selected[k] \in Facts
                    BY <1>0, <2>3, <3>3, <5>1 DEF PreferFact
                <5>3. FactScore(f) \in Nat /\ FactScore(g) \in Nat /\ FactScore(selected[k]) \in Nat
                    BY <1>0, <5>2, ScoreType
                <5> QED BY <5>1, <5>2, <5>3
            <4>3. FactScore(g) <= FactScore(g)
                BY ScoreType
            <4>4. g.key = k /\ Asked(g)
                BY <2>3, <3>3
            <4> QED BY <2>1, <4>1, <4>2, <4>3, <4>4 DEF Kept, Asked
        <3> QED BY <3>2, <3>3
    <2>4. ASSUME ~(Asked(g) /\ (selected[g.key] = None \/ PreferFact(selected[g.key], g)))
          PROVE  FactInv'
        <3>1. selected' = selected
            BY <1>1, <2>4 DEF ConsiderFact, Asked
        <3>2. ASSUME Asked(g)
              PROVE  selected[g.key] # None /\ FactScore(g) <= FactScore(selected[g.key])
            <4>1. selected[g.key] # None /\ selected[g.key] \in Facts
                BY <1>0, <2>2, <2>4, <3>2
            <4>2. FactScore(g) \in Nat /\ FactScore(selected[g.key]) \in Nat
                BY <4>1, ScoreType
            <4> QED BY <2>4, <3>2, <4>1, <4>2 DEF PreferFact
        <3>3. ~(done /\ question.kind = "symbols")
            BY <2>1 DEF FactInv
        <3> QED BY <2>1, <3>1, <3>2, <3>3 DEF FactInv, Kept, Asked
    <2> QED BY <2>3, <2>4
<1>2. CASE AnswerSymbols
    BY <1>2 DEF AnswerSymbols, FactInv, Kept, Asked, snapshot
<1>3. CASE Pop \/ Visit \/ AnswerDependencies \/ UNCHANGED vars
    BY <1>3 DEF Pop, Visit, AnswerDependencies, vars, FactInv, Kept, Asked, snapshot
<1> QED BY <1>1, <1>2, <1>3 DEF Next

\* Whatever the order the facts come in, a lookup that is complete holds of each
\* symbol one of its best facts, by provenance and then by confidence.
THEOREM BestFactIsKeptCorrect == Spec => []BestFactIsKept
<1>1. TypeInv /\ FactInv => BestFactIsKept
    <2> SUFFICES ASSUME TypeInv, FactInv, done, question.kind = "symbols", NEW k \in Keys
                 PROVE  LET found == {f \in facts : f.key = k /\ question.name \in {All, f.name}}
                        IN  IF found = {} THEN selected[k] = None
                            ELSE /\ selected[k] \in found
                                 /\ \A f \in found :
                                      \/ Rank(f.provenance) < Rank(selected[k].provenance)
                                      \/ /\ f.provenance = selected[k].provenance
                                         /\ ConfidenceScore(f.confidence) <= ConfidenceScore(selected[k].confidence)
        BY DEF BestFactIsKept
    <2> DEFINE found == {f \in facts : f.key = k /\ question.name \in {All, f.name}}
    <2>1. todo = {} /\ facts \subseteq Facts
        BY DEF FactInv, TypeInv, TypeOK
    <2>2. selected[k] # None => selected[k] \in found
        BY <2>1 DEF FactInv, Kept, Asked
    <2>3. \A f \in found : selected[k] # None /\ FactScore(f) <= FactScore(selected[k])
        BY <2>1 DEF FactInv, Kept, Asked
    <2>4. found \subseteq Facts
        BY <2>1
    <2> HIDE DEF found
    <2>5. ASSUME NEW f \in found
          PROVE  \/ Rank(f.provenance) < Rank(selected[k].provenance)
                 \/ /\ f.provenance = selected[k].provenance
                    /\ ConfidenceScore(f.confidence) <= ConfidenceScore(selected[k].confidence)
        BY <2>2, <2>3, <2>4, ScoreOrder
    <2>6. IF found = {} THEN selected[k] = None
          ELSE /\ selected[k] \in found
               /\ \A f \in found :
                    \/ Rank(f.provenance) < Rank(selected[k].provenance)
                    \/ /\ f.provenance = selected[k].provenance
                       /\ ConfidenceScore(f.confidence) <= ConfidenceScore(selected[k].confidence)
        BY <2>2, <2>3, <2>5
    <2> QED BY <2>6 DEF found
<1> QED BY TypeInit, TypeStep, FactInit, FactStep, <1>1, PTL DEF Spec
=============================================================================
