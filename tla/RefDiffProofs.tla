--------------------------- MODULE RefDiffProofs ----------------------------
(***************************************************************************)
(* Proofs about RefDiff.  First the run (DiffRun): nothing is left behind, *)
(* and a report speaks of one pair of commits, for any repository, any     *)
(* comparison and any moves of the refs; no fact of GraphDiff is used.     *)
(* Then what a report and its summary say, for any two trees and any       *)
(* indexes of them: a report is the comparison of indexes of the resolved  *)
(* commits, so each result is a fact about CompareRefs.                    *)
(***************************************************************************)
EXTENDS RefDiff, FiniteSetTheorems, TLAPS

Stopped == phase \in {"dropping", "returned"}
Indexing == {"index base", "index head", "compare"}

\* Each ref is a commit once it was resolved.
Resolved ==
    /\ phase # "resolve base" /\ ~Stopped => commit["base"] \in Commits
    /\ phase \notin {"resolve base", "resolve head"} /\ ~Stopped => commit["head"] \in Commits

\* The file list is git's answer for the two commits.
Listed ==
    phase \in {"temp dir", "add base", "add head"} \cup Indexing =>
        changes \in NameStatus(tree[commit["base"]], tree[commit["head"]])

\* A worktree holds the resolved commit and exists until it was compared.
CheckedOut ==
    /\ phase \in {"add head"} \cup Indexing =>
        checkout["base"] = commit["base"] /\ "base" \in present
    /\ phase \in Indexing => checkout["head"] = commit["head"] /\ "head" \in present

\* An index was built from the tree of its commit.
IndexedRight ==
    /\ phase \in {"index head", "compare"} => indexed["base"] \in Indexings(tree[commit["base"]])
    /\ phase = "compare" => indexed["head"] \in Indexings(tree[commit["head"]])

\* What was made is guarded until its removal was tried.
Guarded ==
    /\ present = guards \cup stuck
    /\ guards \cap stuck = {}
    /\ ~Stopped => stuck = {}
    /\ phase = "returned" => guards = {}

\* A report is the last thing made, of two commits.
ResolvedBefore == report # Nothing => commit["base"] \in Commits /\ commit["head"] \in Commits
Reported == ReportIsOfResolvedPair /\ (report # Nothing => Stopped) /\ ResolvedBefore

DiffInv == TypeOK /\ Resolved /\ Listed /\ CheckedOut /\ IndexedRight /\ Guarded /\ Reported
-----------------------------------------------------------------------------
\* The invariant holds before the first step.
LEMMA InitInv == Init => DiffInv
  BY DEF Init, DiffInv, TypeOK, Resolved, Listed, CheckedOut, IndexedRight, Guarded, Reported,
         ReportIsOfResolvedPair, ResolvedBefore, Stopped, Indexing, Unknown, Sides, Phases

\* Every step keeps the types and what is known of commits, files and indexes.
LEMMA StepTypes ==
  ASSUME DiffInv, [Next]_vars
  PROVE  TypeOK' /\ Resolved' /\ Listed' /\ CheckedOut' /\ IndexedRight'
<1> USE DEF TypeOK, Resolved, Listed, CheckedOut, IndexedRight, Stopped, Indexing, Sides, Phases, resources
<1>1. ASSUME NEW s \in Sides, NEW c \in Commits, MoveRef(s, c)
      PROVE  TypeOK' /\ Resolved' /\ Listed' /\ CheckedOut' /\ IndexedRight'
  BY <1>1 DEF DiffInv, MoveRef
<1>2. ASSUME ResolveBase \/ ResolveHead
      PROVE  TypeOK' /\ Resolved' /\ Listed' /\ CheckedOut' /\ IndexedRight'
  BY <1>2 DEF DiffInv, ResolveBase, ResolveHead, Resolve
<1>3. CASE DiffNameStatus
  BY <1>3 DEF DiffInv, DiffNameStatus
<1>4. CASE MakeTempDir
  BY <1>4 DEF DiffInv, MakeTempDir
<1>5. CASE AddBase
  BY <1>5 DEF DiffInv, AddBase, AddWorktree
<1>6. CASE AddHead
  BY <1>6 DEF DiffInv, AddHead, AddWorktree
<1>7. CASE IndexBase
  <2>1. tree[commit["base"]] \in Trees /\ checkout["base"] = commit["base"]
    BY <1>7 DEF DiffInv, IndexBase, IndexRef
  <2>2. PICK i \in Indexings(tree[commit["base"]]) : indexed' = [indexed EXCEPT !["base"] = i]
    BY <1>7, <2>1 DEF IndexBase, IndexRef
  <2>3. i \in UNION {Indexings(t) : t \in Trees}
    BY <2>1
  <2> QED BY <1>7, <2>1, <2>2, <2>3 DEF DiffInv, IndexBase, IndexRef
<1>8. CASE IndexHead
  <2>1. tree[commit["head"]] \in Trees /\ checkout["head"] = commit["head"]
    BY <1>8 DEF DiffInv, IndexHead, IndexRef
  <2>2. PICK i \in Indexings(tree[commit["head"]]) : indexed' = [indexed EXCEPT !["head"] = i]
    BY <1>8, <2>1 DEF IndexHead, IndexRef
  <2>3. i \in UNION {Indexings(t) : t \in Trees}
    BY <2>1
  <2> QED BY <1>8, <2>1, <2>2, <2>3 DEF DiffInv, IndexHead, IndexRef
<1>9. CASE CompareGraphs
  BY <1>9 DEF DiffInv, CompareGraphs
<1>10. CASE Fail
  BY <1>10 DEF DiffInv, Fail
<1>11. ASSUME NEW g \in Sides \cup {"temp"}, Drop(g)
       PROVE  TypeOK' /\ Resolved' /\ Listed' /\ CheckedOut' /\ IndexedRight'
  BY <1>11 DEF DiffInv, Drop, Guarded
<1>12. CASE Return
  BY <1>12 DEF DiffInv, Return
<1>13. CASE UNCHANGED vars
  BY <1>13 DEF DiffInv, vars
<1>14. QED
  BY <1>1, <1>2, <1>3, <1>4, <1>5, <1>6, <1>7, <1>8, <1>9, <1>10, <1>11, <1>12, <1>13 DEF Next

\* What is made comes with a guard, and only a drop ends one.
LEMMA StepGuarded == ASSUME DiffInv, [Next]_vars PROVE Guarded'
<1> USE DEF Guarded, Stopped, Sides, resources
<1>1. ASSUME NEW g \in Sides \cup {"temp"}, Drop(g) PROVE Guarded'
  BY <1>1 DEF DiffInv, Drop
<1>2. CASE MakeTempDir \/ AddBase \/ AddHead
  BY <1>2 DEF DiffInv, MakeTempDir, AddBase, AddHead, AddWorktree
<1>3. ASSUME NEW s \in Sides, NEW c \in Commits, MoveRef(s, c) PROVE Guarded'
  BY <1>3 DEF DiffInv, MoveRef
<1>4. CASE ResolveBase \/ ResolveHead \/ DiffNameStatus
  BY <1>4 DEF DiffInv, ResolveBase, ResolveHead, Resolve, DiffNameStatus
<1>5. CASE IndexBase \/ IndexHead \/ CompareGraphs
  BY <1>5 DEF DiffInv, IndexBase, IndexHead, IndexRef, CompareGraphs
<1>6. CASE Fail \/ Return \/ UNCHANGED vars
  BY <1>6 DEF DiffInv, Fail, Return, vars
<1>7. QED
  BY <1>1, <1>2, <1>3, <1>4, <1>5, <1>6 DEF Next

\* Only the comparison makes a report, of what was indexed; afterwards nothing
\* it speaks of changes.
LEMMA StepReported == ASSUME DiffInv, [Next]_vars PROVE Reported'
<1> USE DEF Reported, ReportIsOfResolvedPair, ResolvedBefore, Stopped
<1>1. CASE CompareGraphs
  <2>1. /\ indexed["base"] \in Indexings(tree[commit["base"]])
        /\ indexed["head"] \in Indexings(tree[commit["head"]])
        /\ changes \in NameStatus(tree[commit["base"]], tree[commit["head"]])
    BY <1>1 DEF DiffInv, IndexedRight, Listed, Indexing, CompareGraphs
  <2>2. Sources = Pair(tree[commit["base"]], tree[commit["head"]])
    BY <1>1 DEF DiffInv, CheckedOut, Indexing, CompareGraphs, Sources, Pair, Sides
  <2>3. report' = Compare(indexed, changes, Pair(tree[commit["base"]], tree[commit["head"]]))
    BY <1>1, <2>2 DEF CompareGraphs
  <2>4. commit["base"] \in Commits /\ commit["head"] \in Commits
    BY <1>1 DEF DiffInv, Resolved, CompareGraphs
  <2>5. QED
    BY <1>1, <2>1, <2>3, <2>4 DEF CompareGraphs
<1>2. CASE ~Stopped /\ report' = report /\ ~CompareGraphs
  BY <1>2 DEF DiffInv
<1>3. CASE Stopped /\ UNCHANGED <<tree, commit, indexed, report>> /\ Stopped'
  BY <1>3 DEF DiffInv
<1>4. ASSUME ~CompareGraphs
      PROVE  (~Stopped /\ report' = report) \/ (Stopped /\ UNCHANGED <<tree, commit, indexed, report>> /\ Stopped')
  BY <1>4 DEF Next, MoveRef, ResolveBase, ResolveHead, Resolve, DiffNameStatus, MakeTempDir, AddBase, AddHead,
              AddWorktree, IndexBase, IndexHead, IndexRef, Fail, Drop, Return, vars
<1>5. QED
  BY <1>1, <1>2, <1>3, <1>4

\* The invariant of a run.
THEOREM DiffInvariant == Spec => []DiffInv
<1>1. DiffInv /\ [Next]_vars => DiffInv'
  BY StepTypes, StepGuarded, StepReported DEF DiffInv
<1>2. QED
  BY <1>1, InitInv, PTL DEF Spec

\* Every reachable state of the command is well typed (its steps are those of
\* diff_refs, in aci-diff's lib.rs).
THEOREM TypeCorrect == Spec => []TypeOK
<1>1. DiffInv => TypeOK
  BY DEF DiffInv
<1>2. QED
  BY <1>1, DiffInvariant, PTL

\* Whatever step fails, a run that returned removed all it made, except what
\* git or the file system would not remove (WorktreeGuard in git.rs).
THEOREM NothingLeftBehindCorrect == Spec => []NothingLeftBehind
<1>1. DiffInv => NothingLeftBehind
  BY DEF DiffInv, Guarded, NothingLeftBehind
<1>2. QED
  BY <1>1, DiffInvariant, PTL

\* However the refs move, file list, indexes and sources of a report belong to
\* the two commits that were resolved at the start (diff_refs in lib.rs).
THEOREM ReportIsOfResolvedPairCorrect == Spec => []ReportIsOfResolvedPair
<1>1. DiffInv => ReportIsOfResolvedPair
  BY DEF DiffInv, Reported
<1>2. QED
  BY <1>1, DiffInvariant, PTL
-----------------------------------------------------------------------------
\* A report is what compare_refs says of two indexes, of the two trees, and of
\* git's file list.
LEMMA ReportIsComparison ==
    ASSUME DiffInv, report # Nothing
    PROVE  /\ BaseTree \in Trees /\ HeadTree \in Trees
           /\ indexed["base"] \in IndexPath(BaseTree) /\ indexed["head"] \in IndexPath(HeadTree)
           /\ \E c \in GitNameStatus(BaseTree, HeadTree) :
                 report = CompareRefs(Pair(indexed["base"], indexed["head"]), c, Pair(BaseTree, HeadTree))
<1>1. commit["base"] \in Commits /\ commit["head"] \in Commits
    BY DEF DiffInv, Reported, ResolvedBefore
<1>2. BaseTree \in Trees /\ HeadTree \in Trees
    BY <1>1 DEF DiffInv, TypeOK, BaseTree, HeadTree
<1>3. /\ indexed["base"] \in Indexings(BaseTree) /\ indexed["head"] \in Indexings(HeadTree)
      /\ \E c \in NameStatus(BaseTree, HeadTree) : report = Compare(indexed, c, Pair(BaseTree, HeadTree))
    BY DEF DiffInv, Reported, ReportIsOfResolvedPair, BaseTree, HeadTree
<1>4. indexed = Pair(indexed["base"], indexed["head"])
    BY DEF DiffInv, TypeOK, Pair, Sides
<1>5. QED
    BY <1>2, <1>3, <1>4, ComparisonAssumption
-----------------------------------------------------------------------------
\* A partition is of a file of the tree, as the parser or the scanner reads it.
LEMMA PartitionOfFile ==
    ASSUME NEW t, NEW x \in IndexPath(t), NEW p \in DOMAIN x
    PROVE  p \in DOMAIN t /\ t[p].language # "unknown" /\ x[p] \in {Parsed(p, t[p]), Scanned(p, t[p])}
<1> DEFINE sources == {q \in DOMAIN t : t[q].language # "unknown"}
           indexes(R) ==
               {i \in [R -> UNION {IndexFile(q, t[q]) : q \in R}] :
                   \A q \in R : i[q] \in IndexFile(q, t[q])}
<1>1. PICK U \in SUBSET (Unread \cap sources) : x \in indexes(sources \ U)
    BY DEF IndexPath
<1>2. p \in sources \ U /\ x[p] \in IndexFile(p, t[p])
    BY <1>1
<1>3. QED
    BY <1>2 DEF IndexFile

\* Its symbols have their places in a bounded list.
LEMMA PlacesAreBounded ==
    ASSUME NEW t \in Trees, NEW x \in IndexPath(t), NEW p \in DOMAIN x
    PROVE  \E n \in Nat : DOMAIN x[p].symbols \subseteq 0 .. n
<1>1. p \in DOMAIN t /\ x[p] \in {Parsed(p, t[p]), Scanned(p, t[p])}
    BY PartitionOfFile
<1>2. t[p].decls \in Seq(Range(t[p].decls))
    BY <1>1, TreesAssumption
<1> DEFINE n == Len(t[p].decls)
<1>3. n \in Nat /\ DOMAIN t[p].decls = 1 .. n
    BY <1>2
<1>4. DOMAIN Parsed(p, t[p]).symbols \subseteq 0 .. n
    BY DEF Parsed
<1>5. DOMAIN Scanned(p, t[p]).symbols \subseteq 0 .. n
    BY <1>3 DEF Scanned
<1>6. QED
    BY <1>1, <1>3, <1>4, <1>5

\* A file uses the bare name of a call that no symbol of its own hides.
LEMMA UnhiddenCall ==
    ASSUME NEW part, NEW name \in part.calls, \A s \in Range(part.symbols) : SimpleName(part, s) # name
    PROVE  <<name>> \in EdgeLabels(part)
<1>1. \A i \in DOMAIN part.symbols : SimpleName(part, part.symbols[i]) # name
    BY DEF Range
<1>2. CallLabel(part, name) = <<name>>
    BY <1>1 DEF CallLabel
<1>3. QED
    BY <1>2 DEF EdgeLabels

\* Whoever is seen to call a name the report speaks of, on either side, is
\* impacted (impacted_files in compare.rs).
THEOREM CallersAreImpactedCorrect == Spec => []CallersAreImpacted
<1>1. ASSUME DiffInv, report # Nothing,
             NEW c \in report.symbols, NEW s \in c.before \cup c.after,
             NEW side \in Sides, NEW p \in DOMAIN indexed[side],
             s.name \in indexed[side][p].calls,
             \A x \in Range(indexed[side][p].symbols) : SimpleName(indexed[side][p], x) # s.name
      PROVE  p \in report.impacted
    <2>1. <<s.name>> \in EdgeLabels(indexed[side][p])
        BY <1>1, UnhiddenCall
    <2>2. <<s.name>> \in ChangedLabels(report.symbols, report.dependencies)
        BY DEF ChangedLabels
    <2>3. p \in FilesUsing(indexed[side], ChangedLabels(report.symbols, report.dependencies))
        BY <2>1, <2>2 DEF FilesUsing
    <2>4. PICK l : report = CompareRefs(Pair(indexed["base"], indexed["head"]), l, Pair(BaseTree, HeadTree))
        BY <1>1, ReportIsComparison
    <2>5. report.impacted =
              ImpactedFiles(Pair(indexed["base"], indexed["head"]), l, report.symbols, report.dependencies)
        BY <2>4 DEF CompareRefs
    <2>6. QED
        BY <2>3, <2>5 DEF ImpactedFiles, Pair, Sides
<1>2. DiffInv => CallersAreImpacted
    BY <1>1 DEF CallersAreImpacted
<1>3. QED
    BY <1>2, DiffInvariant, PTL
-----------------------------------------------------------------------------
\* The risk of a symbol is high for removed public ones only.
LEMMA HighSymbols ==
    ASSUME NEW base, NEW head, NEW s \in CompareSymbols(base, head)
    PROVE  s.risk = "high" => s.public /\ s.change = "removed"
<1>1. PICK change, before, after : s = SymbolChange(change, before, after)
    BY DEF CompareSymbols
<1>2. QED
    BY <1>1 DEF SymbolChange, Risk

\* An overall risk is high exactly when a ranked path is.
LEMMA HighOverall ==
    ASSUME NEW x, NEW c, NEW sources
    PROVE  LET r == CompareRefs(x, c, sources)
           IN  OverallRisk(r) = "high" <=> \E p \in RankedPaths(r) : "high" \in PathRisks(r, p)
<1> DEFINE r == CompareRefs(x, c, sources)
<1>1. \A s \in r.symbols : s.risk = "high" => s.public /\ s.change = "removed"
    BY HighSymbols DEF CompareRefs
<1> HIDE DEF r
<1> DEFINE HighSymbol == \E s \in r.symbols : s.public /\ s.risk = "high"
           HighFile == \E f \in r.changes : f.change = "removed" /\ f.path \notin TestPaths
<1>2. OverallRisk(r) = "high" <=> HighSymbol \/ HighFile
    BY DEF OverallRisk, PublicChanges
<1>3. ASSUME NEW s \in r.symbols, s.public, s.risk = "high"
      PROVE  SymbolPath(s) \in RankedPaths(r) /\ "high" \in PathRisks(r, SymbolPath(s))
    BY <1>3 DEF RankedPaths, PathRisks, ImportantSymbols
<1>4. ASSUME NEW f \in r.changes, f.change = "removed", f.path \notin TestPaths
      PROVE  f.path \in RankedPaths(r) /\ "high" \in PathRisks(r, f.path)
    BY <1>4 DEF RankedPaths, PathRisks, PathsOf, FileRisk
<1>5. ASSUME NEW p, "high" \in PathRisks(r, p)
      PROVE  HighSymbol \/ HighFile
    <2>1. CASE \E f \in r.changes : FileRisk(f) = "high"
        BY <2>1 DEF FileRisk
    <2>2. CASE \E s \in ImportantSymbols(r) : s.risk = "high"
        BY <2>2, <1>1 DEF ImportantSymbols
    <2>3. QED
        BY <1>5, <2>1, <2>2 DEF PathRisks
<1>6. QED
    BY <1>2, <1>3, <1>4, <1>5 DEF r

\* What makes the scores of a report numbers.
Counted(r) ==
    /\ IsFiniteSet(r.changes) /\ IsFiniteSet(r.symbols) /\ IsFiniteSet(r.dependencies)
    /\ \A s \in {"base", "head"} : \A p \in DOMAIN r.diagnostics[s] : r.diagnostics[s][p] \in Nat

\* A path scores a number.
LEMMA ScoresAreNumbers ==
    ASSUME NEW r, Counted(r), NEW p
    PROVE  PathScore(r, p) \in Nat
<1>1. \A S : S \subseteq r.changes => Cardinality(S) \in Nat
    BY FS_Subset, FS_CardinalityType DEF Counted
<1>2. \A S : S \subseteq r.dependencies => Cardinality(S) \in Nat
    BY FS_Subset, FS_CardinalityType DEF Counted
<1>3. \A S : S \subseteq r.symbols => Cardinality(S) \in Nat
    BY FS_Subset, FS_CardinalityType DEF Counted
<1>4. DiagnosticsAt(r, p) \in Nat
    BY DEF Counted, DiagnosticsAt
<1>5. \A change, public : SymbolScore(change, public) \in Nat
    BY DEF SymbolScore, RiskScore, Risk
<1> DEFINE files(kinds) == Cardinality({f \in r.changes : f.path = p /\ f.change \in kinds})
           count(change, public) ==
               Cardinality({s \in ImportantSymbols(r) :
                             SymbolPath(s) = p /\ s.change = change /\ s.public = public})
           symbols(change, public) == SymbolScore(change, public) * count(change, public)
           needs == Cardinality({d \in r.dependencies : d.entry.file = p})
<1>6. \A kinds : files(kinds) \in Nat
    BY <1>1
<1>7. \A change, public : count(change, public) \in Nat
    <2> SUFFICES ASSUME NEW change, NEW public PROVE count(change, public) \in Nat
        OBVIOUS
    <2>1. {s \in ImportantSymbols(r) : SymbolPath(s) = p /\ s.change = change /\ s.public = public}
              \subseteq r.symbols
        BY DEF ImportantSymbols
    <2> QED BY <1>3, <2>1
<1>8. needs \in Nat
    BY <1>2
<1> HIDE DEF count
<1>9. \A change, public : symbols(change, public) \in Nat
    BY <1>5, <1>7
<1> DEFINE shown(change) == symbols(change, TRUE)
           hidden(change) == symbols(change, FALSE)
           all(change) == shown(change) + hidden(change)
           gone == files({"removed"})
           new == files({"added", "renamed"})
           kept == files({"modified"})
           lost == all("removed")
           gained == all("added")
           changed == all("modified")
           warned == DiagnosticsAt(r, p)
<1>10. PathScore(r, p) = 12 * gone + 8 * new + 2 * kept + lost + gained + changed + 8 * needs + 6 * warned
    BY DEF PathScore, count
<1> HIDE DEF symbols
<1>11. \A change : all(change) \in Nat
    <2>1. \A change : shown(change) \in Nat
        BY <1>9
    <2>2. \A change : hidden(change) \in Nat
        BY <1>9
    <2> HIDE DEF shown, hidden
    <2> QED BY <2>1, <2>2
<1>12. /\ gone \in Nat /\ new \in Nat /\ kept \in Nat
       /\ lost \in Nat /\ gained \in Nat /\ changed \in Nat /\ warned \in Nat
    BY <1>4, <1>6, <1>11
<1> HIDE DEF gone, new, kept, lost, gained, changed, warned, needs
<1>13. QED
    BY <1>8, <1>10, <1>12

\* A path is cut only when there are more than the list holds, and no path of
\* a lower score is shown then.
LEMMA CutPaths ==
    ASSUME NEW r, Counted(r), IsFiniteSet(RankedPaths(r)), NEW p \in RankedPaths(r) \ TopPaths(r)
    PROVE  /\ Cardinality(RankedPaths(r)) > MaxTopChanges
           /\ \A q \in TopPaths(r) : PathScore(r, q) >= PathScore(r, p)
<1> DEFINE Ranked == RankedPaths(r)
           Before(q) == {w \in Ranked \ {q} : Outranks(r, w, q)}
<1>1. MaxTopChanges \in Nat
    BY MaxTopChangesAssumption
<1>2. \A S : S \subseteq Ranked => IsFiniteSet(S) /\ Cardinality(S) \in Nat /\ Cardinality(S) <= Cardinality(Ranked)
    BY FS_Subset, FS_CardinalityType
<1>3. \A q : q \in TopPaths(r) <=> q \in Ranked /\ Cardinality(Before(q)) < MaxTopChanges
    BY DEF TopPaths
<1>4. \A q : PathScore(r, q) \in Nat
    BY ScoresAreNumbers
<1>5. Cardinality(Before(p)) >= MaxTopChanges
    BY <1>1, <1>2, <1>3
<1>6. Cardinality(Ranked) > MaxTopChanges
    <2>1. p \notin Before(p)
        OBVIOUS
    <2>2. Before(p) \subseteq Ranked /\ Before(p) # Ranked /\ IsFiniteSet(Ranked)
        BY <2>1
    <2>3. Cardinality(Before(p)) <= Cardinality(Ranked) /\ Cardinality(Before(p)) # Cardinality(Ranked)
        BY <2>2, FS_Subset
    <2>4. Cardinality(Before(p)) \in Nat /\ Cardinality(Ranked) \in Nat
        BY <1>2
    <2> QED BY <1>1, <1>5, <2>3, <2>4
<1>7. ASSUME NEW q \in TopPaths(r), PathScore(r, q) < PathScore(r, p)
      PROVE  FALSE
    <2>1. \A w : Outranks(r, w, p) => Outranks(r, w, q) /\ w # q
        BY <1>4, <1>7 DEF Outranks
    <2>2. Before(p) \subseteq Before(q) /\ IsFiniteSet(Before(q))
        BY <1>2, <2>1
    <2>3. Cardinality(Before(p)) <= Cardinality(Before(q))
        BY <2>2, FS_Subset
    <2>4. Cardinality(Before(p)) \in Nat /\ Cardinality(Before(q)) \in Nat
        BY <1>2
    <2> QED BY <1>1, <1>3, <1>5, <1>7, <2>3, <2>4
<1>8. QED
    BY <1>4, <1>6, <1>7

\* The image of a finite set is finite.
LEMMA ImageIsFinite ==
    ASSUME NEW f, IsFiniteSet(DOMAIN f)
    PROVE  IsFiniteSet({f[x] : x \in DOMAIN f})
<1> DEFINE g == [x \in DOMAIN f |-> f[x]]
           T == {f[x] : x \in DOMAIN f}
<1>1. g \in Surjection(DOMAIN f, T)
    BY DEF Surjection
<1>2. QED
    BY <1>1, FS_Surjection

\* An index and what it holds are finite.
LEMMA IndexIsFinite ==
    ASSUME NEW t \in Trees, NEW x \in IndexPath(t)
    PROVE  /\ IsFiniteSet(DOMAIN x)
           /\ \A p \in DOMAIN x : /\ IsFiniteSet(DOMAIN x[p].symbols) /\ IsFiniteSet(x[p].imports)
                                  /\ x[p].diagnostics \in Nat
<1>1. DOMAIN x \subseteq DOMAIN t
    BY PartitionOfFile
<1>2. IsFiniteSet(DOMAIN x)
    BY <1>1, TreesAssumption, FS_Subset
<1>3. ASSUME NEW p \in DOMAIN x
      PROVE  IsFiniteSet(DOMAIN x[p].symbols) /\ IsFiniteSet(x[p].imports) /\ x[p].diagnostics \in Nat
    <2>1. PICK n \in Nat : DOMAIN x[p].symbols \subseteq 0 .. n
        BY PlacesAreBounded
    <2>2. IsFiniteSet(0 .. n)
        BY FS_Interval
    <2>3. IsFiniteSet(DOMAIN x[p].symbols)
        BY <2>1, <2>2, FS_Subset
    <2>4. p \in DOMAIN t /\ x[p] \in {Parsed(p, t[p]), Scanned(p, t[p])}
        BY PartitionOfFile
    <2>5. x[p].imports = t[p].imports /\ x[p].diagnostics \in {t[p].errors, 1}
        BY <2>4 DEF Parsed, Scanned
    <2>6. IsFiniteSet(t[p].imports) /\ t[p].errors \in Nat
        BY <2>4, TreesAssumption
    <2> QED BY <2>3, <2>5, <2>6
<1>4. QED
    BY <1>2, <1>3

\* It has finitely many keys of symbols.
LEMMA KeysAreFinite ==
    ASSUME NEW t \in Trees, NEW x \in IndexPath(t), NEW c
    PROVE  IsFiniteSet(SymbolKeys(x, c))
<1> DEFINE keys == [p \in DOMAIN x |-> {SymbolKey(c, p, x[p], s) : s \in Range(x[p].symbols)}]
<1>1. IsFiniteSet({keys[p] : p \in DOMAIN keys})
    BY IndexIsFinite, ImageIsFinite
<1>2. ASSUME NEW p \in DOMAIN x PROVE IsFiniteSet(keys[p])
    <2> DEFINE key == [i \in DOMAIN x[p].symbols |-> SymbolKey(c, p, x[p], x[p].symbols[i])]
    <2>1. IsFiniteSet({key[i] : i \in DOMAIN key})
        BY IndexIsFinite, ImageIsFinite
    <2>2. {key[i] : i \in DOMAIN key} = keys[p]
        BY DEF Range
    <2> QED BY <2>1, <2>2
<1>3. SymbolKeys(x, c) = UNION {keys[p] : p \in DOMAIN keys}
    BY DEF SymbolKeys
<1> HIDE DEF keys
<1>4. DOMAIN keys = DOMAIN x
    BY DEF keys
<1>5. QED
    BY <1>1, <1>2, <1>3, <1>4, FS_UNION

\* And finitely many dependencies.
LEMMA DependenciesAreFinite ==
    ASSUME NEW t \in Trees, NEW x \in IndexPath(t), NEW c
    PROVE  IsFiniteSet(Dependencies(x, c))
<1> DEFINE needs == [p \in DOMAIN x |-> {[file |-> ComparisonPath(c, p), dependency |-> <<s>>] : s \in x[p].imports}]
<1>1. IsFiniteSet({needs[p] : p \in DOMAIN needs})
    BY IndexIsFinite, ImageIsFinite
<1>2. ASSUME NEW p \in DOMAIN x PROVE IsFiniteSet(needs[p])
    <2> DEFINE need == [s \in x[p].imports |-> [file |-> ComparisonPath(c, p), dependency |-> <<s>>]]
    <2>1. IsFiniteSet({need[s] : s \in DOMAIN need})
        BY IndexIsFinite, ImageIsFinite
    <2>2. {need[s] : s \in DOMAIN need} = needs[p]
        OBVIOUS
    <2> QED BY <2>1, <2>2
<1>3. Dependencies(x, c) = UNION {needs[p] : p \in DOMAIN needs}
    BY DEF Dependencies
<1> HIDE DEF needs
<1>4. DOMAIN needs = DOMAIN x
    BY DEF needs
<1>5. QED
    BY <1>1, <1>2, <1>3, <1>4, FS_UNION

\* Two finite sides differ in finitely many symbols.
LEMMA SymbolChangesAreFinite ==
    ASSUME NEW B, NEW H, IsFiniteSet(DOMAIN B), IsFiniteSet(DOMAIN H)
    PROVE  IsFiniteSet(CompareSymbols(B, H))
<1> DEFINE added == [k \in DOMAIN H \ DOMAIN B |-> SymbolChange("added", {}, {H[k]})]
           removed == [k \in DOMAIN B \ DOMAIN H |-> SymbolChange("removed", {B[k]}, {})]
           other == {k \in DOMAIN B \cap DOMAIN H : B[k].fingerprint # H[k].fingerprint}
           modified == [k \in other |-> SymbolChange("modified", {B[k]}, {H[k]})]
           Added == {added[k] : k \in DOMAIN added}
           Removed == {removed[k] : k \in DOMAIN removed}
           Modified == {modified[k] : k \in DOMAIN modified}
<1>1. IsFiniteSet(DOMAIN H \ DOMAIN B) /\ IsFiniteSet(DOMAIN B \ DOMAIN H) /\ IsFiniteSet(other)
    BY FS_Subset
<1>2. IsFiniteSet(Added)
    BY <1>1, ImageIsFinite
<1>3. IsFiniteSet(Removed)
    BY <1>1, ImageIsFinite
<1>4. IsFiniteSet(Modified)
    BY <1>1, ImageIsFinite
<1>5. CompareSymbols(B, H) = (Added \cup Removed) \cup Modified
    BY DEF CompareSymbols
<1> HIDE DEF Added, Removed, Modified
<1>6. IsFiniteSet(Added \cup Removed)
    BY ONLY <1>2, <1>3, FS_Union
<1>7. IsFiniteSet((Added \cup Removed) \cup Modified)
    BY ONLY <1>4, <1>6, FS_Union
<1>8. QED
    BY ONLY <1>5, <1>7

\* And in finitely many dependencies.
LEMMA DependencyChangesAreFinite ==
    ASSUME NEW B, NEW H, IsFiniteSet(B), IsFiniteSet(H)
    PROVE  IsFiniteSet(CompareDependencies(B, H))
<1> DEFINE added == [d \in H \ B |-> [change |-> "added", entry |-> d]]
           removed == [d \in B \ H |-> [change |-> "removed", entry |-> d]]
<1>1. IsFiniteSet(H \ B) /\ IsFiniteSet(B \ H)
    BY FS_Subset
<1> DEFINE Added == {added[d] : d \in DOMAIN added}
           Removed == {removed[d] : d \in DOMAIN removed}
<1>2. IsFiniteSet(Added)
    BY <1>1, ImageIsFinite
<1>3. IsFiniteSet(Removed)
    BY <1>1, ImageIsFinite
<1>4. CompareDependencies(B, H) = Added \cup Removed
    BY DEF CompareDependencies
<1> HIDE DEF Added, Removed
<1>5. IsFiniteSet(Added \cup Removed)
    BY ONLY <1>2, <1>3, FS_Union
<1>6. QED
    BY ONLY <1>4, <1>5

\* git lists finitely many files.
LEMMA FileChangesAreFinite ==
    ASSUME NEW base \in Trees, NEW head \in Trees, NEW c \in GitNameStatus(base, head)
    PROVE  IsFiniteSet(c)
<1> DEFINE gone == DOMAIN base \ DOMAIN head
           new == DOMAIN head \ DOMAIN base
           kept == {q \in DOMAIN base \cap DOMAIN head : base[q] # head[q]}
<1>1. IsFiniteSet(gone) /\ IsFiniteSet(new) /\ IsFiniteSet(kept)
    BY TreesAssumption, FS_Subset
<1>2. PICK R \in Pairings(gone, new, base, head) :
            c = {FileChange("renamed", r[2], {r[1]}) : r \in R}
                \cup {FileChange("removed", q, {}) : q \in gone \ {r[1] : r \in R}}
                \cup {FileChange("added", q, {}) : q \in new \ {r[2] : r \in R}}
                \cup {FileChange("modified", q, {}) : q \in kept}
    BY DEF GitNameStatus
<1>3. R \subseteq gone \X new
    BY <1>2 DEF Pairings
<1> HIDE DEF gone, new, kept
<1>4. IsFiniteSet(R)
    BY <1>1, <1>3, FS_Product, FS_Subset
<1> DEFINE left == gone \ {r[1] : r \in R}
           fresh == new \ {r[2] : r \in R}
           renames == [r \in R |-> FileChange("renamed", r[2], {r[1]})]
           removals == [q \in left |-> FileChange("removed", q, {})]
           additions == [q \in fresh |-> FileChange("added", q, {})]
           edits == [q \in kept |-> FileChange("modified", q, {})]
<1>5. IsFiniteSet(left) /\ IsFiniteSet(fresh)
    BY <1>1, FS_Subset
<1> DEFINE Renames == {renames[r] : r \in DOMAIN renames}
           Removals == {removals[q] : q \in DOMAIN removals}
           Additions == {additions[q] : q \in DOMAIN additions}
           Edits == {edits[q] : q \in DOMAIN edits}
<1>6. IsFiniteSet(Renames)
    BY <1>4, ImageIsFinite
<1>7. IsFiniteSet(Removals)
    BY <1>5, ImageIsFinite
<1>8. IsFiniteSet(Additions)
    BY <1>5, ImageIsFinite
<1>9. IsFiniteSet(Edits)
    BY <1>1, ImageIsFinite
<1>10. c = ((Renames \cup Removals) \cup Additions) \cup Edits
    BY <1>2
<1> HIDE DEF Renames, Removals, Additions, Edits
<1>11. IsFiniteSet(Renames \cup Removals) /\ IsFiniteSet(Additions \cup Edits)
    BY ONLY <1>6, <1>7, <1>8, <1>9, FS_Union
<1>12. IsFiniteSet((Renames \cup Removals) \cup (Additions \cup Edits))
    BY ONLY <1>11, FS_Union
<1>13. c = (Renames \cup Removals) \cup (Additions \cup Edits)
    BY ONLY <1>10
<1>14. QED
    BY ONLY <1>12, <1>13

\* The lists of a report are finite, and its scores are numbers.
LEMMA ReportIsCounted ==
    ASSUME NEW base \in Trees, NEW head \in Trees, NEW c \in GitNameStatus(base, head),
           NEW x \in IndexPath(base), NEW y \in IndexPath(head)
    PROVE  Counted(CompareRefs(Pair(x, y), c, Pair(base, head)))
<1> DEFINE r == CompareRefs(Pair(x, y), c, Pair(base, head))
<1>1. r.changes = c
    BY DEF CompareRefs
<1>2. r.symbols = CompareSymbols(Symbols(x, c, base), Symbols(y, {}, head))
    BY DEF CompareRefs, Pair, Sides
<1>3. r.dependencies = CompareDependencies(Dependencies(x, c), Dependencies(y, {}))
    BY DEF CompareRefs, Pair, Sides
<1>4. IsFiniteSet(r.changes)
    BY <1>1, FileChangesAreFinite
<1>5. IsFiniteSet(r.symbols)
    <2>1. DOMAIN Symbols(x, c, base) = SymbolKeys(x, c) /\ DOMAIN Symbols(y, {}, head) = SymbolKeys(y, {})
        BY DEF Symbols
    <2>2. IsFiniteSet(SymbolKeys(x, c)) /\ IsFiniteSet(SymbolKeys(y, {}))
        BY KeysAreFinite
    <2> QED BY <1>2, <2>1, <2>2, SymbolChangesAreFinite
<1>6. IsFiniteSet(r.dependencies)
    <2>1. IsFiniteSet(Dependencies(x, c)) /\ IsFiniteSet(Dependencies(y, {}))
        BY DependenciesAreFinite
    <2> QED BY <1>3, <2>1, DependencyChangesAreFinite
<1>7. r.diagnostics = [s \in Sides |-> [p \in DOMAIN Pair(x, y)[s] |-> Pair(x, y)[s][p].diagnostics]]
    BY DEF CompareRefs, Pair
<1>8. \A s \in {"base", "head"} : \A p \in DOMAIN r.diagnostics[s] : r.diagnostics[s][p] \in Nat
    <2>1. /\ r.diagnostics["base"] = [p \in DOMAIN x |-> x[p].diagnostics]
          /\ r.diagnostics["head"] = [p \in DOMAIN y |-> y[p].diagnostics]
        BY <1>7 DEF Pair, Sides
    <2>2. (\A p \in DOMAIN x : x[p].diagnostics \in Nat) /\ (\A p \in DOMAIN y : y[p].diagnostics \in Nat)
        BY IndexIsFinite
    <2> QED BY <2>1, <2>2
<1>9. QED
    BY <1>4, <1>5, <1>6, <1>8 DEF Counted

\* A counted report ranks finitely many paths.
LEMMA RankedPathsAreFinite ==
    ASSUME NEW r, Counted(r)
    PROVE  IsFiniteSet(RankedPaths(r))
<1> DEFINE files == [f \in r.changes |-> f.path]
           symbols == [s \in ImportantSymbols(r) |-> SymbolPath(s)]
           needs == [d \in r.dependencies |-> d.entry.file]
<1> DEFINE Files == {files[f] : f \in DOMAIN files}
           Homes == {symbols[s] : s \in DOMAIN symbols}
           Needs == {needs[d] : d \in DOMAIN needs}
<1>1. IsFiniteSet(Files)
    BY ImageIsFinite DEF Counted
<1>2. IsFiniteSet(Homes)
    <2>1. ImportantSymbols(r) \subseteq r.symbols
        BY DEF ImportantSymbols
    <2>2. IsFiniteSet(ImportantSymbols(r))
        BY <2>1, FS_Subset DEF Counted
    <2> QED BY <2>2, ImageIsFinite
<1>3. IsFiniteSet(Needs)
    BY ImageIsFinite DEF Counted
<1>4. RankedPaths(r) = (Files \cup Homes) \cup Needs
    BY DEF RankedPaths, PathsOf
<1> HIDE DEF Files, Homes, Needs
<1>5. IsFiniteSet(Files \cup Homes)
    BY ONLY <1>1, <1>2, FS_Union
<1>6. IsFiniteSet((Files \cup Homes) \cup Needs)
    BY ONLY <1>3, <1>5, FS_Union
<1>7. QED
    BY ONLY <1>4, <1>6

\* The overall risk of the summary is high exactly when one of the paths it ranks
\* is, and such a path is cut only from a full list, for paths that score no less
\* (overall_risk and top_changes in agent.rs).
THEOREM HighRiskIsShownCorrect == Spec => []HighRiskIsShown
<1>1. ASSUME DiffInv, report # Nothing
      PROVE  /\ OverallRisk(report) = "high" <=> \E p \in RankedPaths(report) : "high" \in PathRisks(report, p)
             /\ \A p \in RankedPaths(report) \ TopPaths(report) :
                   /\ Cardinality(RankedPaths(report)) > MaxTopChanges
                   /\ \A q \in TopPaths(report) : PathScore(report, q) >= PathScore(report, p)
    <2> DEFINE x == indexed["base"]
               y == indexed["head"]
    <2>1. /\ BaseTree \in Trees /\ HeadTree \in Trees
          /\ x \in IndexPath(BaseTree) /\ y \in IndexPath(HeadTree)
        BY <1>1, ReportIsComparison
    <2>2. PICK c \in GitNameStatus(BaseTree, HeadTree) :
                report = CompareRefs(Pair(x, y), c, Pair(BaseTree, HeadTree))
        BY <1>1, ReportIsComparison
    <2>3. Counted(report)
        BY <2>1, <2>2, ReportIsCounted
    <2>4. IsFiniteSet(RankedPaths(report))
        BY <2>3, RankedPathsAreFinite
    <2>5. OverallRisk(report) = "high" <=> \E p \in RankedPaths(report) : "high" \in PathRisks(report, p)
        BY <2>2, HighOverall
    <2> QED BY <2>3, <2>4, <2>5, CutPaths
<1>2. DiffInv => HighRiskIsShown
    BY <1>1 DEF HighRiskIsShown
<1>3. QED
    BY <1>2, DiffInvariant, PTL
-----------------------------------------------------------------------------
\* A file git says nothing of is in both trees and the same, or in none.
LEMMA UntouchedFile ==
    ASSUME NEW base, NEW head, NEW c \in GitNameStatus(base, head), NEW p, p \notin Touched(c)
    PROVE  /\ p \in DOMAIN base <=> p \in DOMAIN head
           /\ p \in DOMAIN base => base[p] = head[p]
<1> DEFINE gone == DOMAIN base \ DOMAIN head
           new == DOMAIN head \ DOMAIN base
           kept == {q \in DOMAIN base \cap DOMAIN head : base[q] # head[q]}
<1>1. PICK R \in Pairings(gone, new, base, head) :
            c = {FileChange("renamed", r[2], {r[1]}) : r \in R}
                \cup {FileChange("removed", q, {}) : q \in gone \ {r[1] : r \in R}}
                \cup {FileChange("added", q, {}) : q \in new \ {r[2] : r \in R}}
                \cup {FileChange("modified", q, {}) : q \in kept}
    BY DEF GitNameStatus
<1> HIDE DEF gone, new, kept
<1>2. ASSUME NEW r \in R PROVE p # r[1] /\ p # r[2]
    <2>1. FileChange("renamed", r[2], {r[1]}) \in c
        BY <1>1
    <2>2. QED
        BY <2>1 DEF FileChange, Touched, PathsOf
<1>3. p \notin gone
    <2>1. SUFFICES ASSUME p \in gone PROVE FALSE
        OBVIOUS
    <2>2. p \in gone \ {r[1] : r \in R}
        BY <1>2, <2>1
    <2>3. FileChange("removed", p, {}) \in c
        BY <1>1, <2>2
    <2>4. QED
        BY <2>3 DEF FileChange, Touched, PathsOf
<1>4. p \notin new
    <2>1. SUFFICES ASSUME p \in new PROVE FALSE
        OBVIOUS
    <2>2. p \in new \ {r[2] : r \in R}
        BY <1>2, <2>1
    <2>3. FileChange("added", p, {}) \in c
        BY <1>1, <2>2
    <2>4. QED
        BY <2>3 DEF FileChange, Touched, PathsOf
<1>5. p \notin kept
    <2>1. SUFFICES ASSUME p \in kept PROVE FALSE
        OBVIOUS
    <2>2. FileChange("modified", p, {}) \in c
        BY <1>1, <2>1
    <2>3. QED
        BY <2>2 DEF FileChange, Touched, PathsOf
<1>6. QED
    BY <1>3, <1>4, <1>5 DEF gone, new, kept

\* Comparing under the new name confuses no touched file with an untouched one.
LEMMA ComparedPath ==
    ASSUME NEW c, NEW p
    PROVE  /\ p \notin Touched(c) => ComparisonPath(c, p) = p
           /\ ComparisonPath(c, p) \notin Touched(c) => ComparisonPath(c, p) = p
           /\ ComparisonPath({}, p) = p
<1> DEFINE renames == {x \in c : x.change = "renamed" /\ x.old = {p}}
           to == {x.path : x \in renames}
<1>1. ComparisonPath(c, p) = IF to = {} THEN p ELSE CHOOSE q \in to : TRUE
    BY DEF ComparisonPath
<1>2. to # {} => ComparisonPath(c, p) \in to
    BY <1>1
<1>3. to \subseteq Touched(c) /\ (to # {} => p \in Touched(c))
    BY DEF Touched, PathsOf
<1>4. ComparisonPath({}, p) = p
    BY DEF ComparisonPath
<1> HIDE DEF to
<1>5. QED
    BY <1>1, <1>2, <1>3, <1>4

\* A set of places in one file has a last one.
LEMMA LastOfIsThere ==
    ASSUME NEW n \in Nat, NEW p, NEW I \in SUBSET (0 .. n), I # {}
    PROVE  /\ LastOf({<<p, i>> : i \in I}) \in {<<p, i>> : i \in I}
           /\ \A y \in {<<p, i>> : i \in I} : y[2] <= LastOf({<<p, i>> : i \in I})[2]
<1> DEFINE places == {<<p, i>> : i \in I}
<1>1. PICK m \in I : \A i \in I : i <= m
    <2> DEFINE From == {i .. n : i \in I}
    <2>1. From # {} /\ From \subseteq FiniteSubsetsOf(Nat)
        <3>1. \A i \in I : IsFiniteSet(i .. n) /\ i .. n \subseteq Nat
            BY FS_Interval
        <3> QED BY <3>1 DEF FiniteSubsetsOf
    <2>2. IsWellFoundedOn(StrictSubsetOrdering(Nat), FiniteSubsetsOf(Nat))
        BY FS_StrictSubsetOrderingWellFounded
    <2>3. \E X \in From : \A Y \in From : <<Y, X>> \notin StrictSubsetOrdering(Nat)
        <3> HIDE DEF From
        <3> QED BY <2>1, <2>2, WFMin
    <2>4. PICK m \in I : \A i \in I : <<i .. n, m .. n>> \notin StrictSubsetOrdering(Nat)
        BY <2>3
    <2>5. ASSUME NEW i \in I, m < i PROVE FALSE
        <3>1. i .. n \in SUBSET Nat /\ m .. n \in SUBSET Nat
            OBVIOUS
        <3>2. i .. n \subseteq m .. n /\ i .. n # m .. n
            BY <2>5
        <3>3. <<i .. n, m .. n>> \in StrictSubsetOrdering(Nat)
            BY <3>1, <3>2 DEF StrictSubsetOrdering
        <3> QED BY <3>3, <2>4
    <2> QED BY <2>5
<1>2. <<p, m>> \in places /\ \A y \in places : y[2] <= <<p, m>>[2]
    BY <1>1
<1> HIDE DEF places
<1>3. QED
    BY <1>2 DEF LastOf, places

\* Under their new names the files of the base tree stay apart.
LEMMA ComparedApart ==
    ASSUME NEW base, NEW head, NEW c \in GitNameStatus(base, head),
           NEW p \in DOMAIN base, NEW q \in DOMAIN base, ComparisonPath(c, p) = ComparisonPath(c, q)
    PROVE  p = q
<1> DEFINE gone == DOMAIN base \ DOMAIN head
           new == DOMAIN head \ DOMAIN base
           kept == {x \in DOMAIN base \cap DOMAIN head : base[x] # head[x]}
<1>1. PICK R \in Pairings(gone, new, base, head) :
            c = {FileChange("renamed", r[2], {r[1]}) : r \in R}
                \cup {FileChange("removed", x, {}) : x \in gone \ {r[1] : r \in R}}
                \cup {FileChange("added", x, {}) : x \in new \ {r[2] : r \in R}}
                \cup {FileChange("modified", x, {}) : x \in kept}
    BY DEF GitNameStatus
<1>2. /\ R \subseteq gone \X new
      /\ \A r, s \in R : r = s \/ (r[1] # s[1] /\ r[2] # s[2])
    BY DEF Pairings
<1> HIDE DEF gone, kept
<1>3. ASSUME NEW f
      PROVE  \/ ComparisonPath(c, f) = f
             \/ \E r \in R : r[1] = f /\ r[2] = ComparisonPath(c, f)
    <2> DEFINE renames == {x \in c : x.change = "renamed" /\ x.old = {f}}
    <2>1. ASSUME NEW x \in renames PROVE \E r \in R : r[1] = f /\ r[2] = x.path
        <3>1. PICK r \in R : x = FileChange("renamed", r[2], {r[1]})
            BY <1>1 DEF FileChange
        <3> QED BY <3>1 DEF FileChange
    <2>2. ComparisonPath(c, f) = IF {x.path : x \in renames} = {} THEN f
                                 ELSE CHOOSE z \in {x.path : x \in renames} : TRUE
        BY DEF ComparisonPath
    <2> HIDE DEF renames
    <2> QED BY <2>1, <2>2
<1>4. \A r \in R : r[2] \notin DOMAIN base
    BY <1>2
<1>5. CASE ComparisonPath(c, p) = p
    <2>1. \A r \in R : r[2] # ComparisonPath(c, q)
        BY <1>4, <1>5
    <2>2. ComparisonPath(c, q) = q
        BY <1>3, <2>1
    <2> QED BY <1>5, <2>2
<1>6. CASE ComparisonPath(c, p) # p
    <2>1. PICK r \in R : r[1] = p /\ r[2] = ComparisonPath(c, p)
        BY <1>3, <1>6
    <2>2. PICK s \in R : s[1] = q /\ s[2] = ComparisonPath(c, q)
        BY <1>3, <1>4, <2>1
    <2> QED BY <1>2, <2>1, <2>2
<1>7. QED
    BY <1>5, <1>6

\* The declarations of a key lie in one file, the kept one among them.
LEMMA KeptEntry ==
    ASSUME NEW t \in Trees, NEW x \in IndexPath(t), NEW c, NEW source, NEW k \in SymbolKeys(x, c),
           \A p, q \in DOMAIN t : ComparisonPath(c, p) = ComparisonPath(c, q) => p = q
    PROVE  \E p \in DOMAIN x :
              /\ ComparisonPath(c, p) = k.file
              /\ \E i \in DOMAIN x[p].symbols :
                    /\ LastOf(DeclarationsOf(x, c, k)) = <<p, i>> /\ i \in Nat
                    /\ \A y \in DeclarationsOf(x, c, k) : y[2] \in Nat /\ y[2] <= i /\ y = <<p, y[2]>>
                    /\ SymbolKey(c, p, x[p], x[p].symbols[i]) = k
                    /\ Symbols(x, c, source)[k] = SymbolEntry(p, x[p], x[p].symbols[i], source)
<1>1. PICK p \in DOMAIN x : \E i \in DOMAIN x[p].symbols : SymbolKey(c, p, x[p], x[p].symbols[i]) = k
    BY DEF SymbolKeys, Range
<1>2. ComparisonPath(c, p) = k.file
    BY <1>1 DEF SymbolKey
<1> DEFINE I == {i \in DOMAIN x[p].symbols : SymbolKey(c, p, x[p], x[p].symbols[i]) = k}
<1>3. DeclarationsOf(x, c, k) = {<<p, i>> : i \in I}
    <2>1. ASSUME NEW q \in DOMAIN x, NEW i \in DOMAIN x[q].symbols,
                 SymbolKey(c, q, x[q], x[q].symbols[i]) = k
          PROVE  q = p
        <3>1. ComparisonPath(c, q) = k.file
            BY <2>1 DEF SymbolKey
        <3>2. p \in DOMAIN t /\ q \in DOMAIN t
            BY PartitionOfFile
        <3> QED BY <1>2, <3>1, <3>2
    <2>2. DeclarationsOf(x, c, k) \subseteq {<<p, i>> : i \in I}
        BY <2>1 DEF DeclarationsOf
    <2>3. {<<p, i>> : i \in I} \subseteq DeclarationsOf(x, c, k)
        BY DEF DeclarationsOf
    <2> QED BY <2>2, <2>3
<1>4. PICK n \in Nat : DOMAIN x[p].symbols \subseteq 0 .. n
    BY PlacesAreBounded
<1>5. I # {} /\ I \in SUBSET (0 .. n)
    BY <1>1, <1>4
<1> HIDE DEF I
<1>6. /\ LastOf(DeclarationsOf(x, c, k)) \in {<<p, i>> : i \in I}
      /\ \A y \in DeclarationsOf(x, c, k) : y[2] <= LastOf(DeclarationsOf(x, c, k))[2]
    <2>1. /\ LastOf({<<p, j>> : j \in I}) \in {<<p, j>> : j \in I}
          /\ \A y \in {<<p, j>> : j \in I} : y[2] <= LastOf({<<p, j>> : j \in I})[2]
        BY <1>5, LastOfIsThere
    <2> QED BY <1>3, <2>1
<1>7. PICK i \in I : LastOf(DeclarationsOf(x, c, k)) = <<p, i>>
    BY <1>6
<1>8. i \in DOMAIN x[p].symbols /\ SymbolKey(c, p, x[p], x[p].symbols[i]) = k
    BY <1>7 DEF I
<1>9. Symbols(x, c, source)[k] = SymbolEntry(p, x[p], x[p].symbols[i], source)
    <2>1. <<p, i>>[1] = p /\ <<p, i>>[2] = i
        OBVIOUS
    <2> QED BY <1>7, <2>1 DEF Symbols
<1>10. i \in Nat /\ \A y \in DeclarationsOf(x, c, k) : y[2] \in Nat /\ y[2] <= i /\ y = <<p, y[2]>>
    <2>1. <<p, i>>[2] = i
        OBVIOUS
    <2> QED BY <1>3, <1>5, <1>6, <1>7, <2>1
<1>11. QED
    BY <1>2, <1>7, <1>8, <1>9, <1>10

\* The indexes hold different things of a path; its partitions, if there are any.
Differs(x, y, p) == {x[q] : q \in {p} \cap DOMAIN x} # {y[q] : q \in {p} \cap DOMAIN y}

\* Where they do not, both hold the same partition or none.
LEMMA SamePartition ==
    ASSUME NEW x, NEW y, NEW p, ~Differs(x, y, p)
    PROVE  /\ p \in DOMAIN x <=> p \in DOMAIN y
           /\ p \in DOMAIN x => x[p] = y[p]
<1>1. p \in DOMAIN x => {x[q] : q \in {p} \cap DOMAIN x} = {x[p]}
    OBVIOUS
<1>2. p \in DOMAIN y => {y[q] : q \in {p} \cap DOMAIN y} = {y[p]}
    OBVIOUS
<1>3. p \notin DOMAIN x => {x[q] : q \in {p} \cap DOMAIN x} = {}
    OBVIOUS
<1>4. p \notin DOMAIN y => {y[q] : q \in {p} \cap DOMAIN y} = {}
    OBVIOUS
<1>5. {x[q] : q \in {p} \cap DOMAIN x} = {y[q] : q \in {p} \cap DOMAIN y}
    BY DEF Differs
<1>6. QED
    BY <1>1, <1>2, <1>3, <1>4, <1>5

\* A key of a file git says nothing of has one entry, the same on both sides if
\* the file was indexed alike.
LEMMA UntouchedSymbol ==
    ASSUME NEW base \in Trees, NEW head \in Trees, NEW c \in GitNameStatus(base, head),
           NEW x \in IndexPath(base), NEW y \in IndexPath(head),
           NEW k, k.file \notin Touched(c), ~Differs(x, y, k.file)
    PROVE  /\ k \in SymbolKeys(x, c) <=> k \in SymbolKeys(y, {})
           /\ k \in SymbolKeys(x, c) => Symbols(x, c, base)[k] = Symbols(y, {}, head)[k]
<1> DEFINE p == k.file
<1>1. /\ p \in DOMAIN x <=> p \in DOMAIN y
      /\ p \in DOMAIN x => x[p] = y[p]
    BY SamePartition
<1>2. \A q, part, s : SymbolKey(c, q, part, s) = k \/ SymbolKey({}, q, part, s) = k =>
                    q = p /\ SymbolKey(c, q, part, s) = k /\ SymbolKey({}, q, part, s) = k
    BY ComparedPath DEF SymbolKey
<1> HIDE DEF p
<1>3. k \in SymbolKeys(x, c) <=> p \in DOMAIN x /\ \E s \in Range(x[p].symbols) : SymbolKey(c, p, x[p], s) = k
    BY <1>2 DEF SymbolKeys
<1>4. k \in SymbolKeys(y, {}) <=> p \in DOMAIN y /\ \E s \in Range(y[p].symbols) : SymbolKey({}, p, y[p], s) = k
    BY <1>2 DEF SymbolKeys
<1>5. k \in SymbolKeys(x, c) <=> k \in SymbolKeys(y, {})
    BY <1>1, <1>2, <1>3, <1>4
<1>6. ASSUME k \in SymbolKeys(x, c)
      PROVE  Symbols(x, c, base)[k] = Symbols(y, {}, head)[k]
    <2>1. p \in DOMAIN x /\ p \in DOMAIN y /\ x[p] = y[p]
        BY <1>1, <1>3, <1>6
    <2> DEFINE I == {i \in DOMAIN x[p].symbols : SymbolKey(c, p, x[p], x[p].symbols[i]) = k}
               J == {i \in DOMAIN y[p].symbols : SymbolKey({}, p, y[p], y[p].symbols[i]) = k}
    <2>2. I = J
        BY <1>2, <2>1
    <2>3. DeclarationsOf(x, c, k) = {<<p, i>> : i \in I}
        BY <1>2, <2>1 DEF DeclarationsOf
    <2>4. DeclarationsOf(y, {}, k) = {<<p, i>> : i \in J}
        BY <1>2, <2>1 DEF DeclarationsOf
    <2>5. DeclarationsOf(x, c, k) = DeclarationsOf(y, {}, k)
        BY <2>2, <2>3, <2>4
    <2>6. \A q, r \in DOMAIN base : ComparisonPath(c, q) = ComparisonPath(c, r) => q = r
        BY ComparedApart
    <2>7. \A q, r \in DOMAIN head : ComparisonPath({}, q) = ComparisonPath({}, r) => q = r
        BY ComparedPath
    <2>8. PICK q \in DOMAIN x : /\ ComparisonPath(c, q) = k.file
                                /\ \E i \in DOMAIN x[q].symbols :
                                     /\ LastOf(DeclarationsOf(x, c, k)) = <<q, i>>
                                     /\ Symbols(x, c, base)[k] = SymbolEntry(q, x[q], x[q].symbols[i], base)
        BY <1>6, <2>6, KeptEntry
    <2>9. PICK r \in DOMAIN y : /\ ComparisonPath({}, r) = k.file
                                /\ \E i \in DOMAIN y[r].symbols :
                                     /\ LastOf(DeclarationsOf(y, {}, k)) = <<r, i>>
                                     /\ Symbols(y, {}, head)[k] = SymbolEntry(r, y[r], y[r].symbols[i], head)
        BY <1>5, <1>6, <2>7, KeptEntry
    <2>10. q = p /\ r = p
        BY <2>8, <2>9, ComparedPath DEF p
    <2>11. (p \in DOMAIN base <=> p \in DOMAIN head) /\ (p \in DOMAIN base => base[p] = head[p])
        BY UntouchedFile DEF p
    <2>12. \A part, s : SymbolEntry(p, part, s, base) = SymbolEntry(p, part, s, head)
        BY <2>11 DEF SymbolEntry, Fingerprint, IsPublic
    <2> QED BY <2>1, <2>5, <2>8, <2>9, <2>10, <2>12
<1>7. QED
    BY <1>5, <1>6
-----------------------------------------------------------------------------
\* A symbol is reported only in a file of the trees that git says changed or that
\* was indexed differently.
LEMMA SymbolsAreTouched ==
    ASSUME NEW base \in Trees, NEW head \in Trees, NEW c \in GitNameStatus(base, head),
           NEW x \in IndexPath(base), NEW y \in IndexPath(head),
           NEW s \in CompareSymbols(Symbols(x, c, base), Symbols(y, {}, head))
    PROVE  SymbolPath(s) \in Touched(c) \/ (SymbolPath(s) \in DOMAIN x \cup DOMAIN y /\ Differs(x, y, SymbolPath(s)))
<1> DEFINE B == Symbols(x, c, base)
           H == Symbols(y, {}, head)
           Right(p) == p \in Touched(c) \/ (p \in DOMAIN x \cup DOMAIN y /\ Differs(x, y, p))
<1>1. DOMAIN B = SymbolKeys(x, c) /\ DOMAIN H = SymbolKeys(y, {})
    BY DEF Symbols
<1>2. ASSUME NEW k \in DOMAIN B, k.file \in Touched(c) \/ Differs(x, y, k.file)
      PROVE  Right(B[k].summary.file)
    <2>1. \A q, r \in DOMAIN base : ComparisonPath(c, q) = ComparisonPath(c, r) => q = r
        BY ComparedApart
    <2>2. k \in SymbolKeys(x, c)
        BY <1>1
    <2>3. PICK q \in DOMAIN x : /\ ComparisonPath(c, q) = k.file
                                /\ \E i \in DOMAIN x[q].symbols : B[k] = SymbolEntry(q, x[q], x[q].symbols[i], base)
        BY <2>1, <2>2, KeptEntry
    <2>4. B[k].summary.file = q
        BY <2>3 DEF SymbolEntry, Summary
    <2> QED BY <1>2, <2>3, <2>4, ComparedPath
<1>3. ASSUME NEW k \in DOMAIN H, k.file \in Touched(c) \/ Differs(x, y, k.file)
      PROVE  Right(H[k].summary.file)
    <2>1. \A q, r \in DOMAIN head : ComparisonPath({}, q) = ComparisonPath({}, r) => q = r
        BY ComparedPath
    <2>2. k \in SymbolKeys(y, {})
        BY <1>1
    <2>3. PICK q \in DOMAIN y : /\ ComparisonPath({}, q) = k.file
                                /\ \E i \in DOMAIN y[q].symbols : H[k] = SymbolEntry(q, y[q], y[q].symbols[i], head)
        BY <2>1, <2>2, KeptEntry
    <2>4. H[k].summary.file = q
        BY <2>3 DEF SymbolEntry, Summary
    <2> QED BY <1>3, <2>3, <2>4, ComparedPath
<1>4. ASSUME NEW k, k.file \notin Touched(c), ~Differs(x, y, k.file)
      PROVE  (k \in DOMAIN B <=> k \in DOMAIN H) /\ (k \in DOMAIN B => B[k] = H[k])
    BY <1>1, <1>4, UntouchedSymbol
<1> HIDE DEF B, H, Right
<1>5. \A change, e : SymbolPath(SymbolChange(change, {}, {e})) = e.summary.file
    BY DEF SymbolPath, SymbolChange
<1>6. \A change, e : SymbolPath(SymbolChange(change, {e}, {})) = e.summary.file
    BY DEF SymbolPath, SymbolChange
<1>7. CASE \E k \in DOMAIN H \ DOMAIN B : s = SymbolChange("added", {}, {H[k]})
    <2>1. PICK k \in DOMAIN H \ DOMAIN B : s = SymbolChange("added", {}, {H[k]})
        BY <1>7
    <2>2. Right(H[k].summary.file)
        BY <1>3, <1>4
    <2> QED BY <1>5, <2>1, <2>2 DEF Right
<1>8. CASE \E k \in DOMAIN B \ DOMAIN H : s = SymbolChange("removed", {B[k]}, {})
    <2>1. PICK k \in DOMAIN B \ DOMAIN H : s = SymbolChange("removed", {B[k]}, {})
        BY <1>8
    <2>2. Right(B[k].summary.file)
        BY <1>2, <1>4
    <2> QED BY <1>6, <2>1, <2>2 DEF Right
<1>9. CASE \E k \in DOMAIN B \cap DOMAIN H :
                B[k].fingerprint # H[k].fingerprint /\ s = SymbolChange("modified", {B[k]}, {H[k]})
    <2>1. PICK k \in DOMAIN B \cap DOMAIN H :
                B[k].fingerprint # H[k].fingerprint /\ s = SymbolChange("modified", {B[k]}, {H[k]})
        BY <1>9
    <2>2. Right(H[k].summary.file)
        BY <1>3, <1>4, <2>1
    <2>3. SymbolPath(s) = H[k].summary.file
        BY <2>1 DEF SymbolPath, SymbolChange
    <2> QED BY <2>2, <2>3 DEF Right
<1>10. QED
    BY <1>7, <1>8, <1>9 DEF CompareSymbols, B, H

\* A dependency is reported only of such a file.
LEMMA DependenciesAreTouched ==
    ASSUME NEW c, NEW x, NEW y, NEW d \in CompareDependencies(Dependencies(x, c), Dependencies(y, {})),
           d.entry.file \notin Touched(c)
    PROVE  d.entry.file \in DOMAIN x \cup DOMAIN y /\ Differs(x, y, d.entry.file)
<1> DEFINE p == d.entry.file
<1>1. ComparisonPath(c, p) = p
    BY ComparedPath
<1>2. \A q : ComparisonPath({}, q) = q
    BY ComparedPath
<1>3. \A q : ComparisonPath(c, q) = p => q = p
    BY ComparedPath
<1> DEFINE B == Dependencies(x, c)
           H == Dependencies(y, {})
           Needs(u) == p \in DOMAIN u /\ \E i \in u[p].imports : d.entry = [file |-> p, dependency |-> <<i>>]
<1>4. (d.entry \in B /\ d.entry \notin H) \/ (d.entry \in H /\ d.entry \notin B)
    BY DEF CompareDependencies
<1>5. d.entry \in B <=> Needs(x)
    <2>1. ASSUME d.entry \in B PROVE Needs(x)
        <3>1. PICK q \in DOMAIN x : \E i \in x[q].imports :
                    d.entry = [file |-> ComparisonPath(c, q), dependency |-> <<i>>]
            BY <2>1 DEF Dependencies
        <3>2. q = p
            BY <1>3, <3>1
        <3> QED BY <1>1, <3>1, <3>2
    <2>2. ASSUME Needs(x) PROVE d.entry \in B
        BY <1>1, <2>2 DEF Dependencies
    <2> QED BY <2>1, <2>2
<1>6. d.entry \in H <=> Needs(y)
    <2>1. ASSUME d.entry \in H PROVE Needs(y)
        <3>1. PICK q \in DOMAIN y : \E i \in y[q].imports :
                    d.entry = [file |-> ComparisonPath({}, q), dependency |-> <<i>>]
            BY <2>1 DEF Dependencies
        <3>2. q = p
            BY <1>2, <3>1
        <3> QED BY <1>2, <3>1, <3>2
    <2>2. ASSUME Needs(y) PROVE d.entry \in H
        BY <1>2, <2>2 DEF Dependencies
    <2> QED BY <2>1, <2>2
<1>7. ASSUME ~Differs(x, y, p) PROVE Needs(x) <=> Needs(y)
    <2>1. (p \in DOMAIN x <=> p \in DOMAIN y) /\ (p \in DOMAIN x => x[p] = y[p])
        BY <1>7, SamePartition
    <2> QED BY <2>1
<1>8. QED
    BY <1>4, <1>5, <1>6, <1>7

\* Every path the summary ranks is one git speaks of, or one of a file that was
\* the same on both sides and indexed differently (top_changes in agent.rs ranks
\* what compare_refs of compare.rs found).
THEOREM RankedFilesChangedCorrect == Spec => []RankedFilesChanged
<1>1. ASSUME DiffInv, report # Nothing, NEW p \in RankedPaths(report), p \notin Touched(report.changes)
      PROVE  p \in DOMAIN BaseTree \cap DOMAIN HeadTree /\ BaseTree[p] = HeadTree[p] /\ IndexedDifferently(p)
    <2> DEFINE x == indexed["base"]
               y == indexed["head"]
    <2>1. /\ BaseTree \in Trees /\ HeadTree \in Trees
          /\ x \in IndexPath(BaseTree) /\ y \in IndexPath(HeadTree)
        BY <1>1, ReportIsComparison
    <2>2. PICK c \in GitNameStatus(BaseTree, HeadTree) :
                report = CompareRefs(Pair(x, y), c, Pair(BaseTree, HeadTree))
        BY <1>1, ReportIsComparison
    <2>3. report.changes = c
        BY <2>2 DEF CompareRefs
    <2>4. report.symbols = CompareSymbols(Symbols(x, c, BaseTree), Symbols(y, {}, HeadTree))
        BY <2>2 DEF CompareRefs, Pair, Sides
    <2>5. report.dependencies = CompareDependencies(Dependencies(x, c), Dependencies(y, {}))
        BY <2>2 DEF CompareRefs, Pair, Sides
    <2> HIDE DEF x, y
    <2>7. p \in DOMAIN x \cup DOMAIN y /\ Differs(x, y, p)
        <3>1. CASE \E s \in report.symbols : p = SymbolPath(s)
            BY <1>1, <2>1, <2>3, <2>4, <3>1, SymbolsAreTouched
        <3>2. CASE \E d \in report.dependencies : p = d.entry.file
            BY <1>1, <2>3, <2>5, <3>2, DependenciesAreTouched
        <3>3. p \notin PathsOf(report.changes)
            BY <1>1 DEF Touched
        <3> QED BY <1>1, <3>1, <3>2, <3>3 DEF RankedPaths, ImportantSymbols
    <2>8. p \in DOMAIN BaseTree \cup DOMAIN HeadTree
        BY <2>1, <2>7, PartitionOfFile
    <2>9. p \in DOMAIN BaseTree \cap DOMAIN HeadTree /\ BaseTree[p] = HeadTree[p]
        BY <1>1, <2>3, <2>8, UntouchedFile
    <2>10. IndexedDifferently(p)
        BY <2>7 DEF IndexedDifferently, Differs, x, y
    <2> QED BY <2>9, <2>10
<1>2. DiffInv => RankedFilesChanged
    BY <1>1 DEF RankedFilesChanged
<1>3. QED
    BY <1>2, DiffInvariant, PTL
-----------------------------------------------------------------------------
\* Every indexed file is of a language that writes names with dots and whose
\* scanner leaves them bare.
DottedOnly ==
    \A t \in Trees : \A p \in DOMAIN t :
        t[p].language # "unknown" => t[p].language \in Dotted \ ScopedScanners

\* Identities and their places as pure functions of index and changes; the key of
\* an identity.
Ident(c, p, part, s) ==
    <<ComparisonPath(c, p), part.language, s.kind, IF IsModule(s) THEN <<>> ELSE s.inner>>
Idents(x, c) == UNION {{Ident(c, p, x[p], s) : s \in Range(x[p].symbols)} : p \in DOMAIN x}
Places(x, c, id) ==
    UNION {{<<p, i>> : i \in {j \in DOMAIN x[p].symbols : Ident(c, p, x[p], x[p].symbols[j]) = id}}
            : p \in DOMAIN x}
Contents(t, x, c, id) ==
    {[text |-> Snippet(t[w[1]], x[w[1]].symbols[w[2]]), quality |-> x[w[1]].quality]
        : w \in {y \in Places(x, c, id) : \A z \in Places(x, c, id) : z[2] <= y[2]}}
Summaries(x, c, id) == {Summary(w[1], x[w[1]], x[w[1]].symbols[w[2]]) : w \in Places(x, c, id)}
KeyFor(id) == [file |-> id[1], language |-> id[2], kind |-> id[3],
               name |-> IF id[3] = "module" THEN <<"$module">> ELSE id[4]]

\* Identities that occur: a module is the file itself.
IsIdent(id) == id = <<id[1], id[2], id[3], id[4]>> /\ (id[3] = "module" => id[4] = <<>>)

\* Summaries that agree have one key.
LEMMA KeyOfSummary ==
    ASSUME NEW c, NEW p, NEW part, NEW s, NEW q, NEW other, NEW r,
           Summary(p, part, s) = Summary(q, other, r)
    PROVE  SymbolKey(c, p, part, s) = SymbolKey(c, q, other, r)
<1>1. /\ p = q /\ part.language = other.language /\ s.kind = r.kind
      /\ SimpleName(part, s) = SimpleName(other, r)
      /\ QualifiedName(part, s) = QualifiedName(other, r)
    BY DEF Summary
<1>2. ScopedName(part, s) = ScopedName(other, r)
    BY <1>1 DEF ScopedName, IsModule
<1>3. QED
    BY <1>1, <1>2 DEF SymbolKey

\* What the scanner makes of a file: bare names, unless it qualifies them.
LEMMA ScannedShape ==
    ASSUME NEW path, NEW file
    PROVE  LET part == Scanned(path, file) IN
           /\ part.stem = <<>>
           /\ DOMAIN part.symbols = {j \in DOMAIN file.decls : file.decls[j].seen # "none"}
           /\ \A i \in DOMAIN part.symbols :
                 file.language \notin ScopedScanners => part.symbols[i].inner = <<Last(file.decls[i].inner)>>
<1>1. Scanned(path, file).stem = <<>>
    BY DEF Scanned
<1>2. DOMAIN Scanned(path, file).symbols = {j \in DOMAIN file.decls : file.decls[j].seen # "none"}
    BY DEF Scanned
<1>3. ASSUME NEW i \in {j \in DOMAIN file.decls : file.decls[j].seen # "none"},
             file.language \notin ScopedScanners
      PROVE  Scanned(path, file).symbols[i].inner = <<Last(file.decls[i].inner)>>
    BY <1>3 DEF Scanned, Fact
<1>4. QED
    BY <1>1, <1>2, <1>3

\* The name in a key is the name below the file.
LEMMA NameInKey ==
    ASSUME DottedOnly, NEW t \in Trees, NEW x \in IndexPath(t), NEW p \in DOMAIN x,
           NEW i \in DOMAIN x[p].symbols
    PROVE  LET s == x[p].symbols[i]
           IN  ScopedName(x[p], s) = IF IsModule(s) THEN <<"$module">> ELSE s.inner
<1> DEFINE s == x[p].symbols[i]
<1>1. /\ p \in DOMAIN t /\ t[p].language # "unknown"
      /\ x[p] \in {Parsed(p, t[p]), Scanned(p, t[p])}
    BY PartitionOfFile
<1>2. t[p].language \in Dotted /\ t[p].language \notin ScopedScanners
    BY <1>1 DEF DottedOnly
<1>3. t[p].decls \in Seq(Range(t[p].decls))
    BY <1>1, TreesAssumption
<1>4. \A j \in DOMAIN t[p].decls :
        LET inner == t[p].decls[j].inner IN inner \in Seq(Range(inner)) /\ inner # <<>>
    BY <1>1, TreesAssumption DEF Range
<1>5. CASE x[p] = Parsed(p, t[p]) /\ ~IsModule(s)
    <2>1. i # 0 /\ i \in DOMAIN t[p].decls
        BY <1>3, <1>5 DEF Parsed, Fact, IsModule
    <2> DEFINE inner == t[p].decls[i].inner
    <2>2. s.inner = inner
        BY <1>3, <1>5, <2>1 DEF Parsed, Fact
    <2>3. x[p].stem = <<Stem(p)>> /\ x[p].language = t[p].language
        BY <1>5 DEF Parsed
    <2>4. inner \in Seq(Range(inner)) /\ inner # <<>>
        BY <1>4, <2>1
    <2>5. \A N, a : \A w \in Seq(N) : w # <<>> => Tail(<<a>> \o w) = w /\ Len(<<a>> \o w) > 1
        OBVIOUS
    <2> HIDE DEF inner, s
    <2>7. QualifiedName(x[p], s) = <<Stem(p)>> \o inner
        BY <2>2, <2>3 DEF QualifiedName
    <2>6. Tail(<<Stem(p)>> \o inner) = inner /\ Len(<<Stem(p)>> \o inner) > 1
        BY <2>4, <2>5
    <2> QED BY <1>2, <1>5, <2>2, <2>3, <2>6, <2>7 DEF ScopedName, s
<1>6. CASE x[p] = Scanned(p, t[p]) /\ ~IsModule(s)
    <2> DEFINE name == Last(t[p].decls[i].inner)
    <2>1. s.inner = <<name>>
        BY <1>2, <1>6, ScannedShape
    <2>2. x[p].stem = <<>>
        BY <1>6, ScannedShape
    <2> HIDE DEF s, name
    <2>3. QualifiedName(x[p], s) = <<name>>
        BY <2>1, <2>2 DEF QualifiedName
    <2>4. SimpleName(x[p], s) = name
        BY <2>3 DEF SimpleName, Last
    <2>5. ~(Len(QualifiedName(x[p], s)) > 1)
        BY <2>3
    <2> QED BY <1>6, <2>1, <2>4, <2>5 DEF ScopedName, s
<1>7. QED
    BY <1>1, <1>5, <1>6 DEF ScopedName

\* The key of a symbol is that of its identity.
LEMMA KeyOfSymbol ==
    ASSUME DottedOnly, NEW t \in Trees, NEW x \in IndexPath(t), NEW p \in DOMAIN x,
           NEW i \in DOMAIN x[p].symbols, NEW c
    PROVE  LET id == Ident(c, p, x[p], x[p].symbols[i])
           IN  SymbolKey(c, p, x[p], x[p].symbols[i]) = KeyFor(id) /\ IsIdent(id)
<1>1. ScopedName(x[p], x[p].symbols[i]) =
            IF IsModule(x[p].symbols[i]) THEN <<"$module">> ELSE x[p].symbols[i].inner
    BY NameInKey
<1>2. QED
    BY <1>1 DEF SymbolKey, KeyFor, Ident, IsIdent, IsModule

\* Identities are told apart by their keys.
LEMMA KeysAreIdentities ==
    ASSUME NEW v, IsIdent(v), NEW w, IsIdent(w), KeyFor(v) = KeyFor(w)
    PROVE  v = w
<1>1. v[1] = w[1] /\ v[2] = w[2] /\ v[3] = w[3] /\ (v[3] # "module" => v[4] = w[4])
    BY DEF KeyFor
<1>2. QED
    BY <1>1 DEF IsIdent

\* The symbols of an identity are those of its key.
LEMMA PlacesOfKey ==
    ASSUME DottedOnly, NEW t \in Trees, NEW x \in IndexPath(t), NEW c, NEW id, IsIdent(id)
    PROVE  Places(x, c, id) = DeclarationsOf(x, c, KeyFor(id))
<1>1. ASSUME NEW p \in DOMAIN x, NEW i \in DOMAIN x[p].symbols
      PROVE  Ident(c, p, x[p], x[p].symbols[i]) = id <=> SymbolKey(c, p, x[p], x[p].symbols[i]) = KeyFor(id)
    BY KeyOfSymbol, KeysAreIdentities
<1>2. ASSUME NEW p \in DOMAIN x
      PROVE  {j \in DOMAIN x[p].symbols : Ident(c, p, x[p], x[p].symbols[j]) = id}
             = {j \in DOMAIN x[p].symbols : SymbolKey(c, p, x[p], x[p].symbols[j]) = KeyFor(id)}
    BY <1>1
<1>3. QED
    BY <1>2 DEF Places, DeclarationsOf

\* The symbols of a side hold key k with the one content its identity has there.
HoldsOne(symbols, k, contents) ==
    \E text, quality :
        /\ contents = {[text |-> text, quality |-> quality]}
        /\ symbols[k].fingerprint = [text |-> text, span |-> <<>>, quality |-> quality]

\* What one side says of an identity: its key shows the last of its symbols, and
\* is absent when it has none.
Agrees(symbols, k, contents, summaries) ==
    /\ \/ k \in DOMAIN symbols /\ HoldsOne(symbols, k, contents)
       \/ k \notin DOMAIN symbols /\ contents = {}
    /\ \A j \in DOMAIN symbols : symbols[j].summary \in summaries <=> j = k

\* Each side says so of any identity, its own ones among them.
LEMMA OneSide ==
    ASSUME DottedOnly, NEW t \in Trees, NEW x \in IndexPath(t), NEW c,
           \A p, q \in DOMAIN t : ComparisonPath(c, p) = ComparisonPath(c, q) => p = q,
           NEW id, IsIdent(id)
    PROVE  LET S == Symbols(x, c, t)
               k == KeyFor(id)
           IN  /\ id \in Idents(x, c) => k \in DOMAIN S
               /\ Agrees(S, k, Contents(t, x, c, id), Summaries(x, c, id))
<1> DEFINE S == Symbols(x, c, t)
           k == KeyFor(id)
           places == Places(x, c, id)
<1>1. places = DeclarationsOf(x, c, k)
    BY PlacesOfKey
<1>2. DOMAIN S = SymbolKeys(x, c)
    BY DEF Symbols
<1>3. k \in DOMAIN S <=> places # {}
    <2>1. k \in SymbolKeys(x, c) <=>
            \E p \in DOMAIN x : \E i \in DOMAIN x[p].symbols : SymbolKey(c, p, x[p], x[p].symbols[i]) = k
        BY DEF SymbolKeys, Range
    <2>2. ASSUME NEW p \in DOMAIN x, NEW i \in DOMAIN x[p].symbols, SymbolKey(c, p, x[p], x[p].symbols[i]) = k
          PROVE  <<p, i>> \in DeclarationsOf(x, c, k)
        BY <2>2 DEF DeclarationsOf
    <2>3. ASSUME NEW y \in DeclarationsOf(x, c, k)
          PROVE  \E p \in DOMAIN x : \E i \in DOMAIN x[p].symbols : SymbolKey(c, p, x[p], x[p].symbols[i]) = k
        BY DEF DeclarationsOf
    <2> HIDE DEF places
    <2> QED BY <1>1, <1>2, <2>1, <2>2, <2>3
<1>4. ASSUME id \in Idents(x, c) PROVE places # {}
    <2>1. PICK p \in DOMAIN x : \E i \in DOMAIN x[p].symbols : id = Ident(c, p, x[p], x[p].symbols[i])
        BY <1>4 DEF Idents, Range
    <2>2. PICK i \in DOMAIN x[p].symbols : id = Ident(c, p, x[p], x[p].symbols[i])
        BY <2>1
    <2>3. <<p, i>> \in places
        BY <2>2 DEF Places
    <2> QED BY <2>3
<1>5. ASSUME NEW j \in DOMAIN S
      PROVE  \E p \in DOMAIN x : \E i \in DOMAIN x[p].symbols :
                /\ i \in Nat
                /\ \A y \in DeclarationsOf(x, c, j) : y[2] \in Nat /\ y[2] <= i /\ y = <<p, y[2]>>
                /\ SymbolKey(c, p, x[p], x[p].symbols[i]) = j
                /\ S[j] = SymbolEntry(p, x[p], x[p].symbols[i], t)
    BY <1>2, <1>5, KeptEntry
<1>6. ASSUME k \in DOMAIN S PROVE HoldsOne(S, k, Contents(t, x, c, id))
    <2>1. PICK p \in DOMAIN x : \E i \in DOMAIN x[p].symbols :
                /\ i \in Nat
                /\ \A y \in places : y[2] \in Nat /\ y[2] <= i /\ y = <<p, y[2]>>
                /\ SymbolKey(c, p, x[p], x[p].symbols[i]) = k
                /\ S[k] = SymbolEntry(p, x[p], x[p].symbols[i], t)
        BY <1>1, <1>5, <1>6
    <2>2. PICK i \in DOMAIN x[p].symbols :
                /\ i \in Nat
                /\ \A y \in places : y[2] \in Nat /\ y[2] <= i /\ y = <<p, y[2]>>
                /\ SymbolKey(c, p, x[p], x[p].symbols[i]) = k
                /\ S[k] = SymbolEntry(p, x[p], x[p].symbols[i], t)
        BY <2>1
    <2>3. <<p, i>> \in places
        <3>1. <<p, i>> \in DeclarationsOf(x, c, k)
            BY <2>2 DEF DeclarationsOf
        <3> QED BY <1>1, <3>1
    <2> HIDE DEF places
    <2>4. {y \in places : \A z \in places : z[2] <= y[2]} = {<<p, i>>}
        <3>1. ASSUME NEW y \in places, \A z \in places : z[2] <= y[2] PROVE y = <<p, i>>
            <4>1. <<p, i>>[2] <= y[2]
                BY <2>3, <3>1
            <4>2. i <= y[2] /\ y[2] <= i /\ y[2] \in Nat /\ i \in Nat
                BY <2>2, <4>1
            <4> QED BY <2>2, <4>2
        <3>2. \A z \in places : z[2] <= <<p, i>>[2]
            BY <2>2
        <3> QED BY <2>3, <3>1, <3>2
    <2> DEFINE text == Snippet(t[p], x[p].symbols[i])
    <2>5. Contents(t, x, c, id) = {[text |-> text, quality |-> x[p].quality]}
        <3>1. Contents(t, x, c, id) =
                {[text |-> Snippet(t[w[1]], x[w[1]].symbols[w[2]]), quality |-> x[w[1]].quality] : w \in {<<p, i>>}}
            BY <2>4 DEF Contents, places
        <3> QED BY <3>1
    <2>6. p \in DOMAIN t
        BY PartitionOfFile
    <2>7. S[k].fingerprint = [text |-> text, span |-> <<>>, quality |-> x[p].quality]
        BY <2>2, <2>6 DEF SymbolEntry, Fingerprint
    <2> QED BY <2>5, <2>7 DEF HoldsOne
<1>7. ASSUME k \notin DOMAIN S PROVE Contents(t, x, c, id) = {}
    BY <1>3, <1>7 DEF Contents
<1>8. ASSUME NEW j \in DOMAIN S PROVE S[j].summary \in Summaries(x, c, id) <=> j = k
    <2>1. PICK p \in DOMAIN x : \E i \in DOMAIN x[p].symbols :
                /\ SymbolKey(c, p, x[p], x[p].symbols[i]) = j
                /\ S[j] = SymbolEntry(p, x[p], x[p].symbols[i], t)
        BY <1>5
    <2>2. PICK i \in DOMAIN x[p].symbols :
                /\ SymbolKey(c, p, x[p], x[p].symbols[i]) = j
                /\ S[j] = SymbolEntry(p, x[p], x[p].symbols[i], t)
        BY <2>1
    <2>3. S[j].summary = Summary(p, x[p], x[p].symbols[i])
        BY <2>2 DEF SymbolEntry
    <2>4. ASSUME j = k PROVE S[j].summary \in Summaries(x, c, id)
        <3>1. <<p, i>> \in DeclarationsOf(x, c, k)
            BY <2>2, <2>4 DEF DeclarationsOf
        <3>2. <<p, i>> \in Places(x, c, id)
            BY <1>1, <3>1
        <3> QED BY <2>3, <3>2 DEF Summaries
    <2>5. ASSUME S[j].summary \in Summaries(x, c, id) PROVE j = k
        <3>1. PICK w \in DeclarationsOf(x, c, k) : S[j].summary = Summary(w[1], x[w[1]], x[w[1]].symbols[w[2]])
            BY <1>1, <2>5 DEF Summaries
        <3>2. SymbolKey(c, w[1], x[w[1]], x[w[1]].symbols[w[2]]) = k
            BY DEF DeclarationsOf
        <3>3. Summary(p, x[p], x[p].symbols[i]) = Summary(w[1], x[w[1]], x[w[1]].symbols[w[2]])
            BY <2>3, <3>1
        <3>4. \A q, part, s, u, other, r :
                Summary(q, part, s) = Summary(u, other, r) => SymbolKey(c, q, part, s) = SymbolKey(c, u, other, r)
            BY KeyOfSummary
        <3>5. SymbolKey(c, p, x[p], x[p].symbols[i]) = SymbolKey(c, w[1], x[w[1]], x[w[1]].symbols[w[2]])
            BY <3>3, <3>4
        <3> QED BY <2>2, <3>2, <3>5
    <2> QED BY <2>4, <2>5
<1>9. QED
    BY <1>3, <1>4, <1>6, <1>7, <1>8 DEF Agrees

\* What a comparison says of the symbols with certain summaries, and what it should.
Said(B, H, SB, SH) ==
    {x.change : x \in {y \in CompareSymbols(B, H) : y.before \cap SB # {} \/ y.after \cap SH # {}}}
Verdict(old, new) ==
    IF old = new THEN {}
    ELSE IF old = {} THEN {"added"}
    ELSE IF new = {} THEN {"removed"}
    ELSE {"modified"}

\* Two sides that each hold an identity under one key, or not at all, differ in
\* just what the comparison says of it.
LEMMA ExactChange ==
    ASSUME NEW B, NEW H, NEW k, NEW SB, NEW SH, NEW old, NEW new,
           k \in DOMAIN B \/ k \in DOMAIN H, Agrees(B, k, old, SB), Agrees(H, k, new, SH)
    PROVE  Said(B, H, SB, SH) = Verdict(old, new)
<1> DEFINE symbols == CompareSymbols(B, H)
           is(y) == y.before \cap SB # {} \/ y.after \cap SH # {}
           said == {x.change : x \in {y \in symbols : is(y)}}
<1>0. /\ \/ k \in DOMAIN B /\ HoldsOne(B, k, old)
         \/ k \notin DOMAIN B /\ old = {}
      /\ \/ k \in DOMAIN H /\ HoldsOne(H, k, new)
         \/ k \notin DOMAIN H /\ new = {}
      /\ \A j \in DOMAIN B : B[j].summary \in SB <=> j = k
      /\ \A j \in DOMAIN H : H[j].summary \in SH <=> j = k
    BY DEF Agrees
<1>1. \A change, d : is(SymbolChange(change, {}, {d})) <=> d.summary \in SH
    BY DEF SymbolChange
<1>2. \A change, d : is(SymbolChange(change, {d}, {})) <=> d.summary \in SB
    BY DEF SymbolChange
<1>3. \A change, d, f : is(SymbolChange(change, {d}, {f})) <=> d.summary \in SB \/ f.summary \in SH
    BY DEF SymbolChange
<1>4. \A change, before, after : SymbolChange(change, before, after).change = change
    BY DEF SymbolChange
<1> HIDE DEF is
<1>5. ASSUME NEW x \in symbols, is(x)
      PROVE  \/ x.change = "added" /\ k \in DOMAIN H /\ k \notin DOMAIN B
             \/ x.change = "removed" /\ k \in DOMAIN B /\ k \notin DOMAIN H
             \/ x.change = "modified" /\ k \in DOMAIN B \cap DOMAIN H /\ B[k].fingerprint # H[k].fingerprint
    <2>1. CASE \E j \in DOMAIN H \ DOMAIN B : x = SymbolChange("added", {}, {H[j]})
        BY <1>0, <1>1, <1>4, <1>5, <2>1
    <2>2. CASE \E j \in DOMAIN B \ DOMAIN H : x = SymbolChange("removed", {B[j]}, {})
        BY <1>0, <1>2, <1>4, <1>5, <2>2
    <2>3. CASE \E j \in DOMAIN B \cap DOMAIN H :
                    B[j].fingerprint # H[j].fingerprint /\ x = SymbolChange("modified", {B[j]}, {H[j]})
        BY <1>0, <1>3, <1>4, <1>5, <2>3
    <2> QED BY <2>1, <2>2, <2>3 DEF CompareSymbols
<1>6. k \in DOMAIN H /\ k \notin DOMAIN B => "added" \in said
    <2> SUFFICES ASSUME k \in DOMAIN H, k \notin DOMAIN B PROVE "added" \in said
        OBVIOUS
    <2>1. SymbolChange("added", {}, {H[k]}) \in symbols
        BY DEF CompareSymbols
    <2> QED BY <1>0, <1>1, <1>4, <2>1
<1>7. k \in DOMAIN B /\ k \notin DOMAIN H => "removed" \in said
    <2> SUFFICES ASSUME k \in DOMAIN B, k \notin DOMAIN H PROVE "removed" \in said
        OBVIOUS
    <2>1. SymbolChange("removed", {B[k]}, {}) \in symbols
        BY DEF CompareSymbols
    <2> QED BY <1>0, <1>2, <1>4, <2>1
<1>8. k \in DOMAIN B \cap DOMAIN H /\ B[k].fingerprint # H[k].fingerprint => "modified" \in said
    <2> SUFFICES ASSUME k \in DOMAIN B \cap DOMAIN H, B[k].fingerprint # H[k].fingerprint PROVE "modified" \in said
        OBVIOUS
    <2>1. SymbolChange("modified", {B[k]}, {H[k]}) \in symbols
        BY DEF CompareSymbols
    <2> QED BY <1>0, <1>3, <1>4, <2>1
<1> HIDE DEF symbols
<1>9. \A y \in said : \/ y = "added" /\ k \in DOMAIN H /\ k \notin DOMAIN B
                      \/ y = "removed" /\ k \in DOMAIN B /\ k \notin DOMAIN H
                      \/ y = "modified" /\ k \in DOMAIN B \cap DOMAIN H /\ B[k].fingerprint # H[k].fingerprint
    BY <1>5
<1> HIDE DEF said
<1> DEFINE Exact == said = Verdict(old, new)
<1>10. CASE k \in DOMAIN H /\ k \notin DOMAIN B
    <2>1. old = {} /\ new # {}
        BY <1>0, <1>10 DEF HoldsOne
    <2>2. said = {"added"}
        BY <1>6, <1>9, <1>10
    <2>3. Exact
        BY <2>1, <2>2 DEF Verdict
    <2> QED BY <2>3 DEF Said, said, symbols, is
<1>11. CASE k \in DOMAIN B /\ k \notin DOMAIN H
    <2>1. new = {} /\ old # {}
        BY <1>0, <1>11 DEF HoldsOne
    <2>2. said = {"removed"}
        BY <1>7, <1>9, <1>11
    <2>3. Exact
        BY <2>1, <2>2 DEF Verdict
    <2> QED BY <2>3 DEF Said, said, symbols, is
<1>12. CASE k \in DOMAIN B \cap DOMAIN H
    <2>1. old # {} /\ new # {}
        BY <1>0, <1>12 DEF HoldsOne
    <2>2. old = new <=> B[k].fingerprint = H[k].fingerprint
        <3>1. PICK t1, q1 : /\ old = {[text |-> t1, quality |-> q1]}
                            /\ B[k].fingerprint = [text |-> t1, span |-> <<>>, quality |-> q1]
            BY <1>0, <1>12 DEF HoldsOne
        <3>2. PICK t2, q2 : /\ new = {[text |-> t2, quality |-> q2]}
                            /\ H[k].fingerprint = [text |-> t2, span |-> <<>>, quality |-> q2]
            BY <1>0, <1>12 DEF HoldsOne
        <3> DEFINE content(t, q) == [text |-> t, quality |-> q]
                   print(t, q) == [text |-> t, span |-> <<>>, quality |-> q]
        <3>3. \A t, q : /\ content(t, q).text = t /\ content(t, q).quality = q
                        /\ print(t, q).text = t /\ print(t, q).quality = q
            OBVIOUS
        <3>4. old = {content(t1, q1)} /\ new = {content(t2, q2)}
            BY <3>1, <3>2
        <3>5. B[k].fingerprint = print(t1, q1) /\ H[k].fingerprint = print(t2, q2)
            BY <3>1, <3>2
        <3> HIDE DEF content, print
        <3>6. old = new <=> t1 = t2 /\ q1 = q2
            BY <3>3, <3>4
        <3>7. B[k].fingerprint = H[k].fingerprint <=> t1 = t2 /\ q1 = q2
            BY <3>3, <3>5
        <3> QED BY <3>6, <3>7
    <2>3. B[k].fingerprint = H[k].fingerprint => said = {}
        BY <1>9, <1>12
    <2>4. B[k].fingerprint # H[k].fingerprint => said = {"modified"}
        BY <1>8, <1>9, <1>12
    <2>5. Exact
        BY <2>1, <2>2, <2>3, <2>4 DEF Verdict
    <2> QED BY <2>5 DEF Said, said, symbols, is
<1>13. QED
    BY <1>10, <1>11, <1>12

\* Of every symbol, overloads and nested modules included, the report says exactly
\* what happened to it, when the languages indexed are dotted and their scanners
\* leave names bare (build_symbols and compare_symbols in compare.rs).
THEOREM SymbolReportIsExactCorrect ==
    ASSUME DottedOnly
    PROVE  Spec => []SymbolReportIsExact
<1>1. ASSUME DiffInv, report # Nothing, NEW id \in Identities("base") \cup Identities("head")
      PROVE  LET old == Content("base", id)
                 new == Content("head", id)
             IN  SaidOf(id) = IF old = new THEN {}
                              ELSE IF old = {} THEN {"added"}
                              ELSE IF new = {} THEN {"removed"}
                              ELSE {"modified"}
    <2> DEFINE x == indexed["base"]
               y == indexed["head"]
    <2>1. /\ BaseTree \in Trees /\ HeadTree \in Trees
          /\ x \in IndexPath(BaseTree) /\ y \in IndexPath(HeadTree)
        BY <1>1, ReportIsComparison
    <2>2. PICK c \in GitNameStatus(BaseTree, HeadTree) :
                report = CompareRefs(Pair(x, y), c, Pair(BaseTree, HeadTree))
        BY <1>1, ReportIsComparison
    <2>3. report.changes = c
        BY <2>2 DEF CompareRefs
    <2>4. report.symbols = CompareSymbols(Symbols(x, c, BaseTree), Symbols(y, {}, HeadTree))
        BY <2>2 DEF CompareRefs, Pair, Sides
    <2>5. \A p, s : /\ Identity("base", p, s) = Ident(c, p, x[p], s)
                    /\ Identity("head", p, s) = Ident({}, p, y[p], s)
        BY <2>3, ComparedPath DEF Identity, Ident
    <2> HIDE DEF x, y
    <2>6. id \in Idents(x, c) \/ id \in Idents(y, {})
        <3>1. CASE id \in Identities("base")
            <4>1. PICK p \in DOMAIN x : \E s \in Range(x[p].symbols) : id = Identity("base", p, s)
                BY <3>1 DEF Identities, x
            <4> QED BY <2>5, <4>1 DEF Idents
        <3>2. CASE id \in Identities("head")
            <4>1. PICK p \in DOMAIN y : \E s \in Range(y[p].symbols) : id = Identity("head", p, s)
                BY <3>2 DEF Identities, y
            <4> QED BY <2>5, <4>1 DEF Idents
        <3> QED BY <1>1, <3>1, <3>2
    <2>7. /\ PlacesOf("base", id) = Places(x, c, id)
          /\ PlacesOf("head", id) = Places(y, {}, id)
        BY <2>5 DEF PlacesOf, Places, x, y
    <2>8. /\ Content("base", id) = Contents(BaseTree, x, c, id)
          /\ Content("head", id) = Contents(HeadTree, y, {}, id)
        BY <2>7 DEF Content, Contents, TreeOf, BaseTree, HeadTree, x, y
    <2>9. /\ SummariesOf("base", id) = Summaries(x, c, id)
          /\ SummariesOf("head", id) = Summaries(y, {}, id)
        BY <2>7 DEF SummariesOf, Summaries, x, y
    <2>10. IsIdent(id)
        <3>1. CASE id \in Idents(x, c)
            <4>1. PICK p \in DOMAIN x : \E i \in DOMAIN x[p].symbols : id = Ident(c, p, x[p], x[p].symbols[i])
                BY <3>1 DEF Idents, Range
            <4> QED BY <2>1, <4>1, KeyOfSymbol
        <3>2. CASE id \in Idents(y, {})
            <4>1. PICK p \in DOMAIN y : \E i \in DOMAIN y[p].symbols : id = Ident({}, p, y[p], y[p].symbols[i])
                BY <3>2 DEF Idents, Range
            <4> QED BY <2>1, <4>1, KeyOfSymbol
        <3> QED BY <2>6, <3>1, <3>2
    <2> DEFINE B == Symbols(x, c, BaseTree)
               H == Symbols(y, {}, HeadTree)
               k == KeyFor(id)
               old == Contents(BaseTree, x, c, id)
               new == Contents(HeadTree, y, {}, id)
    <2>11. /\ id \in Idents(x, c) => k \in DOMAIN B
           /\ Agrees(B, k, old, Summaries(x, c, id))
        <3>1. \A q, r \in DOMAIN BaseTree : ComparisonPath(c, q) = ComparisonPath(c, r) => q = r
            BY ComparedApart
        <3> QED BY <2>1, <2>10, <3>1, OneSide
    <2>12. /\ id \in Idents(y, {}) => k \in DOMAIN H
           /\ Agrees(H, k, new, Summaries(y, {}, id))
        <3>1. \A q, r \in DOMAIN HeadTree : ComparisonPath({}, q) = ComparisonPath({}, r) => q = r
            BY ComparedPath
        <3> QED BY <2>1, <2>10, <3>1, OneSide
    <2>13. k \in DOMAIN B \/ k \in DOMAIN H
        BY <2>6, <2>11, <2>12
    <2> DEFINE SB == Summaries(x, c, id)
               SH == Summaries(y, {}, id)
    <2> HIDE DEF B, H, k, old, new, SB, SH
    <2>14. Said(B, H, SB, SH) = Verdict(old, new)
        BY <2>11, <2>12, <2>13, ExactChange DEF SB, SH
    <2>15. SaidOf(id) = Said(B, H, SB, SH)
        BY <2>4, <2>9 DEF SaidOf, Said, B, H, SB, SH
    <2> QED BY <2>8, <2>14, <2>15 DEF old, new, Verdict
<1>2. DiffInv => SymbolReportIsExact
    BY <1>1 DEF SymbolReportIsExact
<1>3. QED
    BY <1>2, DiffInvariant, PTL
=============================================================================
