------------------------------ MODULE RefDiff -------------------------------
(***************************************************************************)
(* The diff command with its comparison: what a report and the summary of  *)
(* a report say about the two trees.                                       *)
(***************************************************************************)
EXTENDS DiffRun, GraphDiff

\* git, the indexer and the comparison are those of GraphDiff.
ASSUME ComparisonAssumption ==
    \A t, u \in Trees :
        /\ NameStatus(t, u) = GitNameStatus(t, u)
        /\ Indexings(t) = IndexPath(t)
        /\ \A i \in IndexPath(t), j \in IndexPath(u), c \in NameStatus(t, u) :
              Compare(Pair(i, j), c, Pair(t, u)) = CompareRefs(Pair(i, j), c, Pair(t, u))

\* A tree has finitely many files; their declarations are a list, with names
\* that are lists, and they import finitely many specifiers.
ASSUME TreesAssumption ==
    \A t \in Trees :
        /\ IsFiniteSet(DOMAIN t)
        /\ \A p \in DOMAIN t :
              LET decls == t[p].decls IN
              /\ decls \in Seq(Range(decls))
              /\ \A d \in Range(decls) : d.inner \in Seq(Range(d.inner)) /\ d.inner # <<>>
              /\ IsFiniteSet(t[p].imports)
              /\ t[p].errors \in Nat

\* A list has room for one path.
ASSUME MaxTopChangesAssumption == MaxTopChanges \in Nat \ {0}

BaseTree == tree[commit["base"]]
HeadTree == tree[commit["head"]]
TreeOf(side) == tree[commit[side]]

\* A symbol apart from its text: the file as git follows it, its language, its
\* kind and its name below the file.  A file is one module, whatever it declares.
Identity(side, p, s) ==
    <<IF side = "base" THEN ComparisonPath(report.changes, p) ELSE p,
      indexed[side][p].language, s.kind, IF IsModule(s) THEN <<>> ELSE s.inner>>

\* The symbols of an identity, by path and place.
PlacesOf(side, id) ==
    UNION {{<<p, i>> : i \in {j \in DOMAIN indexed[side][p].symbols :
                                 Identity(side, p, indexed[side][p].symbols[j]) = id}}
            : p \in DOMAIN indexed[side]}

Identities(side) ==
    UNION {{Identity(side, p, s) : s \in Range(indexed[side][p].symbols)} : p \in DOMAIN indexed[side]}

\* The text of the last symbol of an identity and how it was found; nothing when
\* the side has none.
Content(side, id) ==
    LET places == PlacesOf(side, id)
    IN  {[text |-> Snippet(TreeOf(side)[x[1]], indexed[side][x[1]].symbols[x[2]]),
          quality |-> indexed[side][x[1]].quality]
            : x \in {y \in places : \A z \in places : z[2] <= y[2]}}

\* What the report says of an identity, by the summaries it shows.
SummariesOf(side, id) ==
    {Summary(x[1], indexed[side][x[1]], indexed[side][x[1]].symbols[x[2]]) : x \in PlacesOf(side, id)}
SaidOf(id) ==
    LET before == SummariesOf("base", id)
        after == SummariesOf("head", id)
    IN  {c.change : c \in {x \in report.symbols : x.before \cap before # {} \/ x.after \cap after # {}}}

\* Of every symbol the indexes hold, identified by relative path, language, kind
\* and qualified name, the report says exactly what happened to it: added,
\* removed, modified when its own text or the quality of its fact differs, and
\* nothing when it only moved, within its file or with it; of overloads it is
\* the last that counts (docs/diff.md, "Current Limits"; the tests
\* does_not_collapse_same_named_methods_in_one_file and
\* treats_renamed_files_as_file_changes_without_symbol_churn).
SymbolReportIsExact ==
    report # Nothing =>
        \A id \in Identities("base") \cup Identities("head") :
            LET old == Content("base", id)
                new == Content("head", id)
            IN  SaidOf(id) = IF old = new THEN {}
                             ELSE IF old = {} THEN {"added"}
                             ELSE IF new = {} THEN {"removed"}
                             ELSE {"modified"}

\* A file that was seen to call a name, on either side, is reported as impacted
\* when some symbol of that name was reported and none of its own hides it
\* (docs/diff.md: "Impacted files that changed directly or
\* reference/import/call changed names").
CallersAreImpacted ==
    report # Nothing =>
        \A c \in report.symbols : \A s \in c.before \cup c.after :
            \A side \in Sides : \A p \in DOMAIN indexed[side] :
                LET part == indexed[side][p] IN
                /\ s.name \in part.calls
                /\ \A x \in Range(part.symbols) : SimpleName(part, x) # s.name
                => p \in report.impacted

\* The overall risk of the agent summary is high exactly when one of the paths
\* it ranks is, although the two are computed from different lists; and a path of
\* high risk is cut from the list only when there are more paths than it holds,
\* in favour of paths that all score at least as much.
HighRiskIsShown ==
    report # Nothing =>
        LET high == {p \in RankedPaths(report) : "high" \in PathRisks(report, p)}
        IN  /\ OverallRisk(report) = "high" <=> high # {}
            /\ \A p \in high \ TopPaths(report) :
                  /\ Cardinality(RankedPaths(report)) > MaxTopChanges
                  /\ \A q \in TopPaths(report) : PathScore(report, q) >= PathScore(report, p)

\* The paths git speaks of, new and old.
Touched(c) == PathsOf(c) \cup UNION {x.old : x \in c}

\* The indexer made something else of the file, or of one side nothing at all.
IndexedDifferently(p) ==
    LET made(side) == {indexed[side][q] : q \in {p} \cap DOMAIN indexed[side]}
    IN  made("base") # made("head")

\* Every path the summary ranks is a file git says changed, or the old name of
\* one, or a file that is the same on both sides but was parsed on one and
\* skipped or scanned on the other: else a symbol never changes in a file that
\* did not.
RankedFilesChanged ==
    report # Nothing =>
        \A p \in RankedPaths(report) \ Touched(report.changes) :
            /\ p \in DOMAIN BaseTree \cap DOMAIN HeadTree
            /\ BaseTree[p] = HeadTree[p]
            /\ IndexedDifferently(p)
=============================================================================
