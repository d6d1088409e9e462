----------------------------- MODULE GraphDiff ------------------------------
(***************************************************************************)
(* compare_refs and summarize_for_agent of the aci-diff crate: the report  *)
(* on two indexed trees, and the summary of a report.                      *)
(*                                                                         *)
(* A tree maps the path of each file to [language, lines, decls, exports,  *)
(* calls, imports, errors].  "decls" are its declarations in source order, *)
(* each [inner, kind, span, seen]: the names around it and its own, its    *)
(* symbol kind, its first and last line, and the kind the scanner takes it *)
(* for ("none" when its patterns miss it).  "exports", "calls", "imports"  *)
(* and "errors" are the names it exports and calls, the specifiers it      *)
(* imports, and the number of its syntax errors.                           *)
(*                                                                         *)
(* An index maps the path of each partition to [language, quality, stem,   *)
(* symbols, exports, calls, imports, diagnostics]; "symbols" maps places   *)
(* in source order to symbols, each [inner, kind, span], the qualified     *)
(* name of which is "stem" followed by "inner".                            *)
(***************************************************************************)
EXTENDS Naturals, Sequences, SequencesExt, FiniteSetsExt

CONSTANTS
    Stem(_),         \* the file name of a path without its extension
    PathRank(_),     \* the place of a path in alphabetical order
    Dotted,          \* the languages whose qualified names are written with "." and not "::"
    ScopedScanners,  \* the languages whose scanner qualifies names
    CallScanners,    \* the languages whose scanner sees calls
    PublicLines,     \* the lines that begin with pub or export
    Slow,            \* the paths of files the parser may give up
    Unread,          \* the paths of files reading may fail for
    TestPaths,       \* the paths is_test_path answers true for
    ManyChanges,     \* the number of important changes that is still a low risk
    MaxTopChanges    \* the number of paths a summary lists

\* One file of git's --name-status; "old" is empty unless it was renamed.
FileChange(change, path, old) == [change |-> change, path |-> path, old |-> old]
PathsOf(changes) == {c.path : c \in changes}

\* git's answer for two trees: a file that is gone and a new one of similar
\* content may be told as a rename, and are unless one of them is already.
Similar(old, new) == Range(old.lines) \cap Range(new.lines) # {}

Pairings(gone, new, base, head) ==
    LET pairs == {r \in gone \X new : Similar(base[r[1]], head[r[2]])}
        apart(q, r) == q[1] # r[1] /\ q[2] # r[2]
        clean(R) == \A q, r \in R : q = r \/ apart(q, r)
    IN  {R \in SUBSET pairs : clean(R) /\ \A q \in pairs \ R : ~clean(R \cup {q})}

GitNameStatus(base, head) ==
    LET gone == DOMAIN base \ DOMAIN head
        new == DOMAIN head \ DOMAIN base
        kept == {p \in DOMAIN base \cap DOMAIN head : base[p] # head[p]}
    IN  {{FileChange("renamed", r[2], {r[1]}) : r \in R}
         \cup {FileChange("removed", p, {}) : p \in gone \ {r[1] : r \in R}}
         \cup {FileChange("added", p, {}) : p \in new \ {r[2] : r \in R}}
         \cup {FileChange("modified", p, {}) : p \in kept}
         : R \in Pairings(gone, new, base, head)}

-----------------------------------------------------------------------------
\* index_path: a partition of each file of a known language, from its syntax
\* tree or, when there is none, from its lines; none when it cannot be read.

Fact(inner, kind, span) == [inner |-> inner, kind |-> kind, span |-> span]

\* The whole file is the first symbol of its tree.
Parsed(path, file) ==
    [language |-> file.language, quality |-> "tree-sitter", stem |-> <<Stem(path)>>,
     symbols |-> [i \in 0 .. Len(file.decls) |->
                     IF i = 0 THEN Fact(<<>>, "module", <<1, Len(file.lines)>>)
                     ELSE LET d == file.decls[i] IN Fact(d.inner, d.kind, d.span)],
     exports |-> file.exports, calls |-> file.calls, imports |-> file.imports,
     diagnostics |-> file.errors]

\* The scanner knows lines and no module; why the parser gave up is its one
\* diagnostic.
Scanned(path, file) ==
    LET seen == {i \in DOMAIN file.decls : file.decls[i].seen # "none"}
        inner(d) == IF file.language \in ScopedScanners THEN d.inner ELSE <<Last(d.inner)>>
    IN  [language |-> file.language, quality |-> "structural-scanner", stem |-> <<>>,
         symbols |-> [i \in seen |->
                         LET d == file.decls[i] IN Fact(inner(d), d.seen, <<d.span[1], d.span[1]>>)],
         exports |-> file.exports,
         calls |-> IF file.language \in CallScanners THEN file.calls ELSE {},
         imports |-> file.imports, diagnostics |-> 1]

IndexFile(path, file) ==
    IF path \in Slow THEN {Parsed(path, file), Scanned(path, file)} ELSE {Parsed(path, file)}

IndexPath(tree) ==
    LET sources == {p \in DOMAIN tree : tree[p].language # "unknown"}
        readings == {sources \ U : U \in SUBSET (Unread \cap sources)}
    IN  UNION {{i \in [R -> UNION {IndexFile(p, tree[p]) : p \in R}] :
                    \A p \in R : i[p] \in IndexFile(p, tree[p])} : R \in readings}

\* What the adapters say of a symbol.
IsModule(s) == s.kind = "module"
QualifiedName(part, s) == part.stem \o s.inner
SimpleName(part, s) == Last(QualifiedName(part, s))

\* resolve_local_edges: a call of a name declared in the same file points to
\* the first such declaration, any other call to an external name.
CallLabel(part, name) ==
    LET local == {i \in DOMAIN part.symbols : SimpleName(part, part.symbols[i]) = name}
    IN  IF part.quality = "structural-scanner" \/ local = {} THEN <<name>>
        ELSE QualifiedName(part, part.symbols[Min(local)])

EdgeLabels(part) == {CallLabel(part, name) : name \in part.calls} \cup {<<s>> : s \in part.imports}

-----------------------------------------------------------------------------
\* SnapshotIndex.  A source is the tree in a worktree, or no file at all when
\* the worktree is gone.

\* rename_map: the paths of the base tree are compared under their new name.
ComparisonPath(changes, path) ==
    LET to == {c.path : c \in {x \in changes : x.change = "renamed" /\ x.old = {path}}}
    IN  IF to = {} THEN path ELSE CHOOSE p \in to : TRUE

\* strip_file_module splits at the first dot.
ScopedName(part, s) ==
    LET qualified == QualifiedName(part, s) IN
    IF IsModule(s) THEN <<"$module">>
    ELSE IF part.language \in Dotted /\ Len(qualified) > 1 THEN Tail(qualified)
    ELSE <<SimpleName(part, s)>>

\* Mutations.  Each operator named ..._Mut... is a plausible wrong version of the
\* definition that follows it; PROJECT.json names the property it breaks.
SymbolKey_MutOldPath(changes, path, part, s) ==
    [file |-> path, language |-> part.language, kind |-> s.kind, name |-> ScopedName(part, s)]

SymbolKey(changes, path, part, s) ==
    [file |-> ComparisonPath(changes, path), language |-> part.language,
     kind |-> s.kind, name |-> ScopedName(part, s)]

Snippet(file, s) == SubSeq(file.lines, s.span[1], s.span[2])

IsPublic(path, part, s, source) ==
    \/ SimpleName(part, s) \in part.exports
    \/ path \in DOMAIN source /\ Head(Snippet(source[path], s)) \in PublicLines

Summary(path, part, s) ==
    [file |-> path, language |-> part.language, kind |-> s.kind,
     name |-> SimpleName(part, s), qualified |-> QualifiedName(part, s)]

\* The fingerprint is the text of the span, or the place of the span when the
\* source cannot be read again, and how the fact was found.
Fingerprint(path, part, s, source) ==
    [text |-> IF path \in DOMAIN source THEN Snippet(source[path], s) ELSE <<>>,
     span |-> IF path \in DOMAIN source THEN <<>> ELSE s.span,
     quality |-> part.quality]

SymbolEntry(path, part, s, source) ==
    [summary |-> Summary(path, part, s),
     fingerprint |-> Fingerprint(path, part, s, source),
     public |-> IsPublic(path, part, s, source)]

\* build_symbols: of several declarations with one key the last one is kept.
DeclarationsOf(index, changes, key) ==
    UNION {{<<p, i>> : i \in {j \in DOMAIN index[p].symbols :
                                 SymbolKey(changes, p, index[p], index[p].symbols[j]) = key}}
            : p \in DOMAIN index}

LastOf(places) == CHOOSE x \in places : \A y \in places : y[2] <= x[2]

SymbolKeys(index, changes) ==
    UNION {{SymbolKey(changes, p, index[p], s) : s \in Range(index[p].symbols)} : p \in DOMAIN index}

Symbols(index, changes, source) ==
    [k \in SymbolKeys(index, changes) |->
        LET last == LastOf(DeclarationsOf(index, changes, k))
        IN  SymbolEntry(last[1], index[last[1]], index[last[1]].symbols[last[2]], source)]

Dependencies(index, changes) ==
    UNION {{[file |-> ComparisonPath(changes, p), dependency |-> <<s>>] : s \in index[p].imports}
            : p \in DOMAIN index}

-----------------------------------------------------------------------------
\* compare_refs.

Risk(change, public) ==
    IF change = "removed" /\ public THEN "high"
    ELSE IF change # "removed" /\ ~public THEN "low"
    ELSE "medium"

\* "before" and "after" hold one summary or none.
SymbolChange(change, before, after) ==
    LET public == \E e \in before \cup after : e.public
    IN  [change |-> change, public |-> public, risk |-> Risk(change, public),
         before |-> {e.summary : e \in before}, after |-> {e.summary : e \in after}]

CompareSymbols(base, head) ==
    {SymbolChange("added", {}, {head[k]}) : k \in DOMAIN head \ DOMAIN base}
    \cup {SymbolChange("removed", {base[k]}, {}) : k \in DOMAIN base \ DOMAIN head}
    \cup {SymbolChange("modified", {base[k]}, {head[k]}) :
            k \in {x \in DOMAIN base \cap DOMAIN head : base[x].fingerprint # head[x].fingerprint}}

CompareDependencies(base, head) ==
    {[change |-> "added", entry |-> d] : d \in head \ base}
    \cup {[change |-> "removed", entry |-> d] : d \in base \ head}

ChangedLabels_MutNewNamesOnly(symbols, dependencies) ==
    (UNION {{<<s.name>>, s.qualified} : s \in UNION {c.after : c \in symbols}})
    \cup {d.entry.dependency : d \in dependencies}

ChangedLabels(symbols, dependencies) ==
    (UNION {{<<s.name>>, s.qualified} : s \in UNION {c.before \cup c.after : c \in symbols}})
    \cup {d.entry.dependency : d \in dependencies}

FilesUsing(index, labels) == {p \in DOMAIN index : EdgeLabels(index[p]) \cap labels # {}}

ImpactedFiles(indexed, changes, symbols, dependencies) ==
    LET labels == ChangedLabels(symbols, dependencies)
    IN  PathsOf(changes) \cup FilesUsing(indexed["base"], labels) \cup FilesUsing(indexed["head"], labels)

CompareRefs(indexed, changes, sources) ==
    LET symbols == CompareSymbols(Symbols(indexed["base"], changes, sources["base"]),
                                  Symbols(indexed["head"], {}, sources["head"]))
        dependencies == CompareDependencies(Dependencies(indexed["base"], changes),
                                            Dependencies(indexed["head"], {}))
    IN  [changes |-> changes, symbols |-> symbols, dependencies |-> dependencies,
         impacted |-> ImpactedFiles(indexed, changes, symbols, dependencies),
         diagnostics |-> [s \in DOMAIN indexed |->
                             [p \in DOMAIN indexed[s] |-> indexed[s][p].diagnostics]]]

-----------------------------------------------------------------------------
\* summarize_for_agent.

ImportantSymbols(report) ==
    {s \in report.symbols : s.public \/ s.risk # "low" \/ s.change \in {"added", "removed"}}

FileRisk(c) ==
    IF c.path \in TestPaths THEN "low" ELSE IF c.change = "removed" THEN "high" ELSE "medium"

\* symbol_path: where the symbol is now, or was when it is gone.
SymbolPath(s) == (CHOOSE x \in (IF s.after # {} THEN s.after ELSE s.before) : TRUE).file

\* The number of diagnostics of a path.
DiagnosticsAt(report, path) ==
    LET on(s) == IF path \in DOMAIN report.diagnostics[s] THEN report.diagnostics[s][path] ELSE 0
    IN  on("base") + on("head")

\* The risks top_changes puts together for each path it ranks; diagnostics count
\* for paths that are ranked anyway.
PathRisks(report, path) ==
    {FileRisk(c) : c \in {x \in report.changes : x.path = path}}
    \cup {s.risk : s \in {x \in ImportantSymbols(report) : SymbolPath(x) = path}}
    \cup {"medium" : d \in {x \in report.dependencies : x.entry.file = path}}
    \cup {"medium" : n \in {x \in {DiagnosticsAt(report, path)} : x > 0}}

RankedPaths(report) ==
    PathsOf(report.changes)
    \cup {SymbolPath(s) : s \in ImportantSymbols(report)}
    \cup {d.entry.file : d \in report.dependencies}

\* symbol_score; the risk of a symbol follows from the rest.
RiskScore(risk) == IF risk = "high" THEN 20 ELSE IF risk = "medium" THEN 10 ELSE 1
SymbolScore(change, public) ==
    RiskScore(Risk(change, public)) + (IF public THEN 10 ELSE 0)
    + (IF change = "removed" THEN 8 ELSE IF change = "added" THEN 5 ELSE 3)

\* What a path scores for its files, symbols, dependencies and diagnostics.
PathScore(report, path) ==
    LET files(kinds) == Cardinality({c \in report.changes : c.path = path /\ c.change \in kinds})
        symbols(change, public) ==
            SymbolScore(change, public)
            * Cardinality({s \in ImportantSymbols(report) :
                             SymbolPath(s) = path /\ s.change = change /\ s.public = public})
        all(change) == symbols(change, TRUE) + symbols(change, FALSE)
    IN  12 * files({"removed"}) + 8 * files({"added", "renamed"}) + 2 * files({"modified"})
        + all("removed") + all("added") + all("modified")
        + 8 * Cardinality({d \in report.dependencies : d.entry.file = path})
        + 6 * DiagnosticsAt(report, path)

Outranks(report, p, q) ==
    \/ PathScore(report, p) > PathScore(report, q)
    \/ PathScore(report, p) = PathScore(report, q) /\ PathRank(p) < PathRank(q)

\* The paths that are listed: fewer than the list holds come before them.
TopPaths_MutByPath(report) ==
    {p \in RankedPaths(report) :
        Cardinality({q \in RankedPaths(report) \ {p} : PathRank(q) < PathRank(p)}) < MaxTopChanges}

TopPaths(report) ==
    {p \in RankedPaths(report) :
        Cardinality({q \in RankedPaths(report) \ {p} : Outranks(report, q, p)}) < MaxTopChanges}

PublicChanges(report) == {s \in report.symbols : s.public}

OverallRisk_MutCountsTests(report) ==
    IF \/ \E s \in PublicChanges(report) : s.risk = "high"
       \/ \E c \in report.changes : c.change = "removed"
    THEN "high"
    ELSE "medium"

OverallRisk(report) ==
    IF \/ \E s \in PublicChanges(report) : s.risk = "high"
       \/ \E c \in report.changes : c.change = "removed" /\ c.path \notin TestPaths
    THEN "high"
    ELSE IF \/ PublicChanges(report) # {}
            \/ report.dependencies # {}
            \/ \E p \in PathsOf(report.changes) : DiagnosticsAt(report, p) > 0
            \/ PathsOf(report.changes) \cap TestPaths = {}
            \/ Cardinality(ImportantSymbols(report)) > ManyChanges
         THEN "medium"
         ELSE "low"
=============================================================================
