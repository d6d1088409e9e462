------------------------------ MODULE DiffRun -------------------------------
(***************************************************************************)
(* "aci diff": diff_refs of the aci-diff crate, step by step.  Both refs   *)
(* are resolved to commits, git lists the files that differ, two detached  *)
(* worktrees are made in a temporary directory and indexed, the two graphs *)
(* are compared, and what was made is removed again.  Every step may fail; *)
(* the error is returned after the values that exist by then are dropped.  *)
(* Others use the repository meanwhile and may move the refs.              *)
(***************************************************************************)
CONSTANTS
    Commits,              \* the commits of the repository
    Trees,                \* the trees a commit may have
    NameStatus(_, _),     \* what "git diff --name-status -M" may answer for two trees
    Indexings(_),         \* the indexes that may come of a tree: files may be skipped or degraded
    Compare(_, _, _),     \* the report on two indexes, the file changes and the sources
    Nothing               \* the value of what is not there yet

VARIABLES
    tree,      \* the tree of each commit; never changes
    refs,      \* the commit each of the two refs names
    phase,     \* the step the command is at
    commit,    \* the commit each ref was resolved to
    changes,   \* the files git says differ
    present,   \* what the command made and still exists
    guards,    \* what will be removed when it is dropped
    stuck,     \* what could not be removed
    checkout,  \* the commit in each worktree
    indexed,   \* the index of each side
    report     \* the report

vars == <<tree, refs, phase, commit, changes, present, guards, stuck, checkout, indexed, report>>
resources == <<present, guards, stuck>>

Sides == {"base", "head"}
Pair(base, head) == [s \in Sides |-> IF s = "base" THEN base ELSE head]
Unknown == [s \in Sides |-> Nothing]

\* What can be read in the worktree of a side: nothing when it is gone.
NoFiles == <<>>
Sources == [s \in Sides |-> IF s \in present THEN tree[checkout[s]] ELSE NoFiles]

Phases ==
    {"resolve base", "resolve head", "name status", "temp dir", "add base", "add head",
     "index base", "index head", "compare", "dropping", "returned"}
-----------------------------------------------------------------------------
Init ==
    /\ tree \in [Commits -> Trees]
    /\ refs \in [Sides -> Commits]
    /\ phase = "resolve base"
    /\ commit = Unknown
    /\ changes = Nothing
    /\ present = {} /\ guards = {} /\ stuck = {}
    /\ checkout = Unknown
    /\ indexed = Unknown
    /\ report = Nothing

\* Another process commits to a branch, moves or resets it.
MoveRef(s, c) ==
    /\ refs' = [refs EXCEPT ![s] = c]
    /\ UNCHANGED <<tree, phase, commit, changes, resources, checkout, indexed, report>>

\* resolve_ref

Resolve(s, from, to) ==
    /\ phase = from
    /\ phase' = to
    /\ commit' = [commit EXCEPT ![s] = refs[s]]
    /\ UNCHANGED <<tree, refs, changes, resources, checkout, indexed, report>>

ResolveBase == Resolve("base", "resolve base", "resolve head")
ResolveHead == Resolve("head", "resolve head", "name status")

\* diff_name_status
DiffNameStatus ==
    /\ phase = "name status"
    /\ phase' = "temp dir"
    /\ changes' \in NameStatus(tree[commit["base"]], tree[commit["head"]])
    /\ UNCHANGED <<tree, refs, commit, resources, checkout, indexed, report>>

\* checkout_pair

MakeTempDir ==
    /\ phase = "temp dir"
    /\ phase' = "add base"
    /\ present' = present \cup {"temp"}
    /\ guards' = guards \cup {"temp"}
    /\ UNCHANGED <<tree, refs, commit, changes, stuck, checkout, indexed, report>>

\* Mutations.  Each operator named ..._Mut... is a plausible wrong version of the
\* definition that follows it; PROJECT.json names the property it breaks.
AddWorktree_MutIgnoresError(s, from, to) ==
    /\ phase = from
    /\ phase' = to
    /\ \/ present' = present \cup {s}
       \/ UNCHANGED present
    /\ guards' = guards \cup {s}
    /\ checkout' = [checkout EXCEPT ![s] = commit[s]]
    /\ UNCHANGED <<tree, refs, commit, changes, stuck, indexed, report>>

AddWorktree_MutLateGuard(s, from, to) ==
    /\ phase = from
    /\ phase' = to
    /\ present' = present \cup {s}
    /\ guards' = IF s = "base" THEN guards ELSE guards \cup Sides
    /\ checkout' = [checkout EXCEPT ![s] = commit[s]]
    /\ UNCHANGED <<tree, refs, commit, changes, stuck, indexed, report>>

AddWorktree_MutChecksOutRef(s, from, to) ==
    /\ phase = from
    /\ phase' = to
    /\ present' = present \cup {s}
    /\ guards' = guards \cup {s}
    /\ checkout' = [checkout EXCEPT ![s] = refs[s]]
    /\ UNCHANGED <<tree, refs, commit, changes, stuck, indexed, report>>

AddWorktree(s, from, to) ==
    /\ phase = from
    /\ phase' = to
    /\ present' = present \cup {s}
    /\ guards' = guards \cup {s}
    /\ checkout' = [checkout EXCEPT ![s] = commit[s]]
    /\ UNCHANGED <<tree, refs, commit, changes, stuck, indexed, report>>

AddBase == AddWorktree("base", "add base", "add head")
AddHead == AddWorktree("head", "add head", "index base")

\* index_ref: the index of a tree is not a function of it, since the parser's
\* time is limited and a file may not be read.
IndexRef(s, from, to) ==
    /\ phase = from
    /\ phase' = to
    /\ \E i \in Indexings(tree[checkout[s]]) : indexed' = [indexed EXCEPT ![s] = i]
    /\ UNCHANGED <<tree, refs, commit, changes, resources, checkout, report>>

IndexBase_MutDropsWorktree ==
    /\ phase = "index base"
    /\ phase' = "index head"
    /\ \E i \in Indexings(tree[checkout["base"]]) : indexed' = [indexed EXCEPT !["base"] = i]
    /\ present' = present \ {"base"}
    /\ guards' = guards \ {"base"}
    /\ UNCHANGED <<tree, refs, commit, changes, stuck, checkout, report>>

IndexBase == IndexRef("base", "index base", "index head")
IndexHead == IndexRef("head", "index head", "compare")

\* compare_refs reads the sources again, from the worktrees.
CompareGraphs ==
    /\ phase = "compare"
    /\ phase' = "dropping"
    /\ report' = Compare(indexed, changes, Sources)
    /\ UNCHANGED <<tree, refs, commit, changes, resources, checkout, indexed>>

\* A git command, the temporary directory or an index run fails.
Fail ==
    /\ phase \notin {"compare", "dropping", "returned"}
    /\ phase' = "dropping"
    /\ UNCHANGED <<tree, refs, commit, changes, resources, checkout, indexed, report>>

\* The guards are dropped in the order of their fields, the base worktree
\* first and the directory of both last.  A failing removal is ignored.
Drop(g) ==
    /\ phase = "dropping"
    /\ g \in guards
    /\ g = "head" => "base" \notin guards
    /\ g = "temp" => guards = {"temp"}
    /\ guards' = guards \ {g}
    /\ \/ present' = present \ {g} /\ UNCHANGED stuck
       \/ stuck' = stuck \cup {g} /\ UNCHANGED present
    /\ UNCHANGED <<tree, refs, phase, commit, changes, checkout, indexed, report>>

Return ==
    /\ phase = "dropping"
    /\ guards = {}
    /\ phase' = "returned"
    /\ UNCHANGED <<tree, refs, commit, changes, resources, checkout, indexed, report>>

Next ==
    \/ \E s \in Sides, c \in Commits : MoveRef(s, c)
    \/ ResolveBase
    \/ ResolveHead
    \/ DiffNameStatus
    \/ MakeTempDir
    \/ AddBase
    \/ AddHead
    \/ IndexBase
    \/ IndexHead
    \/ CompareGraphs
    \/ Fail
    \/ \E g \in Sides \cup {"temp"} : Drop(g)
    \/ Return

Spec == Init /\ [][Next]_vars
-----------------------------------------------------------------------------
\* Every variable has its type; a commit is known before it is checked out.
TypeOK ==
    /\ tree \in [Commits -> Trees]
    /\ refs \in [Sides -> Commits]
    /\ phase \in Phases
    /\ commit \in [Sides -> Commits \cup {Nothing}]
    /\ checkout \in [Sides -> Commits \cup {Nothing}]
    /\ indexed \in [Sides -> (UNION {Indexings(t) : t \in Trees}) \cup {Nothing}]
    /\ present \subseteq Sides \cup {"temp"}
    /\ guards \subseteq present
    /\ stuck \subseteq present

\* A run that returned, with a report or with an error from any step, left
\* nothing behind except what could not be removed (docs/diff.md: "removes
\* them before returning").
NothingLeftBehind == phase = "returned" => present = stuck

\* However the refs are moved meanwhile, a report speaks of one pair of commits:
\* file list, indexes and sources are all of the commits the refs named when
\* they were resolved.
ReportIsOfResolvedPair ==
    report # Nothing =>
        LET base == tree[commit["base"]]
            head == tree[commit["head"]]
        IN  /\ indexed["base"] \in Indexings(base) /\ indexed["head"] \in Indexings(head)
            /\ \E c \in NameStatus(base, head) : report = Compare(indexed, c, Pair(base, head))
=============================================================================
