----------------------------- MODULE MCRefDiff ------------------------------
(***************************************************************************)
(* Instances of RefDiff for TLC.  Classes with methods of the same name,   *)
(* one of which changes or moves, overloads among them; a function that    *)
(* others call; a caller; a test; a file of no known language.             *)
(***************************************************************************)
EXTENDS RefDiff

Decl(inner, kind, first, last) ==
    [inner |-> inner, kind |-> kind, span |-> <<first, last>>, seen |-> kind]
File(language, lines, decls, exports, calls, imports) ==
    [language |-> language, lines |-> lines, decls |-> decls, exports |-> exports,
     calls |-> calls, imports |-> imports, errors |-> 0]

\* A class whose first line is "at", its methods all called "run".
ClassAt(at, class, methods) ==
    <<Decl(<<class>>, "class", at, at + Len(methods) + 1)>>
    \o [i \in DOMAIN methods |-> Decl(<<class, "run">>, "method", at + i, at + i)]
ClassLines(class, methods) == <<class>> \o methods \o <<"end">>

TwoClasses(language, c, m, d, n) ==
    File(language, ClassLines(c, m) \o ClassLines(d, n),
         ClassAt(1, c, m) \o ClassAt(Len(m) + 3, d, n), {"A", "B"}, {}, {})

Classes(language) == TwoClasses(language, "A", <<"1">>, "B", <<"1">>)
Changed(language) == TwoClasses(language, "A", <<"2">>, "B", <<"1">>)
Swapped == TwoClasses("ts", "B", <<"1">>, "A", <<"1">>)
\* Two overloads, the first or the second of which changes.
Overloaded(first, second) == TwoClasses("ts", "A", <<first, second>>, "B", <<"1">>)
\* A function below a nested module.
Library == File("ts", <<"module", "pub go">>, <<Decl(<<"m">>, "module", 1, 1), Decl(<<"go">>, "function", 2, 2)>>,
                {}, {}, {})
Caller == File("ts", <<"call">>, <<>>, {}, {"go"}, {"pkg"})
LocalCaller == File("ts", <<"go", "go again", "call">>,
                    <<Decl(<<"go">>, "function", 1, 1), Decl(<<"go">>, "function", 2, 2)>>, {}, {"go"}, {})
Broken == [Caller EXCEPT !.calls = {"run"}, !.imports = {}, !.errors = 1]
Data == File("unknown", <<"data">>, <<>>, {}, {}, {})

Lib == "src/lib"
New == "src/new"
Test == "src/app_test"
MCStem(p) == CASE p = Lib -> "lib" [] p = New -> "new" [] p = Test -> "app"
MCPathRank(p) == CASE p = Test -> 1 [] p = Lib -> 2 [] p = New -> 3
MCTestPaths == {Test}
MCSlow == {New}
MCUnread == {Test}
MCPublicLines == {"pub go"}

\* A library under its old name or its new one, alone or with a caller; both
\* names at once; the caller alone.
MCTrees ==
    {Lib :> file : file \in {Swapped, Data, Overloaded("1", "2"), Overloaded("3", "2"), Overloaded("1", "3")}}
    \cup {New :> Classes("ts"), New :> Changed("js"), Test :> Broken}
    \cup {(Lib :> file) @@ (Test :> Caller) : file \in {Classes("ts"), Library}}
    \cup {(Lib :> Library) @@ (Test :> LocalCaller), (Lib :> Library) @@ (New :> Classes("ts"))}

\* The two commits are alike.
Commits_Symmetry == Permutations(Commits)
=============================================================================
