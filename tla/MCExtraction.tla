---------------------------- MODULE MCExtraction ----------------------------
(***************************************************************************)
(* Instances of Extraction for TLC: one small file per adapter or two,     *)
(* with nested scopes, methods, shadowed names, names declared twice, a    *)
(* nameless class and syntax errors.                                       *)
(***************************************************************************)
EXTENDS Extraction

\* Rows of a tree: kind, parent, field, text; imports and exports if any.
Row(row) ==
    [kind |-> row[1], parent |-> row[2], field |-> row[3], text |-> row[4],
     named |-> row[1] # "anonymous", error |-> row[1] \in {"ERROR", "MISSING"} \/ row[3] = "missing",
     items |-> IF Len(row) > 4 THEN row[5] ELSE <<>>, names |-> IF Len(row) > 5 THEN row[6] ELSE <<>>]
Tree(rows) == [i \in DOMAIN rows |-> Row(rows[i])]
Item(specifier, alias) == [specifier |-> specifier, alias |-> alias]

Line == [indent |-> 0, blank |-> FALSE, import |-> None, type |-> None, function |-> None, symbol |-> None,
         export |-> None, declaration |-> FALSE, calls |-> <<>>]
At(indent) == [Line EXCEPT !.indent = indent]
Def(indent, name) == [At(indent) EXCEPT !.symbol = [name |-> <<name>>, kind |-> "function"]]
Calls(indent, names) == [At(indent) EXCEPT !.calls = [i \in DOMAIN names |-> <<names[i]>>]]
Blank == [Line EXCEPT !.blank = TRUE]

(* A decorated class with a field, a method and a function in it, calls in  *)
(* all of them; an import under another name; a nameless class.             *)
PythonTree ==
    Tree(<<<<"module", 0, None, None>>,
      <<"import_statement", 1, None, None, <<Item(<<"os">>, <<"o">>)>>>>,
      <<"decorated_definition", 1, None, None>>,
      <<"decorator", 3, None, <<"deco", "x">>>>,
      <<"class_definition", 3, "definition", None>>,
      <<"identifier", 5, "name", <<"A">>>>,
      <<"assignment", 5, None, None>>,
      <<"identifier", 7, "left", <<"x">>>>,
      <<"function_definition", 5, None, None>>,
      <<"identifier", 9, "name", <<"f">>>>,
      <<"call", 9, None, None>>,
      <<"identifier", 11, "function", <<"g">>>>,
      <<"function_definition", 9, None, None>>,
      <<"identifier", 13, "name", <<"g">>>>,
      <<"call", 13, None, None>>,
      <<"attribute", 15, "function", <<"self", "f">>>>,
      <<"identifier", 16, "attribute", <<"f">>>>,
      <<"call", 5, None, None>>,
      <<"identifier", 18, "function", <<"h">>>>,
      <<"function_definition", 1, None, None>>,
      <<"identifier", 20, "name", <<"g">>>>,
      <<"assignment", 20, None, None>>,
      <<"identifier", 22, "left", <<"y">>>>,
      <<"call", 22, "right", None>>,
      <<"subscript", 24, "function", <<"t", "A">>>>,
      <<"class_definition", 1, None, None>>,
      <<"call", 26, None, None>>,
      <<"ERROR", 1, None, None>>,
      <<"anonymous", 28, "missing", None>>>>)
PythonLines ==
    <<[Line EXCEPT !.import = Item(<<"os">>, <<"os">>)], Calls(1, <<"a">>), Def(0, "A"), Def(4, "x"),
      Def(4, "f"), Calls(8, <<"g", "h">>), Blank, Def(8, "k"), Calls(12, <<"g">>), Calls(8, <<"g">>),
      [At(4) EXCEPT !.import = Item(<<"re">>, <<"re">>)], Calls(5, <<"c">>), Calls(4, <<"d">>),
      Def(0, "g"), Calls(4, <<"A", "A">>), Calls(0, <<"f">>)>>

\* A class with a method, a method declared outside of it, a call by a
\* qualified name, a missing semicolon.
CppTree ==
    Tree(<<<<"translation_unit", 0, None, None>>,
      <<"preproc_include", 1, None, None, <<Item(<<"a">>, <<"a">>)>>>>,
      <<"namespace_definition", 1, None, None>>,
      <<"namespace_identifier", 3, "name", <<"n">>>>,
      <<"class_specifier", 3, None, None>>,
      <<"type_identifier", 5, "name", <<"A">>>>,
      <<"function_definition", 5, None, None>>,
      <<"function_declarator", 7, "declarator", None>>,
      <<"field_identifier", 8, "declarator", <<"f">>>>,
      <<"init_declarator", 7, None, None>>,
      <<"identifier", 10, "declarator", <<"v">>>>,
      <<"call_expression", 7, None, None>>,
      <<"field_expression", 12, "function", None>>,
      <<"field_identifier", 13, "field", <<"run">>>>,
      <<"anonymous", 5, "missing", None>>,
      <<"function_definition", 1, None, None>>,
      <<"function_declarator", 16, "declarator", None>>,
      <<"qualified_identifier", 17, "declarator", <<"A", "run">>>>,
      <<"identifier", 18, "name", <<"run">>>>,
      <<"call_expression", 16, None, None>>,
      <<"qualified_identifier", 20, "function", <<"n", "f">>>>,
      <<"identifier", 21, "name", <<"f">>>>,
      <<"type_definition", 1, None, None>>,
      <<"type_identifier", 23, None, <<"T">>>>,
      <<"init_declarator", 1, None, None>>,
      <<"identifier", 25, "declarator", <<"v">>>>,
      <<"call_expression", 25, "value", None>>,
      <<"parenthesized_expression", 27, "function", None>>,
      <<"identifier", 28, None, <<"v">>>>>>)

\* A field that is declared twice over, a constructor call, a keyword.
JavaTree ==
    Tree(<<<<"program", 0, None, None>>,
      <<"package_declaration", 1, None, None>>,
      <<"identifier", 2, None, <<"p">>>>,
      <<"class_declaration", 1, None, None>>,
      <<"identifier", 4, "name", <<"A">>>>,
      <<"field_declaration", 4, None, None>>,
      <<"identifier", 6, None, <<"static">>>>,
      <<"variable_declarator", 6, "declarator", None>>,
      <<"identifier", 8, "name", <<"x">>>>,
      <<"method_declaration", 4, None, None>>,
      <<"identifier", 10, "name", <<"run">>>>,
      <<"method_invocation", 10, None, <<"b", "go">>>>,
      <<"identifier", 12, "object", <<"b">>>>,
      <<"identifier", 12, "name", <<"go">>>>,
      <<"object_creation_expression", 10, None, None>>,
      <<"type_identifier", 15, "type", <<"A">>>>,
      <<"method_declaration", 1, None, None>>,
      <<"identifier", 17, "name", <<"go">>>>>>)

GoTree == Tree(<<<<"source_file", 0, None, None>>>>)

BraceLines ==
    <<[Line EXCEPT !.import = Item(<<"a">>, <<"a">>)], [Line EXCEPT !.type = <<"A">>, !.function = <<"A">>],
      [Line EXCEPT !.function = <<"run">>]>>

RustTree ==
    Tree(<<<<"source_file", 0, None, None>>,
      <<"use_declaration", 1, None, None, <<Item(<<"a", "b">>, <<"a", "b">>)>>>>,
      <<"mod_item", 1, None, None>>,
      <<"identifier", 3, "name", <<"m">>>>,
      <<"struct_item", 3, None, None>>,
      <<"type_identifier", 5, "name", <<"S">>>>,
      <<"impl_item", 3, None, None>>,
      <<"type_identifier", 7, "type", <<"S">>>>,
      <<"function_item", 7, None, None>>,
      <<"identifier", 9, "name", <<"f">>>>,
      <<"let_declaration", 9, None, None>>,
      <<"identifier", 11, "pattern", <<"t">>>>,
      <<"call_expression", 11, "value", None>>,
      <<"field_expression", 13, "function", <<"self", "f">>>>,
      <<"field_identifier", 14, "field", <<"f">>>>,
      <<"macro_invocation", 9, None, None>>,
      <<"identifier", 16, "macro", <<"h">>>>,
      <<"impl_item", 1, None, None>>,
      <<"function_item", 18, None, None>>,
      <<"identifier", 19, "name", <<"f">>>>,
      <<"call_expression", 19, None, None>>,
      <<"scoped_identifier", 21, "function", <<"m", "S">>>>,
      <<"identifier", 22, "name", <<"S">>>>,
      <<"call_expression", 1, None, None>>,
      <<"generic_function", 24, "function", <<"m", "S", "f">>>>>>)
RustLines == <<[Line EXCEPT !.import = Item(<<"a", "b">>, <<"a", "b">>)], [Line EXCEPT !.function = <<"f">>], Line>>

TypeScriptTree ==
    Tree(<<<<"program", 0, None, None>>,
      <<"import_statement", 1, None, None, <<Item(<<"m">>, <<"b">>), Item(<<"m">>, <<"c">>)>>>>,
      <<"export_statement", 1, None, None, <<>>, <<<<"C">>>>>>,
      <<"class_declaration", 3, "declaration", None>>,
      <<"type_identifier", 4, "name", <<"C">>>>,
      <<"public_field_definition", 4, None, None>>,
      <<"property_identifier", 6, "name", <<"p">>>>,
      <<"method_definition", 4, None, None>>,
      <<"property_identifier", 8, "name", <<"m">>>>,
      <<"decorator", 8, None, <<"log">>>>,
      <<"call_expression", 8, None, None>>,
      <<"member_expression", 11, "function", <<"this", "w">>>>,
      <<"property_identifier", 12, "property", <<"w">>>>,
      <<"variable_declarator", 1, None, None>>,
      <<"identifier", 14, "name", <<"z">>>>,
      <<"arrow_function", 14, "value", None>>,
      <<"new_expression", 16, "body", None>>,
      <<"identifier", 17, "constructor", <<"C">>>>,
      <<"function_declaration", 1, None, None>>,
      <<"identifier", 19, "name", <<"w">>>>,
      <<"call_expression", 19, None, None>>,
      <<"import", 21, "function", <<"import">>>>,
      <<"arguments", 21, "arguments", None>>,
      <<"string", 23, None, <<"x">>>>,
      <<"jsx_self_closing_element", 19, None, None>>,
      <<"identifier", 25, "name", <<"C">>>>,
      <<"jsx_opening_element", 19, None, None>>,
      <<"identifier", 27, "name", <<"div">>>>,
      <<"variable_declarator", 19, None, None>>,
      <<"identifier", 29, "name", <<"q">>>>,
      <<"call_expression", 29, "value", None>>,
      <<"call_expression", 31, "function", <<"z">>>>,
      <<"identifier", 32, "function", <<"z">>>>,
      <<"public_field_definition", 19, None, None>>>>)
TypeScriptLines ==
    <<[Line EXCEPT !.import = Item(<<"m">>, <<"m">>)], Calls(0, <<"a">>),
      [Line EXCEPT !.export = <<"C">>, !.symbol = [name |-> <<"C">>, kind |-> "class"], !.declaration = TRUE,
                   !.calls = <<<<"C">>>>],
      Calls(2, <<"w">>)>>

MCSource ==
    [f \in Files |->
        CASE f \in {"a.py", "b.py", "big.py"} ->
                [file |-> f, stem |-> <<f>>, grammar |-> "Python", tree |-> PythonTree, lines |-> PythonLines]
          [] f = "a.cc" -> [file |-> f, stem |-> <<"a">>, grammar |-> "Cpp", tree |-> CppTree, lines |-> BraceLines]
          [] f = "A.java" ->
                [file |-> f, stem |-> <<"A">>, grammar |-> "Java", tree |-> JavaTree, lines |-> BraceLines]
          [] f = "x.go" -> [file |-> f, stem |-> <<"x">>, grammar |-> "Go", tree |-> GoTree, lines |-> BraceLines]
          [] f = "lib.rs" ->
                [file |-> f, stem |-> <<"lib">>, grammar |-> "Rust", tree |-> RustTree, lines |-> RustLines]
          [] f = "w.tsx" ->
                [file |-> f, stem |-> <<"w">>, grammar |-> "Tsx", tree |-> TypeScriptTree, lines |-> TypeScriptLines]
          [] f = "package.json" ->
                [file |-> f, stem |-> <<"package.json">>, grammar |-> None,
                 json |-> [name |-> <<"demo">>, packages |-> <<<<"x">>, <<"y">>, <<"x">>>>, targets |-> <<<<"./i.js">>>>]]
          [] f = "bad.json" -> [file |-> f, stem |-> <<"bad.json">>, grammar |-> None, json |-> None]]

MCFiles == {"a.py", "b.py", "big.py", "a.cc", "A.java", "lib.rs", "w.tsx", "x.go", "package.json", "bad.json"}
MCGrammars == {"Python", "Cpp", "Java", "Rust", "Tsx", "Go"}
MCGrammarOf == [f \in MCFiles |-> IF f \in {"package.json", "bad.json"} THEN Absent ELSE MCSource[f].grammar]
MCLoads == [g \in MCGrammars |-> g # "Go"]
MCSize == [f \in MCFiles |-> IF f = "big.py" THEN 3 ELSE 2]
MCBatches ==
    {{"a.py", "b.py", "big.py"}, {"a.cc", "package.json"}, {"A.java", "bad.json"}, {"lib.rs", "w.tsx"},
     {"x.go", "a.py"}}
=============================================================================
