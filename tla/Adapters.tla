------------------------------ MODULE Adapters ------------------------------
(***************************************************************************)
(* What the language adapters of the aci-adapters crate make of one source *)
(* file: of its syntax tree when the parser gave one, of its lines when    *)
(* the scanner has to do.                                                  *)
(*                                                                         *)
(* A name is the sequence of its segments, so joining names with the       *)
(* language's separator is concatenation.  A syntax tree is the sequence   *)
(* of its nodes in document order; the place of a node stands for its      *)
(* span, the number of a line for the span of the line.  A line is a       *)
(* record of what the scanner's patterns recognise in it.                  *)
(***************************************************************************)
EXTENDS Naturals, SequencesExt

CONSTANTS
    None,            \* no value
    MaxDiagnostics,  \* ParseLimits::max_parse_diagnostics
    Capitalized      \* the segments that begin with an upper case letter

-----------------------------------------------------------------------------
(* PartitionBuilder.  A deterministic id is the tuple of what is hashed;   *)
(* an edge is its own id.                                                  *)

NodeId(file, kind, name, span) == <<file, kind, name, span>>
FileNode(file) == NodeId(file, "file", <<file>>, None)
SymbolId(b, qualified_name, span) == NodeId(b.file, "symbol", qualified_name, span)
External(kind, name) == NodeId(None, kind, name, None)

Node(id, name, qualified_name, symbol_kind) ==
    [id |-> id, kind |-> id[2], name |-> name, qualified_name |-> qualified_name,
     symbol_kind |-> symbol_kind]

Empty(file) == [file |-> file, provenance |-> None, nodes |-> <<>>, edges |-> <<>>, diagnostics |-> <<>>]
NewBuilder(file, provenance) ==
    [Empty(file) EXCEPT !.provenance = provenance,
                        !.nodes = <<Node(FileNode(file), <<file>>, <<file>>, None)>>]

AddOnce(edges, e) == IF Contains(edges, e) THEN edges ELSE Append(edges, e)
AddEdge(b, kind, from, to, span) ==
    [b EXCEPT !.edges = AddOnce(@, [kind |-> kind, from |-> from, to |-> to, span |-> span])]

AddExternal(b, kind, name) ==
    IF \E i \in DOMAIN b.nodes : b.nodes[i].id = External(kind, name) THEN b
    ELSE [b EXCEPT !.nodes = Append(@, Node(External(kind, name), name, name,
                                                 IF kind = "external symbol" THEN "unknown" ELSE None))]

AddSymbol(b, name, qualified_name, kind, span) ==
    LET id == SymbolId(b, qualified_name, span) IN
    AddEdge([b EXCEPT !.nodes = Append(@, Node(id, name, qualified_name, kind))],
            "defines", FileNode(b.file), id, span)

AddImport(b, specifier, alias, span) ==
    LET id == NodeId(b.file, "import", specifier, span)
        known == AddExternal([b EXCEPT !.nodes = Append(@, Node(id, alias, specifier, None))],
                             "package", specifier)
    IN  AddEdge(AddEdge(known, "imports", id, External("package", specifier), span),
                "contains", FileNode(b.file), id, None)

AddExport(b, name, span) ==
    LET id == NodeId(b.file, "export", name, span) IN
    AddEdge([b EXCEPT !.nodes = Append(@, Node(id, name, name, None))],
            "exports", FileNode(b.file), id, span)

AddCall(b, caller, callee, span) ==
    AddEdge(AddExternal(b, "external symbol", callee), "calls", caller,
            External("external symbol", callee), span)
AddReference(b, from, target, span) ==
    AddEdge(AddExternal(b, "external symbol", target), "references", from,
            External("external symbol", target), span)
AddDependency(b, from, package, span) ==
    AddEdge(AddExternal(b, "package", package), "depends on", from, External("package", package), span)

(* resolve_partition, the same for every language: calls of and references *)
(* to a name the file declares are led to the first declaration of it.     *)

LocalSymbol_MutLast(p, name) ==
    SelectLastInSeq(p.nodes, LAMBDA n : n.kind = "symbol" /\ (n.name = name \/ n.qualified_name = name))

LocalSymbol(p, name) ==
    SelectInSeq(p.nodes, LAMBDA n : n.kind = "symbol" /\ (n.name = name \/ n.qualified_name = name))

Redirected(p, e, target) == IF target = 0 THEN e ELSE [e EXCEPT !.to = p.nodes[target].id]
ResolvedEdge(p, e) ==
    IF e.kind \in {"calls", "references"} /\ e.to[2] = "external symbol"
    THEN Redirected(p, e, LocalSymbol(p, e.to[3])) ELSE e
ResolvePartition(p) == [p EXCEPT !.edges = [i \in DOMAIN @ |-> ResolvedEdge(p, @[i])]]
-----------------------------------------------------------------------------
(* Syntax trees.                                                           *)

InOrder(places) == SetToSortSeq(places, <)

ChildrenOf(tree, i) == {j \in DOMAIN tree : tree[j].parent = i}
Children(tree, i) == InOrder({j \in ChildrenOf(tree, i) : tree[j].named})

\* The node and everything below it.
Ancestors(tree) ==
    LET up[i \in DOMAIN tree] == {i} \cup (IF tree[i].parent = 0 THEN {} ELSE up[tree[i].parent])
    IN  up
Subtree(tree, i) == {j \in DOMAIN tree : i \in Ancestors(tree)[j]}

\* The first of these places for which there is something.
FirstOf(places, Find(_)) ==
    FoldLeft(LAMBDA found, j : IF found = None THEN Find(j) ELSE found, None, places)

\* At most one child has the field.
ByField(tree, i, field) == InOrder({j \in ChildrenOf(tree, i) : tree[j].field = field})
FieldText(tree, i, field) == FirstOf(ByField(tree, i, field), LAMBDA j : tree[j].text)

\* Identifiers have no children.
Identifiers(tree, i, kinds) == InOrder({j \in Subtree(tree, i) : tree[j].kind \in kinds})

\* parse_diagnostics: the places of the first errors, the whole tree if need be.
HasError(tree, i) == \E j \in Subtree(tree, i) : tree[j].error
RECURSIVE CollectErrorNodes(_, _, _)
CollectErrorNodes(tree, i, found) ==
    IF Len(found) >= MaxDiagnostics THEN found
    ELSE FoldLeft(LAMBDA d, j : IF Len(d) < MaxDiagnostics /\ HasError(tree, j)
                                THEN CollectErrorNodes(tree, j, d) ELSE d,
                  IF tree[i].error THEN Append(found, i) ELSE found,
                  InOrder(ChildrenOf(tree, i)))
ParseDiagnostics(tree) ==
    IF ~HasError(tree, 1) \/ MaxDiagnostics = 0 THEN <<>>
    ELSE IF CollectErrorNodes(tree, 1, <<>>) = <<>> THEN <<1>>
    ELSE CollectErrorNodes(tree, 1, <<>>)
-----------------------------------------------------------------------------
(* Visitors.  Entering a node adds facts; it may open a scope, in which    *)
(* the children are visited, and it may leave the children out.            *)

Visit(b) == [b |-> b, scope |-> None, descend |-> TRUE]
Leave(b) == [b |-> b, scope |-> None, descend |-> FALSE]
Qualify(scope, name) == scope.qualified_name \o name

Open(b, scope, name, kind, i) ==
    [b |-> AddSymbol(b, name, Qualify(scope, name), kind, i),
     scope |-> [node |-> SymbolId(b, Qualify(scope, name), i),
                qualified_name |-> Qualify(scope, name), kind |-> kind],
     descend |-> TRUE]
OpenNamed(b, scope, name, kind, i) == IF name = None THEN Leave(b) ELSE Open(b, scope, name, kind, i)

MethodIn(scope, kind) == IF kind = "function" /\ scope.kind = "class" THEN "method" ELSE kind

Declare(b, scope, tree, identifiers, kind) ==
    FoldLeft(LAMBDA acc, i : AddSymbol(acc, tree[i].text, Qualify(scope, tree[i].text), kind, i),
             b, identifiers)
AddCallOf(b, scope, callee, i) == IF callee = None THEN b ELSE AddCall(b, scope.node, callee, i)
Import(b, items, i) ==
    FoldLeft(LAMBDA acc, item : AddImport(acc, item.specifier, item.alias, i), b, items)

(* The languages with braces: C, C++, Go, Java, Objective-C.               *)

BraceLists ==
    {"imports", "scopes", "functions", "methods", "classes", "interfaces", "enums", "type_aliases",
     "variables", "calls"}
Config(lists) == [list \in BraceLists |-> IF list \in DOMAIN lists THEN lists[list] ELSE {}]

CConfig ==
    Config([imports |-> {"preproc_include"}, functions |-> {"function_definition"},
            classes |-> {"struct_specifier"}, enums |-> {"enum_specifier"},
            type_aliases |-> {"type_definition"}, variables |-> {"init_declarator"},
            calls |-> {"call_expression"}])
CppConfig ==
    Config([imports |-> {"preproc_include"}, functions |-> {"function_definition"},
            classes |-> {"class_specifier", "struct_specifier"}, enums |-> {"enum_specifier"},
            type_aliases |-> {"type_definition", "alias_declaration"}, variables |-> {"init_declarator"},
            scopes |-> {"namespace_definition"}, calls |-> {"call_expression"}])
GoConfig ==
    Config([imports |-> {"import_declaration", "import_spec"}, functions |-> {"function_declaration"},
            methods |-> {"method_declaration"}, type_aliases |-> {"type_spec"},
            variables |-> {"var_spec", "const_spec", "short_var_declaration"},
            scopes |-> {"package_clause"}, calls |-> {"call_expression"}])
JavaConfig ==
    Config([imports |-> {"import_declaration"}, methods |-> {"method_declaration", "constructor_declaration"},
            classes |-> {"class_declaration", "record_declaration"},
            interfaces |-> {"interface_declaration", "annotation_type_declaration"},
            enums |-> {"enum_declaration"}, variables |-> {"variable_declarator", "field_declaration"},
            scopes |-> {"package_declaration"}, calls |-> {"method_invocation", "object_creation_expression"}])
ObjectiveCConfig ==
    Config([imports |-> {"preproc_include", "import_declaration"}, functions |-> {"function_definition"},
            methods |-> {"method_declaration", "method_definition"},
            classes |-> {"class_interface", "implementation_definition", "class_declaration"},
            interfaces |-> {"protocol_declaration"}, enums |-> {"enum_specifier"},
            type_aliases |-> {"type_definition"}, variables |-> {"init_declarator"},
            calls |-> {"call_expression", "message_expression"}])
BraceConfig ==
    [C |-> CConfig, Cpp |-> CppConfig, Go |-> GoConfig, Java |-> JavaConfig,
     ObjectiveC |-> ObjectiveCConfig]

\* The lists that open a scope, with the kind of its symbol.
ScopeKind ==
    [scopes |-> "module", functions |-> "function", methods |-> "method", classes |-> "class",
     interfaces |-> "interface", enums |-> "enum"]

Keywords ==
    {<<"if">>, <<"for">>, <<"while">>, <<"switch">>, <<"return">>, <<"class">>, <<"struct">>, <<"enum">>,
     <<"interface">>, <<"public">>, <<"private">>, <<"protected">>, <<"static">>, <<"const">>, <<"var">>,
     <<"let">>, <<"type">>}
BraceIdentifiers == {"identifier", "field_identifier", "type_identifier", "package_identifier"}

NameText(tree, i) ==
    FirstOf(ByField(tree, i, "name") \o Identifiers(tree, i, BraceIdentifiers), LAMBDA j : tree[j].text)

RECURSIVE DeepestNamedDeclarator(_, _)
DeepestNamedDeclarator(tree, i) ==
    IF tree[i].kind \in {"identifier", "field_identifier", "scoped_identifier", "qualified_identifier"}
    THEN tree[i].text
    ELSE FirstOf(ByField(tree, i, "declarator") \o ByField(tree, i, "name") \o ByField(tree, i, "field")
                    \o ByField(tree, i, "operator_name") \o Children(tree, i),
                 LAMBDA j : DeepestNamedDeclarator(tree, j))
Or(name, other) == IF name = None THEN other ELSE name
FunctionName(tree, i) ==
    Or(FirstOf(ByField(tree, i, "declarator"), LAMBDA j : DeepestNamedDeclarator(tree, j)),
       NameText(tree, i))

RECURSIVE CallableLeaf(_, _)
CallableLeaf(tree, i) ==
    CASE tree[i].kind \in {"identifier", "field_identifier", "method_invocation", "selector"} -> tree[i].text
      [] tree[i].kind \in {"field_expression", "member_expression"} -> FieldText(tree, i, "field")
      [] tree[i].kind \in {"scoped_identifier", "qualified_identifier"} -> FieldText(tree, i, "name")
      [] OTHER -> FirstOf(Children(tree, i), LAMBDA j : CallableLeaf(tree, j))
BraceCallName(tree, i) ==
    FirstOf(ByField(tree, i, "function") \o ByField(tree, i, "name") \o ByField(tree, i, "method")
              \o ByField(tree, i, "selector") \o <<i>>,
            LAMBDA j : CallableLeaf(tree, j))

\* The first identifier that is no keyword, outside functions.
DeclareAt(b, scope, tree, place, kind) ==
    IF place = None THEN b ELSE Declare(b, scope, tree, <<place>>, kind)
AddVariable(b, scope, tree, i) ==
    IF scope.kind \in {"function", "method"} THEN b
    ELSE DeclareAt(b, scope, tree,
                   FirstOf(Identifiers(tree, i, BraceIdentifiers),
                           LAMBDA j : IF tree[j].text \in Keywords THEN None ELSE j), "variable")

\* No kind is in two lists of one language.
ListOf(config, kind) ==
    CHOOSE list \in BraceLists \cup {None} :
        IF list = None THEN \A l \in BraceLists : kind \notin config[l] ELSE kind \in config[list]
EnterListed(list, name, tree, i, b, scope) ==
    IF list \in DOMAIN ScopeKind /\ name # None
    THEN Open(b, scope, name, MethodIn(scope, ScopeKind[list]), i)
    ELSE Visit(CASE list = "imports" -> Import(b, tree[i].items, i)
                 [] list = "type_aliases" /\ name # None ->
                        AddSymbol(b, name, Qualify(scope, name), "type alias", i)
                 [] list = "variables" -> AddVariable(b, scope, tree, i)
                 [] list = "calls" -> AddCallOf(b, scope, BraceCallName(tree, i), i)
                 [] OTHER -> b)
NameOf(list, tree, i) == IF list = "functions" THEN FunctionName(tree, i) ELSE NameText(tree, i)
EnterBrace(config, tree, i, b, scope) ==
    EnterListed(ListOf(config, tree[i].kind), NameOf(ListOf(config, tree[i].kind), tree, i),
                tree, i, b, scope)

(* Python.                                                                 *)

PythonCallName(tree, i) ==
    FirstOf(ByField(tree, i, "function"),
            LAMBDA j : CASE tree[j].kind = "identifier" -> tree[j].text
                         [] tree[j].kind = "attribute" -> FieldText(tree, j, "attribute")
                         [] OTHER -> <<Last(tree[j].text)>>)
EnterPython(tree, i, b, scope) ==
    CASE tree[i].kind = "class_definition" -> OpenNamed(b, scope, FieldText(tree, i, "name"), "class", i)
      [] tree[i].kind = "function_definition" ->
            OpenNamed(b, scope, FieldText(tree, i, "name"), MethodIn(scope, "function"), i)
      [] tree[i].kind = "assignment" ->
            Visit(FoldLeft(LAMBDA acc, j : Declare(acc, scope, tree, Identifiers(tree, j, {"identifier"}),
                                                   IF scope.kind = "class" THEN "field" ELSE "variable"),
                           b, ByField(tree, i, "left")))
      [] tree[i].kind \in {"import_statement", "import_from_statement"} ->
            Leave(FoldLeft(LAMBDA acc, item : AddReference(AddImport(acc, item.specifier, item.alias, i),
                                                           scope.node, item.alias, i),
                           b, tree[i].items))
      [] tree[i].kind = "call" -> Visit(AddCallOf(b, scope, PythonCallName(tree, i), i))
      [] tree[i].kind = "decorator" -> Visit(AddReference(b, scope.node, <<Head(tree[i].text)>>, i))
      [] OTHER -> Visit(b)

(* Rust.                                                                   *)

RustScopeKind ==
    [mod_item |-> "module", function_item |-> "function", struct_item |-> "class", enum_item |-> "enum",
     trait_item |-> "interface", type_item |-> "type alias"]
RustCallName(tree, i) ==
    FirstOf(ByField(tree, i, "function"),
            LAMBDA j : CASE tree[j].kind = "field_expression" -> FieldText(tree, j, "field")
                         [] tree[j].kind = "scoped_identifier" -> FieldText(tree, j, "name")
                         [] OTHER -> tree[j].text)
EnterRust(tree, i, b, scope) ==
    CASE tree[i].kind \in DOMAIN RustScopeKind ->
            OpenNamed(b, scope, FieldText(tree, i, "name"), MethodIn(scope, RustScopeKind[tree[i].kind]), i)
      [] tree[i].kind = "impl_item" ->
            Open(b, scope, Or(FieldText(tree, i, "type"), <<"impl">>), "class", i)
      [] tree[i].kind = "let_declaration" ->
            Visit(FoldLeft(LAMBDA acc, j :
                                Declare(acc, scope, tree, Identifiers(tree, j, {"identifier"}), "variable"),
                           b, ByField(tree, i, "pattern")))
      [] tree[i].kind = "use_declaration" -> Leave(Import(b, tree[i].items, i))
      [] tree[i].kind = "call_expression" -> Visit(AddCallOf(b, scope, RustCallName(tree, i), i))
      [] tree[i].kind = "macro_invocation" -> Visit(AddCallOf(b, scope, FieldText(tree, i, "macro"), i))
      [] OTHER -> Visit(b)

(* TypeScript, TSX and JavaScript.                                         *)

TypeScriptScopeKind ==
    [class_declaration |-> "class", function_declaration |-> "function",
     generator_function_declaration |-> "function", method_definition |-> "method",
     method_signature |-> "method", interface_declaration |-> "interface",
     type_alias_declaration |-> "type alias", enum_declaration |-> "enum"]

\* The text of the value has an arrow in it, or begins with "function".
IsFunctionValue(tree, i) ==
    \/ tree[i].kind = "function_expression"
    \/ \E j \in Subtree(tree, i) : tree[j].kind = "arrow_function"
ValueKind(tree, i) ==
    IF \E j \in ChildrenOf(tree, i) : tree[j].field = "value" /\ IsFunctionValue(tree, j)
    THEN "function" ELSE "variable"
AddVariableDeclarator(b, scope, tree, i) ==
    FoldLeft(LAMBDA acc, j :
                Declare(acc, scope, tree,
                        Identifiers(tree, j, {"identifier", "shorthand_property_identifier_pattern"}),
                        ValueKind(tree, i)),
             b, ByField(tree, i, "name"))

TypeScriptCallName(tree, places) ==
    FirstOf(places,
            LAMBDA j : CASE tree[j].kind = "identifier" -> tree[j].text
                         [] tree[j].kind \in {"member_expression", "subscript_expression"} ->
                                FieldText(tree, j, "property")
                         [] OTHER -> <<Last(tree[j].text)>>)
\* The first string among the arguments.
LiteralArgument(tree, i) ==
    FirstOf(Children(tree, i),
            LAMBDA j : IF tree[j].kind = "arguments"
                       THEN FirstOf(Children(tree, j), LAMBDA k : IF tree[k].kind = "string" THEN tree[k].text ELSE None)
                       ELSE None)
AddImportOf(b, specifier, i) == IF specifier = None THEN b ELSE AddImport(b, specifier, specifier, i)
AddTypeScriptCall(b, scope, tree, i, callee) ==
    IF callee = <<"import">> THEN AddImportOf(b, LiteralArgument(tree, i), i)
    ELSE AddCallOf(b, scope, callee, i)

EnterTypeScript(tree, i, b, scope) ==
    CASE tree[i].kind \in {"import_statement", "export_statement"} ->
            Visit(FoldLeft(LAMBDA acc, name : AddExport(acc, name, i),
                           Import(b, tree[i].items, i), tree[i].names))
      [] tree[i].kind \in DOMAIN TypeScriptScopeKind ->
            OpenNamed(b, scope, FieldText(tree, i, "name"), TypeScriptScopeKind[tree[i].kind], i)
      [] tree[i].kind \in {"public_field_definition", "field_definition"} ->
            LET name == FieldText(tree, i, "name") IN
            Visit(IF name = None THEN b
                  ELSE AddSymbol(b, name, Qualify(scope, name),
                                 IF scope.kind = "class" THEN "field" ELSE "variable", i))
      [] tree[i].kind = "variable_declarator" -> Visit(AddVariableDeclarator(b, scope, tree, i))
      [] tree[i].kind = "call_expression" -> 
            Visit(AddTypeScriptCall(b, scope, tree, i, TypeScriptCallName(tree, ByField(tree, i, "function"))))
      [] tree[i].kind = "new_expression" ->
            Visit(AddCallOf(b, scope, TypeScriptCallName(tree, ByField(tree, i, "constructor")
                                                                 \o ByField(tree, i, "function")), i))
      [] tree[i].kind \in {"jsx_opening_element", "jsx_self_closing_element"} ->
            LET name == FieldText(tree, i, "name") IN
            Visit(IF name # None /\ Head(name) \in Capitalized THEN AddReference(b, scope.node, name, i) ELSE b)
      [] tree[i].kind = "decorator" -> Visit(AddReference(b, scope.node, <<Head(tree[i].text)>>, i))
      [] OTHER -> Visit(b)

(* All of them.                                                            *)

Enter(grammar, tree, i, b, scope) ==
    CASE grammar = "Python" -> EnterPython(tree, i, b, scope)
      [] grammar = "Rust" -> EnterRust(tree, i, b, scope)
      [] grammar \in {"TypeScript", "Tsx", "JavaScript"} -> EnterTypeScript(tree, i, b, scope)
      [] grammar \in DOMAIN BraceConfig -> EnterBrace(BraceConfig[grammar], tree, i, b, scope)

CloseScope_MutKeeps(scopes, scope) == scopes

CloseScope(scopes, scope) == IF scope = None THEN scopes ELSE Front(scopes)

\* Children are visited in the scope the node opens, or in that it stands in.
Entered(s, e) ==
    [b |-> e.b, scopes |-> IF e.scope = None THEN s.scopes ELSE Append(s.scopes, e.scope)]
RECURSIVE VisitNode(_, _, _, _)
VisitEntered(grammar, tree, i, s, e) ==
    LET inner == FoldLeft(LAMBDA acc, j : VisitNode(grammar, tree, j, acc), Entered(s, e),
                          IF e.descend THEN Children(tree, i) ELSE <<>>)
    IN  [inner EXCEPT !.scopes = CloseScope(@, e.scope)]
VisitNode(grammar, tree, i, s) ==
    VisitEntered(grammar, tree, i, s, Enter(grammar, tree, i, s.b, Last(s.scopes)))

\* The partition of a parsed file: a module symbol named after the file, then
\* the tree below it.
OpenModule(source) ==
    Open([NewBuilder(source.file, "tree-sitter") EXCEPT !.diagnostics = ParseDiagnostics(source.tree)],
         [qualified_name |-> <<>>], source.stem, "module", 1)
VisitModule(source, module) ==
    VisitNode(source.grammar, source.tree, 1, [b |-> module.b, scopes |-> <<module.scope>>])
TreePartition(source) == ResolvePartition(VisitModule(source, OpenModule(source)).b)
-----------------------------------------------------------------------------
(* Scanners.                                                               *)

AddLineImport(b, line, i) ==
    IF line.import = None THEN b ELSE AddImport(b, line.import.specifier, line.import.alias, i)
AddCalls(b, caller, calls, i) == FoldLeft(LAMBDA acc, callee : AddCall(acc, caller, callee, i), b, calls)

ScanLines(source, Step(_, _), start) ==
    FoldLeft(Step, start, [i \in DOMAIN source.lines |-> i])

\* A type and a function may stand in one line.
ScanBrace(source) ==
    ResolvePartition(
        ScanLines(source,
            LAMBDA b, i :
                LET line == source.lines[i]
                    typed == IF line.type = None THEN AddLineImport(b, line, i)
                             ELSE AddSymbol(AddLineImport(b, line, i), line.type, line.type, "class", i)
                IN  IF line.function = None THEN typed
                    ELSE AddSymbol(typed, line.function, line.function, "function", i),
            NewBuilder(source.file, "structural-scanner")))

ScanRust(source) ==
    ScanLines(source,
        LAMBDA b, i :
            LET line == source.lines[i] IN
            IF line.function = None THEN AddLineImport(b, line, i)
            ELSE AddSymbol(AddLineImport(b, line, i), line.function, line.function, "function", i),
        NewBuilder(source.file, "structural-scanner"))

\* Calls belong to the declaration that was read last.
ScanTypeScript(source) ==
    ScanLines(source,
        LAMBDA s, i :
            LET line == source.lines[i]
                imported == AddLineImport(s.b, line, i)
                exported == IF line.export = None THEN imported ELSE AddExport(imported, line.export, i)
                declared == IF line.symbol = None THEN exported
                            ELSE AddSymbol(exported, line.symbol.name, line.symbol.name, line.symbol.kind, i)
                scope == IF line.symbol = None THEN s.scope ELSE SymbolId(s.b, line.symbol.name, i)
            IN  [b |-> IF line.declaration THEN declared ELSE AddCalls(declared, scope, line.calls, i),
                 scope |-> scope],
        [b |-> NewBuilder(source.file, "structural-scanner"), scope |-> FileNode(source.file)]).b

PopScopes_MutKeepsSiblings(scopes, indent) ==
    SubSeq(scopes, 1, CHOOSE k \in DOMAIN scopes :
        /\ k = 1 \/ indent >= scopes[k].indent
        /\ \A l \in DOMAIN scopes : l > k => indent < scopes[l].indent)

\* Scopes are popped from the end until one is left that is indented less.
PopScopes(scopes, indent) ==
    SubSeq(scopes, 1, CHOOSE k \in DOMAIN scopes :
        /\ k = 1 \/ indent > scopes[k].indent
        /\ \A l \in DOMAIN scopes : l > k => indent <= scopes[l].indent)

\* Blank lines and comments are skipped.  An import opens a scope one column to
\* the right of it, every declaration one at its own column.
ScanPython(source) ==
    ScanLines(source,
        LAMBDA s, i :
            LET line == source.lines[i]
                scopes == PopScopes(s.scopes, line.indent)
                scope == Last(scopes)
                name == IF line.symbol = None THEN <<>> ELSE Qualify(scope, line.symbol.name)
            IN  CASE line.blank -> s
                  [] ~line.blank /\ line.import # None ->
                        [b |-> AddReference(AddLineImport(s.b, line, i), scope.node, line.import.alias, i),
                         scopes |-> Append(scopes, [indent |-> line.indent + 1,
                                                    qualified_name |-> line.import.specifier,
                                                    node |-> NodeId(source.file, "import", line.import.specifier, i)])]
                  [] ~line.blank /\ line.import = None /\ line.symbol # None ->
                        [b |-> AddSymbol(s.b, line.symbol.name, name, line.symbol.kind, i),
                         scopes |-> Append(scopes, [indent |-> line.indent, qualified_name |-> name,
                                                    node |-> SymbolId(s.b, name, i)])]
                  [] ~line.blank /\ line.import = None /\ line.symbol = None ->
                        [b |-> AddCalls(s.b, scope.node, line.calls, i), scopes |-> scopes],
        [b |-> NewBuilder(source.file, "structural-scanner"),
         scopes |-> <<[indent |-> 0, qualified_name |-> <<>>, node |-> FileNode(source.file)]>>]).b

ScannerPartition(source) ==
    CASE source.grammar = "Python" -> ScanPython(source)
      [] source.grammar = "Rust" -> ScanRust(source)
      [] source.grammar \in {"TypeScript", "Tsx", "JavaScript"} -> ScanTypeScript(source)
      [] source.grammar \in DOMAIN BraceConfig -> ScanBrace(source)

(* JSON is read by its own parser; every fact has the span of the document. *)

ExtractJson(source) ==
    LET started == AddSymbol(NewBuilder(source.file, "structural-scanner"), source.stem, source.stem, "module", 1)
        document == SymbolId(started, source.stem, 1)
        named == IF source.json.name = None THEN started
                 ELSE AddSymbol(started, source.json.name, source.json.name, "module", 1)
        needs == FoldLeft(LAMBDA b, package : AddDependency(AddImport(b, package, package, 1), document, package, 1),
                          named, source.json.packages)
    IN  IF source.json = None THEN [started EXCEPT !.diagnostics = <<1>>]
        ELSE FoldLeft(LAMBDA b, target : AddReference(b, document, target, 1), needs, source.json.targets)
=============================================================================
