-------------------------------- MODULE JsChecker --------------------------------
(***************************************************************************)
(* The declarations of a program (class Analyzer of src/src/frontend.js,    *)
(* from analyze on): what its imports bring, its prototypes, groups and     *)
(* functions, and the diagnostics of the whole.                             *)
(*                                                                          *)
(* Files stands for the disk and for the registry of native modules: what   *)
(* is behind a path or the name of a module.                                *)
(***************************************************************************)
EXTENDS JsAnalyzer

CONSTANTS Scripts,   \* the paths that end with .pts
          FileOf,    \* the file a path, or the name of a module, leads to
          Files,     \* the program of a file
          Registry   \* the functions and the constants of the native modules

\* The prototypes every program has.
Builtin(parent, fields, methods, sealed) ==
  [parent |-> parent, fields |-> fields, methods |-> methods, sealed |-> sealed]
PublicField(type) == [type |-> type, isConst |-> FALSE, visibility |-> "public", init |-> <<>>]
BuiltinMethod(params, type) ==
  [params |-> [i \in DOMAIN params |-> [type |-> params[i], name |-> "p", variadic |-> FALSE]],
   retType |-> type, visibility |-> "public"]

Methods(names, params, type) == [m \in names |-> BuiltinMethod(params, type)]
Sealed(methods)     == Builtin("Object", <<>>, methods, TRUE)
FileMethods(data)   ==
  Methods({"read"}, <<IntType>>, data) @@ Methods({"write"}, <<data>>, Void) @@ Methods({"seek"}, <<IntType>>, Void)
  @@ Methods({"tell", "size"}, <<>>, IntType) @@ Methods({"name"}, <<>>, Of("string")) @@ Methods({"close"}, <<>>, Void)
RegExpMethods ==
  LET str == Of("string") IN
  Methods({"compile"}, <<str, str>>, Of("RegExp")) @@ Methods({"test"}, <<str, IntType>>, BoolType)
  @@ Methods({"find"}, <<str, IntType>>, Of("RegExpMatch"))
  @@ Methods({"findAll"}, <<str, IntType, IntType>>, ListOf(Of("RegExpMatch")))
  @@ Methods({"replaceFirst"}, <<str, str, IntType>>, str) @@ Methods({"replaceAll"}, <<str, str, IntType, IntType>>, str)
  @@ Methods({"split"}, <<str, IntType, IntType>>, ListOf(str)) @@ Methods({"pattern", "flags"}, <<>>, str)

BuiltinPrototypes ==
  LET str   == Of("string")
      bytes == ListOf(Of("byte"))
  IN  [Object    |-> Builtin("", <<>>, Methods({"clone"}, <<>>, Of("Object")), FALSE),
       Exception |-> Builtin("Object", [file |-> PublicField(str), line |-> PublicField(IntType), column |-> PublicField(IntType),
                                        message |-> PublicField(str), cause |-> PublicField(Of("Exception"))], <<>>, FALSE),
       RuntimeException |-> Builtin("Exception", [code |-> PublicField(str), category |-> PublicField(str)], <<>>, FALSE),
       CivilDateTime |->
         Builtin("Object", <<>>,
                 Methods({"year", "month", "day", "hour", "minute", "second", "millisecond"}, <<>>, IntType)
                 @@ Methods({"setYear", "setMonth", "setDay", "setHour", "setMinute", "setSecond", "setMillisecond"},
                            <<IntType>>, Void), FALSE),
       PathInfo  |-> Sealed(Methods({"dirname", "basename", "filename", "extension"}, <<>>, str)),
       PathEntry |-> Sealed(Methods({"path", "name"}, <<>>, str) @@ Methods({"depth"}, <<>>, IntType)
                            @@ Methods({"isDir", "isFile", "isSymlink"}, <<>>, BoolType)),
       TextFile   |-> Sealed(FileMethods(str)),
       BinaryFile |-> Sealed(FileMethods(bytes)),
       Dir    |-> Sealed(Methods({"hasNext"}, <<>>, BoolType) @@ Methods({"next"}, <<>>, str)
                         @@ Methods({"close", "reset"}, <<>>, Void)),
       Walker |-> Sealed(Methods({"hasNext"}, <<>>, BoolType) @@ Methods({"next"}, <<>>, Of("PathEntry"))
                         @@ Methods({"close"}, <<>>, Void)),
       ProcessEvent  |-> Sealed(Methods({"stream"}, <<>>, IntType) @@ Methods({"data"}, <<>>, bytes)),
       ProcessResult |-> Sealed(Methods({"exitCode"}, <<>>, IntType) @@ Methods({"events"}, <<>>, ListOf(Of("ProcessEvent")))),
       RegExpMatch |-> Sealed(Methods({"ok"}, <<>>, BoolType) @@ Methods({"start", "end"}, <<>>, IntType)
                              @@ Methods({"groups"}, <<>>, ListOf(str))),
       RegExp |-> Sealed(RegExpMethods)]

\* The exceptions of the native modules.
TimeExceptions ==
  {"DSTAmbiguousTimeException", "DSTNonExistentTimeException", "InvalidTimeZoneException", "InvalidDateException",
   "InvalidISOFormatException"}
IoExceptions ==
  {"InvalidModeException", "FileOpenException", "FileNotFoundException", "PermissionDeniedException", "InvalidPathException",
   "FileClosedException", "InvalidArgumentException", "ProcessCreationException", "ProcessExecutionException",
   "ProcessPermissionException", "InvalidExecutableException", "EnvironmentAccessException",
   "InvalidEnvironmentNameException", "InvalidGlyphPositionException", "ReadFailureException", "WriteFailureException",
   "Utf8DecodeException", "StandardStreamCloseException", "IOException"}
FsExceptions == {"NotADirectoryException", "NotAFileException", "DirectoryNotEmptyException"}
Reserved ==
  BuiltinPrototypes @@ [x \in TimeExceptions |-> Builtin("Exception", <<>>, <<>>, FALSE)]
  @@ [x \in IoExceptions \cup FsExceptions |-> Builtin("RuntimeException", <<>>, <<>>, FALSE)]

\* table: what is known of the program; decls: its declarations and those of
\* the modules it loads; loaded: the files read so far, and the prototype of
\* each; resolving: the files being read.
NoTable == [prototypes |-> Reserved, functions |-> <<>>, groups |-> <<>>, namespaces |-> <<>>,
            moduleConsts |-> <<>>, registry |-> Registry]
Start(program) ==
  [table |-> NoTable, decls |-> program.decls, loaded |-> <<>>, resolving |-> {}, diags |-> {}]

Diagnose(a, codes) == [a EXCEPT !.diags = @ \cup codes]
Environment(a, proto, scopes) == [table |-> a.table, proto |-> proto, scopes |-> scopes, diags |-> {}]

-----------------------------------------------------------------------------
\* Imports.

\* The names an import lists, if it lists any.
ImportedItems(imp) == IF imp.items = <<>> THEN <<>> ELSE imp.items[1]
LocalName(item)    == IF item.alias = <<>> THEN item.name ELSE item.alias[1]

MethodsOf(d) == [m \in {d.methods[i].name : i \in DOMAIN d.methods} |->
                   Last(SelectSeq(d.methods, LAMBDA f : f.name = m))]

addFunction(a, x, fn)     == [a EXCEPT !.table.functions = (x :> fn) @@ @]
addNamespace(a, x, space) == [a EXCEPT !.table.namespaces = (x :> space) @@ @]

\* A method taken from a module is a function whose first parameter is self.
addProtoImportItem(a, item, d) ==
  LET own  == MethodsOf(d)
      self == [type |-> Of(d.name), name |-> "self", variadic |-> FALSE]
  IN  CASE item.name \notin DOMAIN own -> Diagnose(a, {"E2001"})
        [] item.name \in DOMAIN own /\ own[item.name].visibility = "internal" -> Diagnose(a, {"E3201"})
        [] OTHER -> addFunction(a, LocalName(item),
                      [params |-> <<self>> \o own[item.name].params, retType |-> own[item.name].retType])

ImportPrototype(a, imp, d) ==
  IF ImportedItems(imp) # <<>>
  THEN Pass(LAMBDA before, item : addProtoImportItem(before, item, d), a, ImportedItems(imp))
  ELSE addNamespace(a, CASE imp.alias # <<>> -> imp.alias[1]
                         [] imp.alias = <<>> /\ imp.isPath -> d.name
                         [] OTHER -> Last(imp.path),
                    [kind |-> "proto", name |-> d.name])

\* An item the module does not have, or whose signature in the registry is no
\* type of the language, is not imported.
ImportNative(a, imp, name) ==
  LET module == Registry[name]
      alias  == IF imp.alias = <<>> THEN Last(imp.path) ELSE imp.alias[1]
      known(it) == it.name \in DOMAIN module.functions /\ module.functions[it.name].valid
      item(before, it) ==
        IF ~known(it) THEN Diagnose(before, {"E2001"})
        ELSE addFunction(before, LocalName(it), module.functions[it.name])
  IN  IF ImportedItems(imp) # <<>> THEN Pass(item, a, ImportedItems(imp))
      ELSE LET space == addNamespace(a, alias, [kind |-> "native", name |-> name])
           IN  IF DOMAIN module.constants = {} THEN space
               ELSE [space EXCEPT !.table.moduleConsts = (alias :> module.constants) @@ @]

\* A module has one prototype and no function.
RootPrototypes(ast) == SelectSeq(ast.decls, LAMBDA d : d.kind = "PrototypeDecl")
HasRootPrototype(ast) ==
  Len(RootPrototypes(ast)) = 1 /\ ~ \E i \in DOMAIN ast.decls : ast.decls[i].kind = "FunctionDecl"

RECURSIVE resolveImport(_, _)

\* A file is read once: it counts as loaded before what it imports is.
loadUserModuleFromPath(a, file) ==
  CASE file \in DOMAIN a.loaded -> a
    [] file \notin DOMAIN a.loaded /\ file \in a.resolving -> Diagnose(a, {"E2001"})
    [] file \notin DOMAIN a.loaded \cup a.resolving /\ ~HasRootPrototype(Files[file]) -> Diagnose(a, {"E2004"})
    [] OTHER ->
         LET d      == RootPrototypes(Files[file])[1]
             loaded == [a EXCEPT !.loaded = (file :> d) @@ @, !.resolving = @ \cup {file}]
             whole  == Pass(resolveImport, loaded, Files[file].imports)
         IN  [whole EXCEPT !.decls = Append(@, d), !.resolving = @ \ {file}]

resolveImport(a, imp) ==
  LET name == IF imp.isPath THEN imp.path ELSE Last(imp.path)
  IN  CASE imp.isPath /\ name \notin Scripts -> Diagnose(a, {"E2003"})
        [] imp.isPath /\ name \in Scripts /\ name \notin DOMAIN FileOf -> Diagnose(a, {"E2002"})
        [] ~imp.isPath /\ name \in DOMAIN Registry -> ImportNative(a, imp, name)
        [] ~imp.isPath /\ name \notin DOMAIN Registry /\ name \notin DOMAIN FileOf -> Diagnose(a, {"E2001"})
        [] OTHER -> LET after == loadUserModuleFromPath(a, FileOf[name])
                    IN  IF FileOf[name] \notin DOMAIN after.loaded THEN after
                        ELSE ImportPrototype(after, imp, after.loaded[FileOf[name]])

loadImports(a, program) == Pass(resolveImport, a, program.imports)

-----------------------------------------------------------------------------
\* Prototypes.

\* The first of the members with each name; the others are duplicates.
FirstOf(members, name) == SelectSeq(members, LAMBDA f : f.name = name)[1]
NamesOf(members)       == {members[i].name : i \in DOMAIN members}
Duplicates(members)    == IF Cardinality(NamesOf(members)) < Len(members) THEN {"E2001"} ELSE {}

DeclaredPrototype(d) ==
  [parent  |-> IF d.parent = <<>> THEN "Object" ELSE d.parent[1],
   fields  |-> [x \in NamesOf(d.fields) |-> FirstOf(d.fields, x)],
   methods |-> [x \in NamesOf(d.methods) |-> FirstOf(d.methods, x)],
   sealed  |-> d.sealed]

collectPrototype(a, d) ==
  CASE d.kind # "PrototypeDecl" -> a
    [] d.kind = "PrototypeDecl" /\ d.name \in DOMAIN a.table.prototypes -> Diagnose(a, {"E2001"})
    [] OTHER -> Diagnose([a EXCEPT !.table.prototypes = (d.name :> DeclaredPrototype(d)) @@ @],
                         Duplicates(d.fields) \cup Duplicates(d.methods))

sameSignature(m, n) ==
  /\ Len(m.params) = Len(n.params)
  /\ \A i \in DOMAIN m.params :
       sameType(m.params[i].type, n.params[i].type) /\ m.params[i].variadic = n.params[i].variadic

\* Mutant: the return type may be wider than the parent's.
hasContravariantReturnType(table, parent, child) == isSubtype(table, parent.retType, child.retType)
hasCovariantReturnType(table, parent, child) == isSubtype(table, child.retType, parent.retType)

\* What is wrong with a method put in the place of one of a parent.
OverrideDiags(table, parent, child) ==
  (IF parent.visibility = "public" /\ child.visibility = "internal" THEN {"E3201"} ELSE {})
  \cup CASE ~sameSignature(parent, child) -> {"E3001"}
         [] sameSignature(parent, child) /\ ~hasCovariantReturnType(table, parent, child) -> {"E3221"}
         [] OTHER -> {}

\* What is wrong with a prototype under its parent.
HeritageDiags(table, name) ==
  LET p == table.prototypes[name]
      inherited(m) == resolvePrototypeMethodInfo(table, p.parent, m)
  IN  CASE p.parent = "" -> {}
        [] p.parent # "" /\ p.parent \notin DOMAIN table.prototypes -> {"E2001"}
        [] OTHER ->
             (IF table.prototypes[p.parent].sealed THEN {"E3140"} ELSE {})
             \cup (IF \E x \in DOMAIN p.fields : resolvePrototypeFieldInfo(table, p.parent, x) # <<>>
                   THEN {"E3001"} ELSE {})
             \cup UNION {OverrideDiags(table, inherited(m)[1].is, p.methods[m]) :
                           m \in {n \in DOMAIN p.methods : inherited(n) # <<>>}}

collectPrototypes(a) ==
  LET collected == Pass(collectPrototype, a, a.decls)
      names     == DOMAIN collected.table.prototypes
  IN  Diagnose(collected, UNION {HeritageDiags(collected.table, p) : p \in names})

-----------------------------------------------------------------------------
\* Functions and groups.

declareFunction(a, d) ==
  IF d.kind # "FunctionDecl" THEN a
  ELSE Diagnose([a EXCEPT !.table.functions = (d.name :> d) @@ @], IF "visibility" \in DOMAIN d THEN {"E3200"} ELSE {})

\* The constant a member of a group stands for: the expression is lowered to
\* instructions, without the checks of a function, and the optimizer is asked.
\* Temporaries are <<1>>, <<2>> and so on; a number and a member of a group
\* are places whose values are known.
RECURSIVE LowerConst(_, _, _)
LowerConst(e, groups, is) ==
  LET dst(js)     == << Len(js) + 1 >>
      last(js)    == << Len(js) >>
      emit(js, i) == Append(js, i @@ [dst |-> dst(js)])
      opaque(js)  == emit(js, [op |-> "call_unknown"])
      known(x, y) == emit(is, [op |-> "copy", src |-> <<x, y>>])
  IN  CASE e.kind = "Literal" ->
             IF e.type \in {"int", "float"} THEN known("number", e.value)
             ELSE emit(is, [op |-> "const", type |-> e.type, v |-> IF e.value = "true" THEN 1 ELSE 0])
        [] e.kind = "UnaryExpr" ->
             LET js == LowerConst(e.expr, groups, is)
             IN  emit(js, [op |-> "unary_op", operator |-> e.op, src |-> last(js)])
        [] e.kind = "BinaryExpr" ->
             LET ls == LowerConst(e.left, groups, is)
                 rs == LowerConst(e.right, groups, ls)
             IN  emit(rs, [op |-> "bin_op", operator |-> e.op, left |-> last(ls), right |-> last(rs)])
        [] e.kind = "ConditionalExpr" ->
             LET cs == LowerConst(e.cond, groups, is)
                 ts == LowerConst(e.thenExpr, groups, cs)
                 fs == LowerConst(e.elseExpr, groups, ts)
             IN  emit(fs, [op |-> "select", cond |-> last(cs), then |-> last(ts), else |-> last(fs)])
        [] e.kind = "CastExpr" -> opaque(LowerConst(e.expr, groups, is))
        [] e.kind = "MemberExpr" ->
             LET x == IF e.target.kind = "Identifier" THEN e.target.name ELSE ""
             IN  IF x \in DOMAIN groups /\ e.name \in DOMAIN groups[x] THEN known(x, e.name) ELSE opaque(is)
        [] OTHER -> opaque(is)

\* ++ or -- somewhere the lowering looks.
RECURSIVE HasStep(_)
HasStep(e) ==
  CASE e.kind \in {"UnaryExpr", "CastExpr"} -> (e.kind = "UnaryExpr" /\ e.op \in {"++", "--"}) \/ HasStep(e.expr)
    [] e.kind = "BinaryExpr" -> HasStep(e.left) \/ HasStep(e.right)
    [] e.kind = "ConditionalExpr" -> HasStep(e.cond) \/ HasStep(e.thenExpr) \/ HasStep(e.elseExpr)
    [] OTHER -> FALSE

\* What is known of the last temporary when the constants are propagated.
evalConstExprWithOptimizer(e, groups) ==
  LET places == {<<"number", x>> : x \in DOMAIN Numbers}
                \cup UNION {{<<g, m>> : m \in DOMAIN groups[g]} : g \in DOMAIN groups}
      number(x) == Opt!Known(IF IsFloat(x) THEN "float" ELSE "int", Numbers[x].p, Numbers[x].q, FALSE)
      before == [k \in places |-> IF k[1] = "number" THEN number(k[2]) ELSE groups[k[1]][k[2]]]
      is     == LowerConst(e, groups, <<>>)
      after  == Pass(Opt!PropagateInstr, [cst |-> before, is |-> <<>>], is).cst
      last   == << Len(is) >>
  IN  IF HasStep(e) \/ last \notin DOMAIN after THEN <<>> ELSE << after[last] >>

\* A member with its type r, and the constant c if it is one.
addGroupMember(acc, m, type, r, c) ==
  LET wrong == r.type # NoType /\ ~isSubtype(acc.env.table, r.type, type)
               /\ ~(type = Of("byte") /\ isByteLiteralExpr(m.expr))
  IN  IF m.name \in DOMAIN acc.members THEN [acc EXCEPT !.diags = @ \cup {"E2001"}]
      ELSE [acc EXCEPT !.diags = @ \cup r.diags \cup IF wrong \/ c = <<>> THEN {"E3121"} ELSE {},
                       !.members = IF c = <<>> THEN @ ELSE (m.name :> c[1]) @@ @]

collectGroupMember(acc, m, type, groups) ==
  addGroupMember(acc, m, type, look("Expr", m.expr, acc.env),
                 evalConstExprWithOptimizer(m.expr, (acc.name :> acc.members) @@ groups))

\* The group d with the members that were collected.
addGroup(a, d, acc) ==
  Diagnose([a EXCEPT !.table.groups = (d.name :> [type |-> d.type, members |-> acc.members]) @@ @],
           acc.diags \cup IF isScalarTypeNode(d.type) THEN {} ELSE {"E3120"})

collectGroup(a, d) ==
  LET groups == [g \in DOMAIN a.table.groups |-> a.table.groups[g].members]
  IN  CASE d.kind # "GroupDecl" -> a
        [] d.kind = "GroupDecl" /\ d.name \in DOMAIN a.table.groups -> Diagnose(a, {"E2001"})
        [] OTHER -> addGroup(a, d, Pass(LAMBDA before, m : collectGroupMember(before, m, d.type, groups),
                      [name |-> d.name, env |-> Environment(a, "", << <<>> >>), members |-> <<>>, diags |-> {}], d.members))

-----------------------------------------------------------------------------
\* The initial values of fields, and the bodies.

\* self occurs in an expression.
RECURSIVE containsSelfReference(_)
containsSelfReference(e) ==
  LET parts == CASE e.kind \in {"UnaryExpr", "PostfixExpr", "CastExpr"} -> <<e.expr>>
                 [] e.kind = "BinaryExpr" -> <<e.left, e.right>>
                 [] e.kind = "ConditionalExpr" -> <<e.cond, e.thenExpr, e.elseExpr>>
                 [] e.kind = "CallExpr" -> <<e.callee>> \o e.args
                 [] e.kind = "IndexExpr" -> <<e.target, e.index>>
                 [] e.kind = "MemberExpr" -> <<e.target>>
                 [] e.kind = "ListLiteral" -> e.items
                 [] e.kind = "MapLiteral" -> [i \in DOMAIN e.pairs |-> e.pairs[i].key]
                                             \o [i \in DOMAIN e.pairs |-> e.pairs[i].value]
                 [] OTHER -> <<>>
  IN  \/ e.kind = "Identifier" /\ e.name = "self"
      \/ \E i \in DOMAIN parts : containsSelfReference(parts[i])

FieldDiags(a, proto, f) ==
  LET r == look("Expr", f.init[1], Environment(a, proto, << <<>> >>))
  IN  (IF f.isConst /\ ~isScalarTypeNode(f.type) THEN {"E3001"} ELSE {})
      \cup CASE f.init = <<>> -> IF f.isConst THEN {"E3151"} ELSE {}
             [] f.init # <<>> /\ containsSelfReference(f.init[1]) -> {"E3150"}
             [] OTHER -> r.diags \cup AssignDiags(a.table, f.type, r.type, f.init[1])

\* Parameters are declared one by one, in one scope: a name that is there
\* twice keeps the body from being looked at.
analyzeFunction(a, proto, fn, self) ==
  LET env == Pass(LAMBDA before, p : defineLocal(before, p.name, Local(canonicalVariadicParamType(p))),
                  Environment(a, proto, <<self>>), fn.params)
  IN  IF env.diags # {} THEN env.diags ELSE analyzeBlock(fn.body, env).diags

\* self is an alias of itself.
SelfScope(p) == "self" :> Sym(Of(p), -1, TRUE, FALSE)

analyzeDecl(a, d) ==
  CASE d.kind = "FunctionDecl" -> Diagnose(a, analyzeFunction(a, "", d, <<>>))
    [] d.kind = "PrototypeDecl" /\ d.name \notin DOMAIN Reserved ->
         LET methods == a.table.prototypes[d.name].methods
         IN  Diagnose(a, UNION {analyzeFunction(a, d.name, methods[m], SelfScope(d.name)) : m \in DOMAIN methods})
    [] OTHER -> a

analyzeFields(a, d) ==
  IF d.kind # "PrototypeDecl" THEN a
  ELSE Diagnose(a, UNION {FieldDiags(a, d.name, d.fields[i]) : i \in DOMAIN d.fields})

\* A pass over all declarations, those of the modules included.
EachDecl(op(_, _), a) == Pass(op, a, a.decls)

Analyze(program) ==
  EachDecl(analyzeDecl, EachDecl(analyzeFields, EachDecl(collectGroup,
    Pass(declareFunction, collectPrototypes(loadImports(Start(program), program)), program.decls))))
=============================================================================
