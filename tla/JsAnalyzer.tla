------------------------------- MODULE JsAnalyzer -------------------------------
(***************************************************************************)
(* The analyzer of the JavaScript front end (class Analyzer of              *)
(* src/src/frontend.js): what it finds wrong with the nodes of JsParser.    *)
(*                                                                          *)
(* A table holds what is known of the whole program: its prototypes, its    *)
(* functions, its groups, the names its imports bring.  An expression has a *)
(* type and diagnostics, a statement changes the scopes and adds            *)
(* diagnostics.  Diagnostics are the set of their codes: where one is       *)
(* reported, and the names suggested with it, are left out.                 *)
(***************************************************************************)
EXTENDS JsParser, Passes, FiniteSets

CONSTANTS Numbers,  \* the value p/q of a number
          ByteMax, IntLimit  \* the largest byte, and one more than the largest int

Opt == INSTANCE Optimizer WITH Width <- 8

-----------------------------------------------------------------------------
\* Types.  NoType stands for null, which is written void.

Of(name)  == Type(name, <<>>)
NoType    == Of("null")
Void      == Of("void")
BoolType  == Of("bool")
IntType   == Of("int")
ListOf(a) == Type("list", <<a>>)
ViewOf(a) == Type("view", <<a>>)

RECURSIVE typeToString(_)
typeToString(a) == IF a = NoType THEN Void ELSE Type(a.name, [i \in DOMAIN a.args |-> typeToString(a.args[i])])

sameType(a, b) == typeToString(a) = typeToString(b)

isScalarTypeNode(a)  == a.name \in {"bool", "byte", "glyph", "int", "float", "string"}
isNumericTypeName(a) == a.name \in {"byte", "int", "float"}

\* A variadic parameter declared as a list is a view.
canonicalVariadicParamType(p) == IF p.variadic /\ p.type.name = "list" THEN ViewOf(p.type.args[1]) ELSE p.type

\* The prototypes from one up to the last of its parents that is known.
RECURSIVE Lineage(_, _)
Lineage(table, name) ==
  IF name \notin DOMAIN table.prototypes THEN <<>> ELSE <<name>> \o Lineage(table, table.prototypes[name].parent)

IsPrototype(table, type) == type.name \in DOMAIN table.prototypes

isSubtype(table, child, parent) ==
  \/ sameType(child, parent)
  \/ LET line == Lineage(table, child.name)
     IN  \E i \in DOMAIN line : Of(table.prototypes[line[i]].parent) = parent

\* The first prototype from name up that has the member, with the member.
Resolve(table, name, kind, member) ==
  LET line  == Lineage(table, name)
      owned == SelectSeq(line, LAMBDA p : member \in DOMAIN table.prototypes[p][kind])
  IN  IF owned = <<>> THEN <<>> ELSE << [owner |-> owned[1], is |-> table.prototypes[owned[1]][kind][member]] >>

resolvePrototypeFieldInfo(table, name, field)   == Resolve(table, name, "fields", field)
resolvePrototypeMethodInfo(table, name, method) == Resolve(table, name, "methods", method)

-----------------------------------------------------------------------------
\* Numbers known when compiling, p/q.

Const(type, p, q) == << [type |-> type, p |-> p, q |-> q] >>
IsWhole(c)   == c.p % c.q = 0
Whole(c)     == c.p \div c.q
FitsByte(c)  == IsWhole(c) /\ Whole(c) \in 0..ByteMax
FitsInt(c)   == IsWhole(c) /\ Whole(c) \in -IntLimit..(IntLimit - 1)

\* A constant cast to a type it fits.
CastConst(target, c) ==
  CASE target = "byte"  -> IF FitsByte(c) THEN Const("byte", Whole(c), 1) ELSE <<>>
    [] target = "int"   -> IF FitsInt(c) THEN Const("int", Whole(c), 1) ELSE <<>>
    [] target = "float" -> Const("float", c.p, c.q)
    [] OTHER -> <<>>

RECURSIVE constNumericValue(_)
constNumericValue(e) ==
  CASE e.kind = "Literal" /\ e.type \in {"int", "float"} -> Const(e.type, Numbers[e.value].p, Numbers[e.value].q)
    [] e.kind = "UnaryExpr" /\ e.op = "-" ->
         LET c == constNumericValue(e.expr)
         IN  IF c = <<>> \/ c[1].type = "byte" THEN <<>> ELSE Const(c[1].type, -c[1].p, c[1].q)
    [] e.kind = "CastExpr" ->
         LET c == constNumericValue(e.expr) IN IF c = <<>> THEN <<>> ELSE CastConst(e.targetType.name, c[1])
    [] OTHER -> <<>>

isByteLiteralExpr(e) == e.kind = "Literal" /\ e.type = "int" /\ FitsByte(constNumericValue(e)[1])
isByteListLiteral(e) == e.kind = "ListLiteral" /\ \A i \in DOMAIN e.items : isByteLiteralExpr(e.items[i])

\* A value of type src, written as e, can be cast to dst: origin is the type
\* of what e casts, if e is a cast.
isCastRepresentable(e, src, dst, origin) ==
  LET c == constNumericValue(e)
  IN  \/ src = dst
      \/ src.name = "byte"
      \/ src.name = "int" /\ dst.name = "float"
      \/ src.name = "int" /\ dst.name = "byte" /\ c # <<>> /\ c[1].type \in {"int", "byte"} /\ FitsByte(c[1])
      \/ /\ src.name = "float"
         /\ c # <<>> /\ c[1].type = "float"
         /\ IF dst.name = "int" THEN FitsInt(c[1]) ELSE FitsByte(c[1])
      \/ /\ origin = Of("byte")
         /\ c = <<>> \/ c[1].type \notin (IF src.name = "int" THEN {"int", "byte"} ELSE {"float"})

-----------------------------------------------------------------------------
\* Scopes, the innermost last.  len is the number of elements of a list the
\* analyzer knows of (-1: none known), alias whether a name may be self.

Sym(type, len, alias, const) == [type |-> type, len |-> len, alias |-> alias, const |-> const]
Local(type) == Sym(type, -1, FALSE, FALSE)

\* Where a name is declared: 0 when nowhere.
LookupAt(env, x) ==
  LET places == {i \in DOMAIN env.scopes : x \in DOMAIN env.scopes[i]}
  IN  IF places = {} THEN 0 ELSE CHOOSE i \in places : \A j \in places : j <= i
IsDeclared(env, x) == LookupAt(env, x) # 0
Lookup(env, x)     == env.scopes[LookupAt(env, x)][x]

Push(env) == [env EXCEPT !.scopes = Append(@, <<>>)]
Pop(env)  == [env EXCEPT !.scopes = Front(@)]
Report(env, codes) == [env EXCEPT !.diags = @ \cup codes]
Update(env, x, sym) == [env EXCEPT !.scopes[LookupAt(env, x)][x] = sym]

hasOwn(env, x) == x \in DOMAIN Last(env.scopes)
defineLocal(env, x, sym) ==
  IF hasOwn(env, x) THEN Report(env, {"E3131"})
  ELSE [env EXCEPT !.scopes[Len(env.scopes)] = (x :> sym) @@ @]

-----------------------------------------------------------------------------
\* Members.

canAccessInternal(env, owner) == env.proto # "" /\ isSubtype(env.table, Of(env.proto), Of(owner))

\* A member found by Resolve may be used here.
checkMemberVisibility(env, found) ==
  IF found.is.visibility = "internal" /\ ~canAccessInternal(env, found.owner) THEN {"E3201"} ELSE {}

isGroupMemberTarget(env, e) ==
  /\ e.kind = "MemberExpr"
  /\ e.target.kind = "Identifier"
  /\ e.target.name \in DOMAIN env.table.groups
  /\ e.name \in DOMAIN env.table.groups[e.target.name].members

\* Whether n arguments are too few or too many for the parameters.
Arity(n, params) ==
  LET fixed == Len(SelectSeq(params, LAMBDA p : ~p.variadic))
  IN  IF n < fixed \/ (fixed = Len(params) /\ n > fixed) THEN {"E1003"} ELSE {}

\* The methods of the types that are no prototypes: how many arguments they
\* take, and what they give.  Element types are those of the receiver.
Rows(names, n, type) == [m \in names |-> [n |-> {n}, type |-> type]]
\* Nothing counts the arguments of these.
Uncounted(names, type) == [m \in names |-> [n |-> Nat, type |-> type]]

BuiltinMethods(a) ==
  LET Key  == a.args[1]
      Of1(x) == a.args[IF a.name = "map" THEN x ELSE 1]
  IN  CASE a.name = "int" ->
             Rows({"toByte"}, 0, Of("byte")) @@ Rows({"toFloat"}, 0, Of("float")) @@ Rows({"toString"}, 0, Of("string"))
             @@ Rows({"toBytes"}, 0, ListOf(Of("byte"))) @@ Rows({"abs", "sign"}, 0, IntType)
        [] a.name = "byte" ->
             Rows({"toInt"}, 0, IntType) @@ Rows({"toFloat"}, 0, Of("float")) @@ Rows({"toString"}, 0, Of("string"))
        [] a.name = "float" ->
             Rows({"toInt"}, 0, IntType) @@ Rows({"toString"}, 0, Of("string")) @@ Rows({"toBytes"}, 0, ListOf(Of("byte")))
             @@ Rows({"abs"}, 0, Of("float")) @@ Rows({"isNaN", "isInfinite", "isFinite"}, 0, BoolType)
        [] a.name = "glyph" ->
             Rows({"isLetter", "isDigit", "isWhitespace", "isUpper", "isLower"}, 0, BoolType)
             @@ Rows({"toUpper", "toLower"}, 0, Of("glyph")) @@ Rows({"toString"}, 0, Of("string"))
             @@ Rows({"toInt"}, 0, IntType) @@ Rows({"toUtf8Bytes"}, 0, ListOf(Of("byte")))
        [] a.name = "string" ->
             Rows({"length", "toInt"}, 0, IntType) @@ Rows({"isEmpty"}, 0, BoolType) @@ Rows({"toFloat"}, 0, Of("float"))
             @@ Rows({"toString", "trim", "trimStart", "trimEnd", "toUpper", "toLower"}, 0, Of("string"))
             @@ Rows({"toUtf8Bytes"}, 0, ListOf(Of("byte"))) @@ Rows({"concat"}, 1, NoType)
             @@ Rows({"indexOf", "lastIndexOf"}, 1, IntType) @@ Rows({"contains", "startsWith", "endsWith"}, 1, BoolType)
             @@ Rows({"split"}, 1, ListOf(Of("string"))) @@ Rows({"glyphAt"}, 1, Of("glyph"))
             @@ Rows({"repeat"}, 1, Of("string"))
             @@ Rows({"subString", "replace", "replaceAll", "padStart", "padEnd"}, 2, Of("string"))
             @@ ("view" :> [n |-> {0, 2}, type |-> ViewOf(Of("glyph"))])
        [] a.name = "list" ->
             Rows({"length", "reverse", "sort"}, 0, IntType) @@ Rows({"isEmpty"}, 0, BoolType) @@ Rows({"pop"}, 0, NoType)
             @@ Rows({"concat"}, 0, IF Key = Of("string") THEN Of("string") ELSE NoType)
             @@ Rows({"toUtf8String"}, 0, Of("string")) @@ Rows({"push"}, 1, IntType) @@ Rows({"contains"}, 1, BoolType)
             @@ Rows({"join"}, 1, IF Key = Of("string") THEN Of("string") ELSE NoType)
             @@ Rows({"view"}, 2, ViewOf(Key)) @@ Rows({"slice"}, 2, Type("slice", <<Key>>))
        [] a.name = "slice" -> Rows({"slice"}, 2, a)
        [] a.name = "view" -> Uncounted({"length"}, IntType) @@ Uncounted({"isEmpty"}, BoolType) @@ Rows({"view"}, 2, a)
        [] a.name = "map" ->
             Rows({"length"}, 0, IntType) @@ Rows({"isEmpty"}, 0, BoolType) @@ Rows({"keys"}, 0, ListOf(Of1(1)))
             @@ Rows({"values"}, 0, ListOf(Of1(2))) @@ Rows({"containsKey", "remove"}, 1, BoolType)
        [] a.name \in {"TextFile", "BinaryFile"} ->
             Rows({"read"}, 1, IF a.name = "TextFile" THEN Of("string") ELSE ListOf(Of("byte"))) @@ Rows({"write", "seek"}, 1, Void)
             @@ Rows({"tell", "size"}, 0, IntType) @@ Rows({"name"}, 0, Of("string")) @@ Rows({"close"}, 0, Void)
        [] a.name = "JSONValue" ->
             Uncounted({"isNull", "isBool", "isNumber", "isString", "isArray", "isObject", "asBool"}, BoolType)
             @@ Uncounted({"asNumber"}, Of("float")) @@ Uncounted({"asString"}, Of("string"))
             @@ Uncounted({"asArray"}, ListOf(a)) @@ Uncounted({"asObject"}, Type("map", <<Of("string"), a>>))
        [] OTHER -> <<>>

\* Elements that sort can compare: compareTo takes any element, and gives an int.
IsComparable(env, elem) ==
  \/ elem.name \in {"int", "float", "byte", "string"}
  \/ /\ IsPrototype(env.table, elem)
     /\ LET m == resolvePrototypeMethodInfo(env.table, elem.name, "compareTo")
        IN  /\ m # <<>>
            /\ Len(m[1].is.params) = 1
            /\ ~m[1].is.params[1].variadic
            /\ isSubtype(env.table, elem, m[1].is.params[1].type)
            /\ m[1].is.retType = IntType

-----------------------------------------------------------------------------
\* Expressions.

Typed(type, diags) == [type |-> type, diags |-> diags]
AlsoReport(r, codes) == [r EXCEPT !.diags = @ \cup codes]

\* What is said of a node, by its kind: an expression is typed, a statement
\* gives the environment after it.
RECURSIVE look(_, _, _)

DiagsOf(es, env) == UNION {look("Expr", es[i], env).diags : i \in DOMAIN es}

ElementType(type) ==
  CASE type.name \in {"list", "view", "slice"} -> type.args[1]
    [] type.name = "map" -> type.args[2]
    [] OTHER -> NoType

typeOfCast(e, env) ==
  LET r      == look("Expr", e.expr, env)
      origin == IF e.expr.kind = "CastExpr" THEN look("Expr", e.expr.expr, env).type ELSE NoType
      fits   == isNumericTypeName(r.type) /\ isCastRepresentable(e.expr, r.type, e.targetType, origin)
  IN  Typed(e.targetType, r.diags \cup IF fits THEN {} ELSE {"E3001"})

\* What is wrong with changing the target of ++ or --.
StepDiags(target, env) ==
  CASE target.kind = "Identifier" ->
         IF IsDeclared(env, target.name) /\ Lookup(env, target.name).const THEN {"E3130"} ELSE {}
    [] target.kind = "MemberExpr" ->
         LET owner == look("Expr", target.target, env)
             field == resolvePrototypeFieldInfo(env.table, owner.type.name, target.name)
             hidden == field # <<>> /\ checkMemberVisibility(env, field[1]) # {}
         IN  owner.diags \cup (IF hidden THEN {"E3201"} ELSE {})
             \cup (IF ~hidden /\ field # <<>> /\ field[1].is.isConst THEN {"E3130"} ELSE {})
             \cup (IF ~hidden /\ isGroupMemberTarget(env, target) THEN {"E3122"} ELSE {})
    [] OTHER -> {}

typeOfUnary(e, env) ==
  LET r == look("Expr", e.expr, env)
  IN  CASE r.type = NoType -> r
        [] r.type # NoType /\ e.op \in {"++", "--"} -> AlsoReport(r, StepDiags(e.expr, env))
        [] r.type # NoType /\ e.op = "!" -> Typed(BoolType, r.diags)
        [] OTHER -> r

\* The types an operator takes, two operands of one type.
BinaryDiags(op, type) ==
  IF \/ op \in {"&&", "||"} /\ type # BoolType
     \/ op \in {"+", "-", "*", "/", "%"} /\ type.name \notin {"int", "float", "byte", "glyph"}
     \/ op \in {"&", "|", "^", "<<", ">>"} /\ type.name \notin {"int", "byte"}
  THEN {"E3001"} ELSE {}

typeOfBinary(e, env) ==
  LET l == look("Expr", e.left, env)
      r == look("Expr", e.right, env)
      diags == l.diags \cup r.diags
      isBool == e.op \in {"==", "!=", "<", "<=", ">", ">=", "&&", "||"}
  IN  CASE NoType \in {l.type, r.type} -> Typed(NoType, diags)
        [] NoType \notin {l.type, r.type} /\ ~sameType(l.type, r.type) -> Typed(l.type, diags \cup {"E3001"})
        [] OTHER -> Typed(IF isBool THEN BoolType ELSE l.type, diags \cup BinaryDiags(e.op, l.type))

NotBool(type) == IF type \notin {NoType, BoolType} THEN {"E3001"} ELSE {}

typeOfConditional(e, env) ==
  LET c == look("Expr", e.cond, env)
      a == look("Expr", e.thenExpr, env)
      b == look("Expr", e.elseExpr, env)
      differ == NoType \notin {a.type, b.type} /\ ~sameType(a.type, b.type)
  IN  Typed(IF a.type # NoType THEN a.type ELSE b.type,
            c.diags \cup a.diags \cup b.diags \cup NotBool(c.type) \cup IF differ THEN {"E3001"} ELSE {})

typeOfIndex(e, env) ==
  LET r == look("Expr", e.target, env)
  IN  Typed(IF r.type.name = "string" THEN Of("glyph") ELSE ElementType(r.type),
            r.diags \cup look("Expr", e.index, env).diags)

\* A field of a value whose type is a prototype; of another type, unknown.
typeOfField(r, e, env) ==
  LET field == resolvePrototypeFieldInfo(env.table, r.type.name, e.name)
  IN  CASE ~IsPrototype(env.table, r.type) -> Typed(NoType, r.diags)
        [] IsPrototype(env.table, r.type) /\ field = <<>> -> Typed(NoType, r.diags \cup {"E2001"})
        [] OTHER -> LET hidden == checkMemberVisibility(env, field[1])
                    IN  Typed(IF hidden = {} THEN field[1].is.type ELSE NoType, r.diags \cup hidden)

typeOfMember(e, env) ==
  LET table == env.table
      x     == IF e.target.kind = "Identifier" THEN e.target.name ELSE ""
  IN  CASE e.target.kind = "SuperExpr" -> Typed(NoType, {"E3210"})
        [] x \in DOMAIN table.groups ->
             IF e.name \in DOMAIN table.groups[x].members THEN Typed(table.groups[x].type, {}) ELSE Typed(NoType, {"E2001"})
        [] x \notin DOMAIN table.groups /\ x \in DOMAIN table.moduleConsts /\ e.name \in DOMAIN table.moduleConsts[x] ->
             Typed(table.moduleConsts[x][e.name], {})
        [] OTHER -> typeOfField(look("Expr", e.target, env), e, env)

-----------------------------------------------------------------------------
\* Calls.

\* A method of a prototype, called with the receiver among the arguments or not.
typeOfMethod(found, cloned, e, env, self) ==
  LET hidden == checkMemberVisibility(env, found)
      n      == Len(e.args) - (IF self THEN 1 ELSE 0)
  IN  IF hidden # {} THEN Typed(NoType, hidden)
      ELSE Typed(IF e.callee.name = "clone" THEN cloned ELSE found.is.retType, Arity(n, found.is.params))

typeOfFunctionCall(x, e, env) ==
  CASE x \in {"Exception", "RuntimeException"} \/ x \notin DOMAIN env.table.functions -> Typed(NoType, {"E2001"})
    [] OTHER -> LET fn == env.table.functions[x] IN Typed(fn.retType, Arity(Len(e.args), fn.params))

typeOfSuperCall(e, env) ==
  IF env.proto = "" THEN Typed(NoType, {"E3210"})
  ELSE LET found == resolvePrototypeMethodInfo(env.table, env.table.prototypes[env.proto].parent, e.callee.name)
       IN  IF found = <<>> THEN Typed(NoType, {"E3212"})
           ELSE Typed(IF e.callee.name = "clone" THEN Of(env.proto) ELSE found[1].is.retType,
                      Arity(Len(e.args), found[1].is.params))

\* The method of a prototype that is named, with self for its first argument.
typeOfStaticCall(p, e, env) ==
  LET found == resolvePrototypeMethodInfo(env.table, p, e.callee.name)
  IN  IF found = <<>> THEN Typed(NoType, {"E2001"})
      ELSE typeOfMethod(found[1], Of(p), e, env, ~(e.callee.name = "clone" \/ (p = "RegExp" /\ e.callee.name = "compile")))

typeOfModuleCall(module, e) ==
  IF e.callee.name \notin DOMAIN module.functions THEN Typed(NoType, {"E2001"})
  ELSE LET fn == module.functions[e.callee.name]
       IN  Typed(fn.retType, IF Len(e.args) # Len(fn.params) THEN {"E1003"} ELSE {})

\* A method of a value.
typeOfValueCall(r, e, env) ==
  LET m       == e.callee.name
      found   == resolvePrototypeMethodInfo(env.table, r.type.name, m)
      methods == BuiltinMethods(r.type)
      isProto == IsPrototype(env.table, r.type) /\ r.type.name \notin {"TextFile", "BinaryFile", "JSONValue"}
  IN  CASE r.type = NoType -> Typed(NoType, {})
        [] r.type.name \in {"Dir", "Walker"} /\ found # <<>> /\ m # "clone" -> Typed(found[1].is.retType, {})
        [] isProto /\ ~(r.type.name \in {"Dir", "Walker"} /\ found # <<>> /\ m # "clone") ->
             IF found = <<>> THEN Typed(NoType, {"E2001"}) ELSE typeOfMethod(found[1], r.type, e, env, FALSE)
        [] r.type # NoType /\ ~isProto /\ m \in DOMAIN methods ->
             Typed(methods[m].type,
                   (IF Len(e.args) \notin methods[m].n THEN {"E1003"} ELSE {})
                   \cup IF m = "sort" /\ ~IsComparable(env, r.type.args[1]) THEN {"E3001"} ELSE {})
        [] OTHER -> Typed(NoType, IF r.type.name = "view" THEN {"E2001"} ELSE {})

\* Who is called is looked for in this order.
typeOfCall(e, env) ==
  LET table  == env.table
      callee == e.callee
      x      == IF callee.kind = "MemberExpr" /\ callee.target.kind = "Identifier" THEN callee.target.name ELSE ""
      called ==
        CASE callee.kind = "Identifier" -> typeOfFunctionCall(callee.name, e, env)
          [] callee.kind \notin {"Identifier", "MemberExpr"} -> Typed(NoType, {})
          [] callee.kind = "MemberExpr" /\ callee.target.kind = "SuperExpr" -> typeOfSuperCall(e, env)
          [] x \in DOMAIN table.prototypes -> typeOfStaticCall(x, e, env)
          [] x \in DOMAIN table.namespaces \ DOMAIN table.prototypes ->
               LET space == table.namespaces[x]
               IN  IF space.kind = "proto" THEN typeOfStaticCall(space.name, e, env)
                   ELSE typeOfModuleCall(table.registry[space.name], e)
          [] OTHER -> LET r == look("Expr", callee.target, env)
                      IN  AlsoReport(typeOfValueCall(r, e, env), r.diags)
  IN  AlsoReport(called, DiagsOf(e.args, env))

\* Only the first element of a literal is looked at.
typeOfExpr(e, env) ==
  CASE e.kind = "Literal" -> Typed(Of(e.type), {})
    [] e.kind = "Identifier" ->
         CASE IsDeclared(env, e.name) -> Typed(Lookup(env, e.name).type, {})
           [] ~IsDeclared(env, e.name) /\ e.name = "Sys" -> Typed(Of("Sys"), {})
           [] OTHER -> Typed(NoType, {"E2001"})
    [] e.kind = "SuperExpr" -> IF env.proto = "" THEN Typed(Of("unknown"), {"E3210"}) ELSE Typed(Of(env.proto), {})
    [] e.kind = "CastExpr" -> typeOfCast(e, env)
    [] e.kind = "UnaryExpr" -> typeOfUnary(e, env)
    [] e.kind = "PostfixExpr" -> AlsoReport(look("Expr", e.expr, env), StepDiags(e.expr, env))
    [] e.kind = "BinaryExpr" -> typeOfBinary(e, env)
    [] e.kind = "ConditionalExpr" -> typeOfConditional(e, env)
    [] e.kind = "CallExpr" -> typeOfCall(e, env)
    [] e.kind = "IndexExpr" -> typeOfIndex(e, env)
    [] e.kind = "MemberExpr" -> typeOfMember(e, env)
    [] e.kind = "ListLiteral" ->
         IF e.items = <<>> THEN Typed(ListOf(Void), {})
         ELSE LET r == look("Expr", e.items[1], env) IN Typed(ListOf(r.type), r.diags)
    [] e.kind = "MapLiteral" ->
         IF e.pairs = <<>> THEN Typed(Type("map", <<Void, Void>>), {})
         ELSE LET k == look("Expr", e.pairs[1].key, env)
                  v == look("Expr", e.pairs[1].value, env)
              IN  Typed(Type("map", <<k.type, v.type>>), k.diags \cup v.diags)

-----------------------------------------------------------------------------
\* Statements.

IsEmptyLiteral(e) == (e.kind = "ListLiteral" /\ e.items = <<>>) \/ (e.kind = "MapLiteral" /\ e.pairs = <<>>)

\* What is wrong with giving the value of e, of type from, to a place of type to.
AssignDiags(table, to, from, e) ==
  IF \/ NoType \in {to, from}
     \/ isSubtype(table, from, to)
     \/ IsEmptyLiteral(e) /\ to.name = (IF e.kind = "ListLiteral" THEN "list" ELSE "map")
     \/ to = Of("byte") /\ isByteLiteralExpr(e)
     \/ to = ListOf(Of("byte")) /\ isByteListLiteral(e)
  THEN {} ELSE {"E3001"}

isSelfAliasExpr(e, env) ==
  e.kind = "Identifier" /\ (e.name = "self" \/ (IsDeclared(env, e.name) /\ Lookup(env, e.name).alias))

ListLength(e) == IF e.kind = "ListLiteral" THEN Len(e.items) ELSE -1

analyzeVarDecl(s, env) ==
  LET type == IF s.declaredType = <<>> THEN NoType ELSE s.declaredType[1]
      r    == IF s.init = <<>> THEN Typed(NoType, {}) ELSE look("Expr", s.init[1], env)
      codes ==
        (IF s.isConst /\ s.init = <<>> THEN {"E3130"} ELSE {})
        \cup (IF s.isConst /\ ~isScalarTypeNode(type) THEN {"E3001"} ELSE {})
        \cup (IF s.init # <<>> THEN AssignDiags(env.table, type, r.type, s.init[1]) ELSE {})
        \cup (IF type = NoType /\ typeToString(r.type) \in {ListOf(Void), Type("map", <<Void, Void>>)} THEN {"E3006"} ELSE {})
      known == CASE type # NoType -> type [] type = NoType /\ r.type # NoType -> r.type [] OTHER -> Void
      sym  == Sym(known, IF s.init = <<>> THEN -1 ELSE ListLength(s.init[1]),
                  s.init # <<>> /\ isSelfAliasExpr(s.init[1], env), s.isConst)
  IN  IF hasOwn(env, s.name) THEN Report(env, {"E3131"})
      ELSE defineLocal(Report(env, codes \cup r.diags), s.name, sym)

\* The place an assignment writes; the index into a sequence or a map is not
\* looked at.
typeOfAssignable(e, env) ==
  CASE e.kind = "Identifier" -> IF IsDeclared(env, e.name) THEN Typed(Lookup(env, e.name).type, {}) ELSE Typed(NoType, {"E2001"})
    [] e.kind = "MemberExpr" ->
         LET r == look("Expr", e.target, env)
         IN  IF IsPrototype(env.table, r.type) THEN typeOfField(r, e, env) ELSE AlsoReport(look("Expr", e, env), r.diags)
    [] e.kind = "IndexExpr" ->
         LET r == look("Expr", e.target, env)
         IN  IF r.type.name \in GenericHeads THEN Typed(ElementType(r.type), r.diags)
             ELSE AlsoReport(look("Expr", e, env), r.diags)
    [] OTHER -> look("Expr", e, env)

\* What makes an assignment end at once: its target may not be written.
ForbiddenTarget(target, env) ==
  CASE isGroupMemberTarget(env, target) -> {"E3122"}
    [] target.kind = "Identifier" ->
         IF IsDeclared(env, target.name) /\ Lookup(env, target.name).const THEN {"E3130"} ELSE {}
    [] target.kind = "MemberExpr" /\ ~isGroupMemberTarget(env, target) ->
         LET field == resolvePrototypeFieldInfo(env.table, look("Expr", target.target, env).type.name, target.name)
         IN  IF field # <<>> /\ field[1].is.isConst THEN {"E3130"} ELSE {}
    [] target.kind = "IndexExpr" ->
         IF look("Expr", target.target, env).type.name \in {"string", "view"} THEN {"E3004"} ELSE {}
    [] OTHER -> {}

\* What looking at a target that is no group member and no name finds first.
TargetDiags(target, env) ==
  IF target.kind \in {"MemberExpr", "IndexExpr"} /\ ~isGroupMemberTarget(env, target)
  THEN look("Expr", target.target, env).diags ELSE {}

analyzeAssign(s, env) ==
  LET forbidden == ForbiddenTarget(s.target, env)
      l     == typeOfAssignable(s.target, env)
      r     == look("Expr", s.expr, env)
      after == Report(env, l.diags \cup r.diags \cup TargetDiags(s.target, env)
                           \cup AssignDiags(env.table, l.type, r.type, s.expr))
  IN  CASE forbidden # {} -> Report(env, forbidden \cup TargetDiags(s.target, env))
        [] forbidden = {} /\ s.target.kind = "Identifier" /\ IsDeclared(env, s.target.name) ->
             Update(after, s.target.name,
                    [Lookup(env, s.target.name) EXCEPT !.len = ListLength(s.expr),
                                                       !.alias = s.op = "=" /\ isSelfAliasExpr(s.expr, env)])
        [] OTHER -> after

\* push and pop of a list that has a name change what is known of its length.
checkListMethodEffects(e, env) ==
  IF ~ /\ e.kind = "CallExpr"
       /\ e.callee.kind = "MemberExpr"
       /\ e.callee.target.kind = "Identifier"
       /\ e.callee.name \in {"push", "pop"}
       /\ IsDeclared(env, e.callee.target.name)
       /\ Lookup(env, e.callee.target.name).type.name = "list"
  THEN env
  ELSE LET x   == e.callee.target.name
           sym == Lookup(env, x)
           by  == IF e.callee.name = "push" THEN 1 ELSE -1
       IN  IF by = -1 /\ sym.len = 0 THEN Report(env, {"E3005"})
           ELSE Update(env, x, [sym EXCEPT !.len = IF @ = -1 THEN -1 ELSE @ + by])

isTerminated(ss) == ss # <<>> /\ Last(ss).kind \in {"BreakStmt", "ReturnStmt", "ThrowStmt"}

\* A statement in a scope of its own.
Scoped(s, env) == Pop(look("Stmt", s, Push(env)))

analyzeBlock(b, env) == Pop(Pass(LAMBDA before, s : look("Stmt", s, before), Push(env), b.stmts))

Condition(e, env) == LET r == look("Expr", e, env) IN Report(env, r.diags \cup NotBool(r.type))

analyzeForPart(part, env) ==
  IF part = <<>> THEN env
  ELSE IF part[1].kind \in {"VarDecl", "AssignStmt"} THEN look("Stmt", part[1], env)
  ELSE Report(env, look("Expr", part[1], env).diags)

analyzeFor(s, env) ==
  LET inner == Push(env)
  IN  IF s.forKind = "classic"
      THEN LET init == analyzeForPart(s.init, inner)
               cond == IF s.cond = <<>> THEN init ELSE Report(init, look("Expr", s.cond[1], init).diags)
           IN  Pop(look("Stmt", s.body, analyzeForPart(s.step, cond)))
      ELSE LET r    == look("Expr", s.iterExpr, inner)
               elem == CASE r.type.name = "map" /\ s.forKind = "in" -> r.type.args[1]
                         [] r.type.name \in {"list", "view", "slice", "map"} /\ ~(r.type.name = "map" /\ s.forKind = "in") ->
                              ElementType(r.type)
                         [] OTHER -> Void
               type == IF s.iterVar.declaredType = <<>> THEN elem ELSE s.iterVar.declaredType[1]
           IN  Pop(look("Stmt", s.body, defineLocal(Report(inner, r.diags), s.iterVar.name, Local(type))))

\* Each statement of a clause has a scope of its own.
analyzeClause(ss, env) ==
  Report(Pass(LAMBDA before, s : Scoped(s, before), env, ss), IF isTerminated(ss) THEN {} ELSE {"E3003"})

analyzeSwitch(s, env) ==
  LET start == Report(env, look("Expr", s.expr, env).diags)
      cases == Pass(LAMBDA before, c : analyzeClause(c.stmts, Report(before, look("Expr", c.value, before).diags)),
                    start, s.cases)
  IN  IF s.defaultCase = <<>> THEN cases ELSE analyzeClause(s.defaultCase[1], cases)

analyzeCatch(c, env) ==
  LET wrong == IF isSubtype(env.table, c.type, Of("Exception")) THEN {} ELSE {"E3001"}
  IN  Pop(analyzeBlock(c.block, defineLocal(Report(Push(env), wrong), c.name, Local(c.type))))

analyzeTry(s, env) ==
  LET caught == Pass(LAMBDA before, c : analyzeCatch(c, before), analyzeBlock(s.tryBlock, env), s.catches)
  IN  IF s.finallyBlock = <<>> THEN caught ELSE analyzeBlock(s.finallyBlock[1], caught)

analyzeReturn(s, env) ==
  CASE s.expr = <<>> -> env
    [] s.expr # <<>> /\ isSelfAliasExpr(s.expr[1], env) -> Report(env, {"E3007"})
    [] OTHER -> Report(env, look("Expr", s.expr[1], env).diags)

analyzeThrow(s, env) ==
  LET r == look("Expr", s.expr, env)
  IN  Report(env, r.diags \cup IF r.type = NoType \/ isSubtype(env.table, r.type, Of("Exception")) THEN {} ELSE {"E3001"})

analyzeIf(s, env) ==
  LET then == Scoped(s.thenBranch, Condition(s.cond, env))
  IN  IF s.elseBranch = <<>> THEN then ELSE Scoped(s.elseBranch[1], then)

analyzeStmt(s, env) ==
  CASE s.kind = "VarDecl"    -> analyzeVarDecl(s, env)
    [] s.kind = "AssignStmt" -> analyzeAssign(s, env)
    [] s.kind = "ExprStmt"   -> checkListMethodEffects(s.expr, Report(env, look("Expr", s.expr, env).diags))
    [] s.kind = "IfStmt"     -> analyzeIf(s, env)
    [] s.kind \in {"WhileStmt", "DoWhileStmt"} -> Scoped(s.body, Condition(s.cond, env))
    [] s.kind = "ForStmt"    -> analyzeFor(s, env)
    [] s.kind = "SwitchStmt" -> analyzeSwitch(s, env)
    [] s.kind = "TryStmt"    -> analyzeTry(s, env)
    [] s.kind = "ReturnStmt" -> analyzeReturn(s, env)
    [] s.kind = "ThrowStmt"  -> analyzeThrow(s, env)
    [] s.kind = "Block"      -> analyzeBlock(s, env)
    [] s.kind \in {"BreakStmt", "ContinueStmt"} -> env

look(what, node, env) ==
  CASE what = "Expr" -> typeOfExpr(node, env)
    [] what = "Stmt" -> analyzeStmt(node, env)
=============================================================================
