-------------------------------- MODULE TypedRun --------------------------------
(***************************************************************************)
(* What an accepted program may count on when it runs, told by the types    *)
(* its values really have and not by those it declares: a variable holds    *)
(* one of a set of types, a call gives what the method of the receiver at   *)
(* hand declares or something below it, and a step that finds no name, no   *)
(* member it may use, or a value of a wrong type is stuck.                  *)
(*                                                                          *)
(* Everything is looked up in the declarations of the program, with nothing *)
(* the analyzer has collected.                                              *)
(***************************************************************************)
EXTENDS JsChecker

Target(imp) == IF imp.isPath THEN imp.path ELSE Last(imp.path)
Targets(imports) == {Target(imports[i]) : i \in DOMAIN imports}
ImportedFiles(program) == {FileOf[x] : x \in Targets(program.imports) \cap DOMAIN FileOf}

\* The files that are loaded with a program, and all its declarations.
RECURSIVE Reach(_)
Reach(fs) ==
  LET more == fs \cup UNION {ImportedFiles(Files[f]) : f \in fs}
  IN  IF more = fs THEN fs ELSE Reach(more)
DeclsOf(program) ==
  LET fs == Reach(ImportedFiles(program))
  IN  ToSet(program.decls) \cup UNION {ToSet(Files[f].decls) : f \in fs}

\* A function that an import lists: one of a native module, or a method of the
\* prototype of a file, which takes the object first.
Listed(imp, item) ==
  LET x == Target(imp)
  IN  IF x \in DOMAIN Registry THEN Registry[x].functions[item.name]
      ELSE LET d == CHOOSE d \in ToSet(Files[FileOf[x]].decls) : d.kind = "PrototypeDecl"
               m == CHOOSE m \in ToSet(d.methods) : m.name = item.name
           IN  [params |-> <<[type |-> Of(d.name), name |-> "self", variadic |-> FALSE]>> \o m.params, retType |-> m.retType]
Imported(program) ==
  FoldSet(LAMBDA imp, fns : FoldSet(LAMBDA item, gs : (LocalName(item) :> Listed(imp, item)) @@ gs,
                                    fns, ToSet(ImportedItems(imp))),
          <<>>, ToSet(program.imports))

\* The names under which whole modules are imported.
Spaces(program) ==
  LET whole == {imp \in ToSet(program.imports) : ImportedItems(imp) = <<>>}
      name(imp) == IF imp.alias # <<>> THEN imp.alias[1] ELSE Target(imp)
  IN  [x \in {name(imp) : imp \in whole} |-> Target(CHOOSE imp \in whole : name(imp) = x)]

-----------------------------------------------------------------------------
\* A world: the declarations of a program by their names.

ByName(ds) == [x \in {d.name : d \in ds} |-> CHOOSE d \in ds : d.name = x]

World(program) ==
  LET ds  == DeclsOf(program)
      fns == ByName({d \in ds : d.kind = "FunctionDecl"})
  IN  [protos |-> ByName({d \in ds : d.kind = "PrototypeDecl"}),
       groups |-> ByName({d \in ds : d.kind = "GroupDecl"}),
       bodies |-> fns,
       fns    |-> fns @@ Imported(program),
       spaces |-> Spaces(program)]

RECURSIVE Line(_, _)
Line(w, p) ==
  CASE p \in DOMAIN w.protos -> <<p>> \o Line(w, IF w.protos[p].parent = <<>> THEN "Object" ELSE w.protos[p].parent[1])
    [] p = "Exception" -> <<p, "Object">>
    [] p = "RuntimeException" -> <<p, "Exception", "Object">>
    [] p = "Object" -> <<p>>
    [] OTHER -> <<>>

Is1(w, t1, t2) == t1 = t2 \/ (t2.name \in {Line(w, t1.name)[i] : i \in DOMAIN Line(w, t1.name)})
All(w, ts, t2) == \A t1 \in ts : Is1(w, t1, t2)
Below(w, t1)   == {t1} \cup {t2 \in {Of(p) : p \in DOMAIN w.protos} : Is1(w, t2, t1)}
IsObject(w, t1) == Line(w, t1.name) # <<>>

\* The nearest declaration of a member above a prototype, with its owner.
Nearest(w, p, kind, x) ==
  LET own(q) == IF q \in DOMAIN w.protos THEN SelectSeq(w.protos[q][kind], LAMBDA f : f.name = x) ELSE <<>>
      owners == SelectSeq(Line(w, p), LAMBDA q : own(q) # <<>>)
  IN  IF owners = <<>> THEN <<>> ELSE << own(owners[1])[1] @@ [owner |-> owners[1]] >>

\* Code in prototype p may use a member.
May(w, p, f) == f.visibility = "public" \/ (p # "" /\ Is1(w, Of(p), Of(f.owner)))

\* What the values that are no objects can do.
OwnMethods(t1, m) ==
  CASE t1.name = "list" /\ m = "push"    -> << <<t1.args[1]>>, IntType >>
    [] t1.name = "list" /\ m = "pop"     -> << <<>>, t1.args[1] >>
    [] t1.name = "list" /\ m \in {"length", "sort"} -> << <<>>, IntType >>
    [] t1.name = "list" /\ m = "isEmpty" -> << <<>>, BoolType >>
    [] t1.name = "int" /\ m = "toString" -> << <<>>, Of("string") >>
    [] t1.name = "int" /\ m = "toFloat"  -> << <<>>, Of("float") >>
    [] OTHER -> <<>>

-----------------------------------------------------------------------------
\* Expressions: the types the value may have, and whether one is reached.

Val(types, ok) == [types |-> types, ok |-> ok]
Stuck == Val({}, FALSE)

\* Where a name is bound; vars is a stack of scopes.
Bound(s, x)   == \E i \in DOMAIN s.vars : x \in DOMAIN s.vars[i]
Binding(s, x) == s.vars[CHOOSE i \in DOMAIN s.vars :
                          x \in DOMAIN s.vars[i] /\ \A j \in DOMAIN s.vars : j > i => x \notin DOMAIN s.vars[j]][x]

IsGroup(w, e) == e.kind = "MemberExpr" /\ e.target.kind = "Identifier" /\ e.target.name \in DOMAIN w.groups

\* An empty list has any type of list, and a small number is a byte.
As(type, e, ts) ==
  CASE type.name = "list" /\ e.kind = "ListLiteral" /\ e.items = <<>> -> {type}
    [] type = Of("byte") /\ e.kind = "Literal" /\ e.type = "int" /\ Numbers[e.value].p \in 0..ByteMax -> {type}
    [] OTHER -> ts

\* What becomes of a node, by its kind: an expression has a value, a statement
\* gives the state after it.
RECURSIVE Run(_, _, _, _)

\* The arguments fit the parameters; those of a variadic one are its elements.
ArgsFit(args, params, w, s) ==
  LET n == Len(params)
      variadic == n > 0 /\ params[n].variadic
      type(i) == IF variadic /\ i >= n THEN ElementType(params[n].type) ELSE params[i].type
  IN  /\ IF variadic THEN Len(args) >= n - 1 ELSE Len(args) = n
      /\ \A i \in DOMAIN args : LET v == Run("Expr", args[i], w, s) IN v.ok /\ All(w, As(type(i), args[i], v.types), type(i))

\* Method m of an object of type t1.
OnObject(t1, e, params, w, s) ==
  LET f == Nearest(w, t1.name, "methods", e.callee.name)
  IN  CASE f = <<>> -> IF e.callee.name = "clone" /\ IsObject(w, t1) THEN Val({t1}, TRUE) ELSE Stuck
        [] OTHER -> Val(IF e.callee.name = "clone" THEN {t1} ELSE Below(w, f[1].retType),
                        May(w, s.proto, f[1]) /\ ArgsFit(e.args, f[1].params, w, s))

OnValue(t1, e, w, s) ==
  LET m == OwnMethods(t1, e.callee.name)
  IN  IF m = <<>> \/ Len(m[1]) # Len(e.args) THEN Stuck
      ELSE Val({m[2]}, \A i \in DOMAIN e.args : LET v == Run("Expr", e.args[i], w, s) IN v.ok /\ All(w, v.types, m[1][i]))

Join(vs) == Val(UNION {v.types : v \in vs}, \A v \in vs : v.ok)

\* A function of a native module, or a method of the prototype of a file with
\* its object first.
EvalSpaceCall(module, e, w, s) ==
  LET fn == IF module \in DOMAIN Registry THEN Registry[module].functions[e.callee.name]
            ELSE Listed([isPath |-> TRUE, path |-> module], [name |-> e.callee.name])
  IN  Val({fn.retType}, ArgsFit(e.args, fn.params, w, s))

EvalCall(e, w, s) ==
  LET c == e.callee
      x == IF c.kind = "MemberExpr" /\ c.target.kind = "Identifier" THEN c.target.name ELSE ""
      r == Run("Expr", c.target, w, s)
      f == IF c.kind = "Identifier" /\ c.name \in DOMAIN w.fns THEN <<w.fns[c.name]>> ELSE <<>>
  IN  CASE c.kind = "Identifier" ->
             IF f = <<>> THEN Stuck ELSE Val(Below(w, f[1].retType), ArgsFit(e.args, f[1].params, w, s))
        [] c.kind = "MemberExpr" /\ c.target.kind = "SuperExpr" ->
             IF s.proto = "" THEN Stuck ELSE OnObject(Of(Line(w, s.proto)[2]), e, <<>>, w, s)
        [] x \in DOMAIN w.protos /\ c.name = "clone" -> Val({Of(x)}, e.args = <<>>)
        [] x \in DOMAIN w.spaces \ DOMAIN w.protos -> EvalSpaceCall(w.spaces[x], e, w, s)
        [] OTHER -> LET vs == {IF IsObject(w, t1) THEN OnObject(t1, e, <<>>, w, s) ELSE OnValue(t1, e, w, s) : t1 \in r.types}
                    IN  IF r.ok THEN Join(vs) ELSE Stuck

EvalMember(e, w, s) ==
  LET r      == Run("Expr", e.target, w, s)
      field(t1) == Nearest(w, t1.name, "fields", e.name)
      read(t1)  == IF field(t1) = <<>> THEN Stuck
                   ELSE Val(Below(w, field(t1)[1].type), May(w, s.proto, field(t1)[1]))
  IN  CASE IsGroup(w, e) -> LET g == w.groups[e.target.name]
                            IN  Val({g.type}, \E i \in DOMAIN g.members : g.members[i].name = e.name)
        [] ~IsGroup(w, e) /\ ~r.ok -> Stuck
        [] OTHER -> Join({read(t1) : t1 \in r.types})

\* A place may be written: it is no constant.
Writable(e, w, s) ==
  CASE e.kind = "Identifier" -> Bound(s, e.name) /\ ~Binding(s, e.name).const
    [] e.kind = "MemberExpr" ->
         ~IsGroup(w, e) /\ \A t1 \in Run("Expr", e.target, w, s).types :
                             LET f == Nearest(w, t1.name, "fields", e.name) IN f = <<>> \/ ~f[1].isConst
    [] e.kind = "IndexExpr" -> \A t1 \in Run("Expr", e.target, w, s).types : t1.name = "list"
    [] OTHER -> TRUE

Numeric == {Of("int"), Of("float"), Of("byte")}

EvalBinary(e, w, s) ==
  LET l  == Run("Expr", e.left, w, s)
      r  == Run("Expr", e.right, w, s)
      ts == l.types \cup r.types
      ok == l.ok /\ r.ok /\ Cardinality(ts) <= 1
  IN  CASE e.op \in {"==", "!=", "<", "<=", ">", ">="} -> Val({BoolType}, ok)
        [] e.op \in {"&&", "||"} -> Val({BoolType}, ok /\ ts \subseteq {BoolType})
        [] e.op \in {"+", "-", "*", "/", "%"} -> Val(l.types, ok /\ ts \subseteq Numeric)
        [] OTHER -> Val(l.types, ok /\ ts \subseteq {IntType, Of("byte")})

\* What an operator with one operand takes is not said: the analyzer accepts
\* any type (README.md).
EvalUnary(e, w, s) ==
  LET r == Run("Expr", e.expr, w, s)
  IN  CASE e.op = "!" -> Val({BoolType}, r.ok)
        [] e.op \in {"++", "--"} -> Val(r.types, r.ok /\ Writable(e.expr, w, s))
        [] OTHER -> r

\* All elements of a list are of the type of the first.
EvalItems(es, w, s) ==
  LET first == Run("Expr", es[1], w, s)
  IN  Val({ListOf(t1) : t1 \in first.types},
          /\ \A i \in DOMAIN es : LET v == Run("Expr", es[i], w, s)
                                  IN  v.ok /\ \A t1 \in first.types : All(w, v.types, t1))

Eval(e, w, s) ==
  CASE e.kind = "Literal" -> Val({Of(e.type)}, TRUE)
    [] e.kind = "Identifier" -> IF Bound(s, e.name) THEN Val(Binding(s, e.name).types, TRUE) ELSE Stuck
    [] e.kind \in {"UnaryExpr", "PostfixExpr"} -> EvalUnary(e, w, s)
    [] e.kind = "BinaryExpr" -> EvalBinary(e, w, s)
    [] e.kind = "ConditionalExpr" ->
         LET c == Run("Expr", e.cond, w, s)
             v == Join({Run("Expr", e.thenExpr, w, s), Run("Expr", e.elseExpr, w, s)})
         IN  Val(v.types, v.ok /\ c.ok /\ c.types \subseteq {BoolType})
    [] e.kind = "CastExpr" -> LET r == Run("Expr", e.expr, w, s) IN Val({e.targetType}, r.ok /\ r.types \subseteq Numeric)
    [] e.kind = "CallExpr" -> EvalCall(e, w, s)
    [] e.kind = "IndexExpr" ->
         LET r == Run("Expr", e.target, w, s)
             i == Run("Expr", e.index, w, s)
         IN  Val(UNION {Below(w, ElementType(t1)) : t1 \in r.types},
                 /\ r.ok /\ \A t1 \in r.types : t1.name = "list"
                 /\ i.ok /\ i.types \subseteq {IntType})
    [] e.kind = "MemberExpr" -> EvalMember(e, w, s)
    [] e.kind = "ListLiteral" -> IF e.items = <<>> THEN Val({ListOf(Void)}, TRUE) ELSE EvalItems(e.items, w, s)
    [] OTHER -> Stuck

-----------------------------------------------------------------------------
\* Statements.  A state s also says whether nothing has got stuck so far.

Check(s, ok)  == [s EXCEPT !.ok = @ /\ ok]
Enter(s)      == [s EXCEPT !.vars = Append(@, <<>>)]
Leave(s)      == [s EXCEPT !.vars = Front(@)]
Bind(s, x, type, const, ts) ==
  [Check(s, x \notin DOMAIN Last(s.vars)) EXCEPT
     !.vars[Len(s.vars)] = (x :> [types |-> ts, declared |-> type, const |-> const]) @@ @]

\* After one of two ways a variable has the types of both.
Either(s1, s2) ==
  [Check(s1, s2.ok) EXCEPT
     !.vars = [i \in DOMAIN @ |-> [x \in DOMAIN @[i] |-> [@[i][x] EXCEPT !.types = @ \cup s2.vars[i][x].types]]]]

Body(b, w, s)  == Leave(Run("Stmt", b, w, Enter(s)))
Holds(e, w, s) == LET v == Run("Expr", e, w, s) IN Check(s, v.ok /\ v.types \subseteq {BoolType})
Value(e, w, s) == Check(s, Run("Expr", e, w, s).ok)

ExecAll(ss, w, s) == Pass(LAMBDA before, st : Run("Stmt", st, w, before), s, ss)

\* What a loop does to the types is done after two turns here: no sample has
\* a longer chain of variables.
Turns(turn(_), s) == Either(s, Either(turn(s), turn(Either(s, turn(s)))))

ExecDecl(st, w, s) ==
  LET v    == Run("Expr", st.init[1], w, s)
      type == IF st.declaredType = <<>> THEN NoType ELSE st.declaredType[1]
      ts   == CASE st.init = <<>> -> {type}
                [] st.init # <<>> /\ type # NoType -> As(type, st.init[1], v.types)
                [] OTHER -> v.types
      fits == type = NoType \/ All(w, ts, type)
      known == IF type = NoType /\ Cardinality(ts) = 1 THEN CHOOSE t1 \in ts : TRUE ELSE type
  IN  Bind(Check(s, st.init = <<>> \/ (v.ok /\ fits)), st.name, known, st.isConst, ts)

\* A declared type is the type of the place; a field has one, an element too.
ExecAssign(st, w, s) ==
  LET v  == Run("Expr", st.expr, w, s)
      l  == Run("Expr", st.target, w, s)
      places == CASE st.target.kind = "Identifier" /\ Bound(s, st.target.name) -> {Binding(s, st.target.name).declared} \ {NoType}
                  [] st.target.kind = "MemberExpr" ->
                       UNION {{f.type : f \in {Nearest(w, t1.name, "fields", st.target.name)[i] :
                                                 i \in DOMAIN Nearest(w, t1.name, "fields", st.target.name)}} :
                                t1 \in Run("Expr", st.target.target, w, s).types}
                  [] st.target.kind = "IndexExpr" -> {ElementType(t1) : t1 \in Run("Expr", st.target.target, w, s).types}
                  [] OTHER -> {}
      ts == IF places = {} THEN v.types ELSE UNION {As(p, st.expr, v.types) : p \in places}
      ok == v.ok /\ l.ok /\ Writable(st.target, w, s) /\ (\A p \in places : All(w, ts, p))
            /\ (st.op # "=" => l.types \cup v.types \subseteq Numeric)
      x  == st.target.name
      in == CHOOSE i \in DOMAIN s.vars : x \in DOMAIN s.vars[i] /\ \A j \in DOMAIN s.vars : j > i => x \notin DOMAIN s.vars[j]
  IN  IF st.target.kind = "Identifier" /\ Bound(s, st.target.name)
      THEN [Check(s, ok) EXCEPT !.vars[in][x].types = ts]
      ELSE Check(s, ok)

ExecForOf(st, w, s) ==
  LET r    == Run("Expr", st.iterExpr, w, s)
      ts   == UNION {Below(w, ElementType(t1)) : t1 \in r.types}
      type == IF st.iterVar.declaredType = <<>> THEN NoType ELSE st.iterVar.declaredType[1]
      fits == r.ok /\ (\A t1 \in r.types : t1.name = "list") /\ (type = NoType \/ All(w, ts, type))
      turn(before) == Leave(Run("Stmt", st.body, w, Bind(Enter(before), st.iterVar.name, type, FALSE, ts)))
  IN  Turns(turn, Check(s, fits))

ExecFor(st, w, s) ==
  LET part(p, before) == IF p = <<>> THEN before
                         ELSE IF p[1].kind \in {"VarDecl", "AssignStmt"} THEN Run("Stmt", p[1], w, before)
                         ELSE Value(p[1], w, before)
      turn(before) == part(st.step, Run("Stmt", st.body, w, IF st.cond = <<>> THEN before ELSE Holds(st.cond[1], w, before)))
  IN  Leave(Turns(turn, part(st.init, Enter(s))))

ExecSwitch(st, w, s) ==
  LET clause(ss) == Leave(ExecAll(ss, w, Enter(s)))
      ways == [i \in DOMAIN st.cases |-> clause(st.cases[i].stmts)]
              \o (IF st.defaultCase = <<>> THEN <<>> ELSE << clause(st.defaultCase[1]) >>)
  IN  Pass(Either, Value(st.expr, w, s), ways)

\* A clause starts with what the try block may have done.
ExecTry(st, w, s) ==
  LET tried == Either(s, Body(st.tryBlock, w, s))
      caught(c) ==
        LET entered == Check(Enter(tried), Is1(w, c.type, Of("Exception")))
        IN  Leave(Run("Stmt", c.block, w, Bind(entered, c.name, c.type, FALSE, Below(w, c.type))))
      after == Pass(Either, tried, [i \in DOMAIN st.catches |-> caught(st.catches[i])])
  IN  IF st.finallyBlock = <<>> THEN after ELSE Body(st.finallyBlock[1], w, after)

Exec(st, w, s) ==
  CASE st.kind = "VarDecl"    -> ExecDecl(st, w, s)
    [] st.kind = "AssignStmt" -> ExecAssign(st, w, s)
    [] st.kind = "ExprStmt"   -> Value(st.expr, w, s)
    [] st.kind = "Block"      -> Leave(ExecAll(st.stmts, w, Enter(s)))
    [] st.kind = "IfStmt"     ->
         LET c == Holds(st.cond, w, s)
         IN  Either(Body(st.thenBranch, w, c), IF st.elseBranch = <<>> THEN c ELSE Body(st.elseBranch[1], w, c))
    [] st.kind \in {"WhileStmt", "DoWhileStmt"} -> Turns(LAMBDA before : Body(st.body, w, Holds(st.cond, w, before)), s)
    [] st.kind = "ForStmt"    -> IF st.forKind = "classic" THEN ExecFor(st, w, s) ELSE ExecForOf(st, w, s)
    [] st.kind = "SwitchStmt" -> ExecSwitch(st, w, s)
    [] st.kind = "TryStmt"    -> ExecTry(st, w, s)
    [] st.kind = "ReturnStmt" ->
         IF st.expr = <<>> THEN s
         ELSE LET v == Run("Expr", st.expr[1], w, s) IN Check(s, v.ok /\ All(w, As(s.ret, st.expr[1], v.types), s.ret))
    [] st.kind = "ThrowStmt"  ->
         LET v == Run("Expr", st.expr, w, s) IN Check(s, v.ok /\ All(w, v.types, Of("Exception")))
    [] OTHER -> s

Run(what, node, w, s) ==
  CASE what = "Expr" -> Eval(node, w, s)
    [] what = "Stmt" -> Exec(node, w, s)

-----------------------------------------------------------------------------
\* Every body, called as its declaration says, goes through.

Param(type) == [types |-> {type}, declared |-> type, const |-> FALSE]

BodyGoes(w, proto, fn) ==
  LET type(p) == IF p.variadic THEN ViewOf(ElementType(p.type)) ELSE p.type
      params  == [x \in NamesOf(fn.params) |->
                    LET p == FirstOf(fn.params, x) IN [Param(type(p)) EXCEPT !.types = Below(w, type(p))]]
      self    == IF proto = "" THEN <<>> ELSE "self" :> [Param(Of(proto)) EXCEPT !.types = Below(w, Of(proto))]
  IN  Run("Stmt", fn.body, w, [vars |-> <<params @@ self>>, proto |-> proto, ret |-> fn.retType, ok |-> TRUE]).ok

\* The bodies of a world, each with the prototype it belongs to.
Bodies(w) ==
  {<<"", w.bodies[f]>> : f \in DOMAIN w.bodies}
  \cup UNION {{<<p, w.protos[p].methods[i]>> : i \in DOMAIN w.protos[p].methods} : p \in DOMAIN w.protos}

NeverStuck(program) == LET w == World(program) IN \A b \in Bodies(w) : BodyGoes(w, b[1], b[2])
=============================================================================
