----------------------------- MODULE FrontendPrograms -----------------------------
(***************************************************************************)
(* Programs for the front end, as trees, in families: every expression of   *)
(* two operators, the statements and declarations of the grammar, and       *)
(* bodies of a declaration and two uses over prototypes that do or do not   *)
(* fit together.  Most of the last are wrong, and the analyzer has to say   *)
(* so.  A program is regular when it stays away from what the analyzer is   *)
(* known not to look at (README.md lists it).                               *)
(***************************************************************************)
EXTENDS Integers, Sequences, SequencesExt

\* The nodes of the parser.
Ty(name)        == [name |-> name, args |-> <<>>]
Gen(name, args) == [name |-> name, args |-> args]
IntTy  == Ty("int")
BoolTy  == Ty("bool")
Ints  == Gen("list", <<IntTy>>)

Id(x)       == [kind |-> "Identifier", name |-> x]
Num(v)      == [kind |-> "Literal", type |-> "int", value |-> v]
Float(v)    == [kind |-> "Literal", type |-> "float", value |-> v]
Str(v)      == [kind |-> "Literal", type |-> "string", value |-> v]
True        == [kind |-> "Literal", type |-> "bool", value |-> "true"]
False       == [kind |-> "Literal", type |-> "bool", value |-> "false"]
Super       == [kind |-> "SuperExpr"]
Un(op, e)   == [kind |-> "UnaryExpr", op |-> op, expr |-> e]
Post(op, e) == [kind |-> "PostfixExpr", op |-> op, expr |-> e]
Bin(op, l, r) == [kind |-> "BinaryExpr", op |-> op, left |-> l, right |-> r]
If3(c, a, b)  == [kind |-> "ConditionalExpr", cond |-> c, thenExpr |-> a, elseExpr |-> b]
Cast(type, e) == [kind |-> "CastExpr", targetType |-> type, expr |-> e]
Call(f, as) == [kind |-> "CallExpr", callee |-> f, args |-> as]
Dot(e, x)   == [kind |-> "MemberExpr", target |-> e, name |-> x]
At1(e, i)   == [kind |-> "IndexExpr", target |-> e, index |-> i]
List(es)    == [kind |-> "ListLiteral", items |-> es]
Map(k, v)   == [kind |-> "MapLiteral", pairs |-> << [kind |-> "MapPair", key |-> k, value |-> v] >>]
Send(e, m, as) == Call(Dot(e, m), as)

Decl(type, x, e)  == [kind |-> "VarDecl", declaredType |-> <<type>>, name |-> x, init |-> <<e>>, isConst |-> FALSE]
Const1(type, x, e) == [Decl(type, x, e) EXCEPT !.isConst = TRUE]
Bare(type, x)     == [kind |-> "VarDecl", declaredType |-> <<type>>, name |-> x, init |-> <<>>, isConst |-> FALSE]
Var(x, e)         == [kind |-> "VarDecl", declaredType |-> <<>>, name |-> x, init |-> <<e>>, isConst |-> FALSE]
Set(l, op, e)     == [kind |-> "AssignStmt", target |-> l, op |-> op, expr |-> e]
Do(e)             == [kind |-> "ExprStmt", expr |-> e]
Block(ss)         == [kind |-> "Block", stmts |-> ss]
If(c, s)          == [kind |-> "IfStmt", cond |-> c, thenBranch |-> s, elseBranch |-> <<>>]
IfElse(c, s, u)   == [kind |-> "IfStmt", cond |-> c, thenBranch |-> s, elseBranch |-> <<u>>]
While(c, s)       == [kind |-> "WhileStmt", cond |-> c, body |-> s]
DoWhile(s, c)     == [kind |-> "DoWhileStmt", body |-> s, cond |-> c]
For(i, c, u, s)   == [kind |-> "ForStmt", forKind |-> "classic", init |-> i, cond |-> c, step |-> u, body |-> s]
Each1(k, type, x, e, s) ==
  [kind |-> "ForStmt", forKind |-> k, iterVar |-> [declaredType |-> type, name |-> x], iterExpr |-> e, body |-> s]
Switch(e, cs, d)  == [kind |-> "SwitchStmt", expr |-> e, cases |-> cs, defaultCase |-> d]
Case(v, ss)       == [value |-> v, stmts |-> ss]
Try(b, cs, f)     == [kind |-> "TryStmt", tryBlock |-> b, catches |-> cs, finallyBlock |-> f]
Catch(type, x, b) == [type |-> type, name |-> x, block |-> b]
Ret(e)            == [kind |-> "ReturnStmt", expr |-> <<e>>]
RetVoid           == [kind |-> "ReturnStmt", expr |-> <<>>]
Throw(e)          == [kind |-> "ThrowStmt", expr |-> e]
Break             == [kind |-> "BreakStmt"]
Continue          == [kind |-> "ContinueStmt"]

Par(type, x)  == [type |-> type, name |-> x, variadic |-> FALSE]
Rest(type, x) == [type |-> type, name |-> x, variadic |-> TRUE]
Fun(x, ps, type, ss) == [kind |-> "FunctionDecl", name |-> x, params |-> ps, retType |-> type, body |-> Block(ss)]
Meth(x, ps, type, ss) == Fun(x, ps, type, ss) @@ [visibility |-> "public"]
Hidden(d)     == [d EXCEPT !.visibility = "internal"]
FieldOf(type, x, init) == [type |-> type, name |-> x, init |-> init, isConst |-> FALSE, visibility |-> "public"]
ConstField(type, x, init) == [FieldOf(type, x, init) EXCEPT !.isConst = TRUE]
Proto(x, parent, fs, ms) ==
  [kind |-> "PrototypeDecl", name |-> x, parent |-> parent, fields |-> fs, methods |-> ms, sealed |-> FALSE]
Sealed(d)     == [d EXCEPT !.sealed = TRUE]
Group(type, x, ms) == [kind |-> "GroupDecl", type |-> type, name |-> x, members |-> ms]
Member(x, e)  == [name |-> x, expr |-> e]
Import(path, alias, items) == [kind |-> "ImportDecl", path |-> path, isPath |-> FALSE, alias |-> alias, items |-> items]
ImportFile(path, alias, items) == [Import(path, alias, items) EXCEPT !.isPath = TRUE]
Item(x)       == [name |-> x, alias |-> <<>>]
ItemAs(x, y)  == [name |-> x, alias |-> <<y>>]

Program(is, ds) == [kind |-> "Program", imports |-> is, decls |-> ds]
Main(ss)        == Fun("main", <<>>, Ty("void"), ss)
Sample(p, regular) == [ast |-> p, regular |-> regular]

\* A sequence with op done to every element.
Each(op(_), s) == SelectSeq([i \in DOMAIN s |-> op(s[i])], LAMBDA x : TRUE)

\* Every way to take one element of each of two sequences.
Pairs(s, u) == FlattenSeq(Each(LAMBDA x : Each(LAMBDA y : <<x, y>>, u), s))

-----------------------------------------------------------------------------
\* Every operator with every other as one of its operands.

BinaryOps == << "||", "&&", "==", "!=", "<", "<=", ">", ">=", "<<", ">>", "+", "-", "|", "^", "*", "/", "%", "&" >>
Shapes == << "||", "&&", "==", "<", ">", ">=", ">>", "+", "-", "*", "&" >>
Forms  == Shapes \o << "not", "neg", "cast", "cond", "call", "dot", "at", "post", "list" >>

Form(f, a, b) ==
  CASE f = "not"  -> Un("!", a)
    [] f = "neg"  -> Un("-", a)
    [] f = "cast" -> Cast(IntTy, a)
    [] f = "cond" -> If3(a, b, Id("x"))
    [] f = "call" -> Call(a, <<b>>)
    [] f = "dot"  -> Dot(a, "a")
    [] f = "at"   -> At1(a, b)
    [] f = "post" -> Post("++", a)
    [] f = "list" -> List(<<a, b>>)
    [] OTHER      -> Bin(f, a, b)

\* A cast stands behind no other operator, only in parentheses (README.md).
Leaf(f) == Form(f, Id("x"), Id("y"))
LeftNested(p)  == Form(p[1], Leaf(p[2]), Id("y"))
RightNested(p) == Bin(p[1], Id("x"), Leaf(p[2]))
ExprPrograms ==
  Each(LAMBDA e : Sample(Program(<<>>, << Main(<<Var("z", e)>>) >>), TRUE),
       Each(LeftNested, Pairs(Forms, Forms)) \o Each(RightNested, Pairs(Shapes, Shapes)) \o Each(Leaf, BinaryOps))

-----------------------------------------------------------------------------
\* Types, one in another, where a type may stand.

Types1 == << IntTy, Ty("P"), Ints, Gen("list", <<Ints>>), Gen("list", <<Gen("list", <<Ints>>)>>),
             Gen("map", <<Ty("string"), Ints>>), Gen("map", <<Ints, Gen("view", <<Gen("slice", <<IntTy>>)>>)>>) >>
TypePlaces(type, i) ==
  CASE i = 1 -> << Main(<<Bare(type, "x"), Set(Id("x"), "=", Bin(">>", Id("x"), Id("y")))>>) >>
    [] i = 2 -> << Fun("f", <<Par(type, "x"), Par(type, "y")>>, type, <<Ret(Id("x"))>>) >>
    [] i = 3 -> << Proto("P", <<>>, <<ConstField(type, "a", <<Num("1")>>)>>, <<Meth("m", <<Rest(type, "x")>>, type, <<>>)>>) >>
    [] i = 4 -> << Group(type, "G", <<Member("A", Bin(">", Num("1"), Num("2")))>>),
                   Main(<<Each1("of", <<type>>, "x", Id("y"), Do(Post("++", Id("z"))))>>) >>
    [] i = 5 -> << Main(<<Try(Block(<<>>), <<Catch(type, "e", Block(<<Const1(type, "x", List(<<>>))>>))>>, <<>>)>>) >>
TypePrograms ==
  Each(LAMBDA p : Sample(Program(<<>>, TypePlaces(p[1], p[2])), TRUE), Pairs(Types1, <<1, 2, 3, 4, 5>>))

-----------------------------------------------------------------------------
\* Prototypes: Q stands below P and overrides get and make in a way.

P == Proto("P", <<>>,
           << FieldOf(IntTy, "a", <<Num("1")>>), Hidden(FieldOf(IntTy, "h", <<>>)), ConstField(IntTy, "k", <<Num("2")>>) >>,
           << Meth("get", <<Par(IntTy, "n")>>, IntTy, <<Ret(Bin("+", Id("n"), Dot(Id("self"), "h")))>>),
              Meth("make", <<>>, Ty("P"), <<Ret(Call(Dot(Id("P"), "clone"), <<>>))>>),
              Hidden(Meth("low", <<>>, IntTy, <<Ret(Send(Id("self"), "get", <<Num("1")>>))>>)) >>)
E1 == Proto("E", <<"Exception">>, <<>>, <<>>)

Overrides == << "none", "covariant", "wider", "other", "params", "internal", "field", "super", "count", "hidden", "twice" >>
Q(o) ==
  LET with(fs, ms) == Proto("Q", <<"P">>, fs, ms)
      b == FieldOf(IntTy, "b", <<>>)
      make(type, ss) == Meth("make", <<>>, type, ss)
      new(p) == Ret(Call(Dot(Id(p), "clone"), <<>>))
  IN  CASE o = "none"      -> with(<<b>>, <<>>)
        [] o = "covariant" -> with(<<b>>, <<make(Ty("Q"), <<new("Q")>>)>>)
        [] o = "wider"     -> with(<<b>>, <<make(Ty("Object"), <<new("P")>>)>>)
        [] o = "other"     -> with(<<b>>, <<make(IntTy, <<Ret(Num("1"))>>)>>)
        [] o = "params"    -> with(<<b>>, <<Meth("get", <<Par(BoolTy, "n")>>, IntTy, <<Ret(Num("1"))>>)>>)
        [] o = "internal"  -> with(<<b>>, <<Hidden(Meth("get", <<Par(IntTy, "n")>>, IntTy, <<Ret(Id("n"))>>))>>)
        [] o = "field"     -> with(<<FieldOf(BoolTy, "a", <<True>>), b>>, <<>>)
        [] o = "super"     -> with(<<b>>, <<Meth("get", <<Par(IntTy, "n")>>, IntTy,
                                              <<Ret(Bin("*", Send(Super, "get", <<Id("n")>>), Send(Super, "low", <<>>)))>>)>>)
        [] o = "count"     -> with(<<b>>, <<Meth("get", <<Par(IntTy, "n"), Par(IntTy, "m")>>, IntTy, <<Ret(Id("m"))>>)>>)
        [] o = "hidden"    -> with(<<b>>, <<Meth("low", <<>>, IntTy, <<Ret(Dot(Id("self"), "h"))>>)>>)
        [] o = "twice"     -> with(<<b, b>>, <<Meth("q", <<>>, IntTy, <<>>), Meth("q", <<>>, BoolTy, <<>>)>>)

New(p) == Call(Dot(Id(p), "clone"), <<>>)
X == Id("x")

\* What may be done with an object x of type P.
ObjectUses ==
  << Var("y", Bin("+", Send(X, "get", <<Num("1")>>), Num("2"))),
     Set(Dot(Send(X, "make", <<>>), "a"), "=", Num("2")),
     Var("y", Dot(X, "h")),
     Do(Send(X, "low", <<>>)),
     Set(Dot(X, "k"), "+=", Num("1")),
     Do(Post("++", Dot(X, "a"))),
     Set(Dot(X, "b"), "=", Num("1")),
     Set(X, "=", New("Q")),
     Decl(Ty("Q"), "y", Send(X, "make", <<>>)),
     Throw(X) >>
ObjectDecls == <<Decl(Ty("P"), "x", New("Q")), Var("x", New("Q")), Decl(Ty("Q"), "x", New("P"))>>
ObjectPrograms ==
  Each(LAMBDA p : Sample(Program(<<>>, << P, Q(p[1]), Main(p[2]) >>), TRUE), Pairs(Overrides, Pairs(ObjectDecls, ObjectUses)))

-----------------------------------------------------------------------------
\* Locals: a declaration of x and two uses.

LocalDecls ==
  << Decl(IntTy, "x", Num("1")), Var("x", True), Const1(IntTy, "x", Num("2")), Decl(Ty("byte"), "x", Num("1")),
     Decl(Ints, "x", List(<<>>)), Var("x", List(<<Num("1"), Num("2")>>)), Bare(Ty("float"), "x"),
     Decl(IntTy, "y", Cast(IntTy, Float("2.0"))), Var("x", List(<<>>)) >>
Wrap(s) == Block(<<s>>)
LocalUses ==
  << Set(X, "=", Bin("-", X, Num("1"))),
     Do(Post("++", X)),
     Var("y", If3(Bin("==", X, Num("1")), X, Num("2"))),
     While(X, Wrap(Set(X, "=", False))),
     Set(X, "=", List(<<>>)),
     Do(Send(X, "push", <<Num("1")>>)),
     Do(Send(X, "pop", <<>>)),
     Set(At1(X, Num("1")), "=", Num("2")),
     Each1("of", <<>>, "z", X, Wrap(Var("y", Bin("+", Id("z"), Num("1"))))),
     For(<<Decl(IntTy, "i", Num("1"))>>, <<Bin("<", Id("i"), X)>>, <<Set(Id("i"), "+=", Num("1"))>>, Wrap(Continue)),
     If(Un("!", X), Var("y", Num("1"))),
     Block(<<Decl(BoolTy, "x", True), If(X, Wrap(RetVoid))>>),
     Var("x", Num("1")),
     Do(Call(Id("f"), <<X>>)),
     Set(Id("y"), "=", X) >>
F == Fun("f", <<Par(IntTy, "n")>>, IntTy, <<Ret(Bin("*", Id("n"), Num("2")))>>)
\* f is called with a value of another type, or a value that is no list is
\* used as one: nothing is said.
IsListDecl(d) == d.init # <<>> /\ d.init[1].kind = "ListLiteral"
AsList(s) == s.kind = "AssignStmt" /\ s.target.kind = "IndexExpr"
CallOf(s) == IF s.kind = "ExprStmt" /\ s.expr.kind = "CallExpr" THEN {s.expr.callee.kind} ELSE {}
RegularLocal(d, u, v) ==
  /\ "Identifier" \in CallOf(u) \cup CallOf(v) => d.declaredType = <<IntTy>> /\ d.name = "x"
  /\ AsList(u) \/ AsList(v) \/ "MemberExpr" \in CallOf(u) \cup CallOf(v) => IsListDecl(d)
LocalPrograms ==
  Each(LAMBDA p : Sample(Program(<<>>, << F, Main(<<p[1]>> \o p[2]) >>), RegularLocal(p[1], p[2][1], p[2][2])),
       Pairs(LocalDecls, Pairs(LocalUses, LocalUses)))

-----------------------------------------------------------------------------
\* The rest, one by one.

OtherMains ==
  << <<Try(Block(<<Throw(New("E"))>>), <<Catch(Ty("E"), "e", Block(<<Do(Dot(Id("e"), "line"))>>)),
                                         Catch(IntTy, "e", Block(<<>>))>>, <<Block(<<Var("y", Num("1"))>>)>>)>>,
     <<Try(Block(<<Var("x", Num("1"))>>), <<Catch(Ty("Exception"), "x", Block(<<Throw(X)>>))>>, <<Block(<<Do(X)>>)>>)>>,
     <<Try(Block(<<Throw(New("E"))>>), <<Catch(Ty("E"), "e", Block(<<Throw(Id("e"))>>))>>, <<>>)>>,
     <<Switch(Num("1"), <<Case(Num("1"), <<Var("y", Num("2")), Break>>), Case(Num("2"), <<Ret(Num("1"))>>)>>, <<<<Break>>>>)>>,
     <<Switch(Num("1"), <<Case(Num("1"), <<Var("y", Num("2"))>>)>>, <<>>)>>,
     <<Switch(Num("1"), <<Case(Num("1"), <<Var("y", Num("2")), Do(Id("y")), Break>>)>>, <<>>)>>,
     <<DoWhile(Block(<<Var("y", True)>>), True), IfElse(True, Wrap(Break), Wrap(Continue))>>,
     <<DoWhile(Wrap(Var("y", True)), Id("y"))>>,
     <<Var("y", Call(Id("f"), <<>>))>>,
     <<Var("y", Call(Id("s"), <<Num("1"), Num("2")>>))>>,
     <<Do(Call(Id("x"), <<>>)), Do(Call(Dot(X, "a"), <<>>))>>,
     <<Set(Dot(Id("G"), "A"), "=", Num("1")), Var("y", Dot(Id("G"), "A")), Do(Post("--", Dot(Id("G"), "A")))>>,
     <<Var("y", Bin("+", Dot(Id("G"), "B"), Num("1")))>>,
     <<Do(Dot(Id("G"), "C"))>>,
     <<Decl(Ty("byte"), "y", Cast(Ty("byte"), Float("2.0"))), Decl(Ty("byte"), "z", Cast(Ty("byte"), Float("1.5")))>>,
     <<Var("y", Cast(IntTy, Cast(Ty("float"), Id("y"))))>>,
     <<Decl(Ty("byte"), "y", Num("1")), Var("z", Cast(Ty("byte"), Cast(IntTy, Id("y"))))>>,
     <<Decl(IntTy, "y", Num("1")), Var("z", Cast(Ty("byte"), Un("-", Id("y"))))>>,
     <<Var("y", Map(Str("x"), Num("1"))), Do(At1(Id("y"), Str("x"))), Do(Send(Id("y"), "keys", <<>>))>>,
     <<Var("y", Map(Str("x"), Num("1"))), Each1("in", <<Ty("string")>>, "z", Id("y"), Wrap(Do(Id("z"))))>>,
     <<Var("y", Send(Str("x"), "f", <<>>)), Do(Send(Super, "get", <<>>)), Ret(Dot(Super, "a"))>>,
     <<Var("y", List(<<List(<<Num("1")>>)>>)), Decl(Gen("list", <<Ints>>), "z", Id("y")), Do(Send(Id("y"), "sort", <<>>))>>,
     <<Decl(Gen("list", <<Ty("byte")>>), "y", List(<<Num("1"), Num("2")>>)), Set(At1(Id("y"), Num("1")), "=", Num("1"))>>,
     <<For(<<Set(X, "=", Num("1"))>>, <<>>, <<Post("++", X)>>, Wrap(Break))>>,
     <<For(<<>>, <<True>>, <<>>, Wrap(Break)), For(<<Var("y", True)>>, <<Id("y")>>, <<>>, Block(<<Decl(IntTy, "y", Num("1"))>>))>>,
     <<Var("y", Un("~", Num("1"))), Var("z", Bin("&", Id("y"), True)), Decl(Ty("glyph"), "x", At1(Str("x"), Num("1")))>>,
     <<Var("y", Send(Str("x"), "length", <<>>)), Var("z", Send(Str("x"), "view", <<Num("1")>>)), Var("i", Str("x")), Set(At1(Id("i"), Num("1")), "=", Num("1"))>>,
     <<Var("y", Bin("&&", True, Num("1"))), Var("z", Bin("||", Bin("<", Num("1"), Num("2")), False))>> >>

Elsewhere ==
  << E1, F, Fun("s", <<Par(IntTy, "m"), Rest(Ints, "ns")>>, IntTy, <<Ret(Send(Id("ns"), "length", <<>>))>>),
     Group(IntTy, "G", <<Member("A", Num("1")), Member("B", Bin("+", Dot(Id("G"), "A"), Num("2")))>>) >>

\* The prototypes of the native modules.
FileMains ==
  << <<Bare(Ty("TextFile"), "x"), Var("y", Send(X, "read", <<Num("1")>>)), Do(Send(X, "read", <<>>)), Set(Id("y"), "=", Num("1"))>>,
     <<Bare(Ty("BinaryFile"), "x"), Decl(Gen("list", <<Ty("byte")>>), "y", Send(X, "read", <<Num("2")>>))>>,
     <<Bare(Ty("Walker"), "x"), Var("y", Send(X, "next", <<Num("1")>>)), Do(Send(Id("y"), "path", <<>>)), Do(Send(X, "none", <<>>))>>,
     <<Var("x", Call(Dot(Id("RegExp"), "compile"), <<Str("x"), Str("y")>>)), Do(Send(X, "test", <<Str("x")>>))>>,
     <<Try(Block(<<>>), <<Catch(Ty("IOException"), "e", Block(<<Decl(Ty("Exception"), "x", Id("e"))>>))>>, <<>>)>> >>

\* Programs whose declarations are the matter.
OtherPrograms ==
  << << Sealed(P), Q("none") >>, << Proto("P", <<"R">>, <<>>, <<>>) >>, << P, P, Proto("Object", <<>>, <<>>, <<Meth("m", <<>>, IntTy, <<Do(X)>>)>>) >>,
     << Proto("P", <<>>, <<ConstField(IntTy, "k", <<>>), FieldOf(IntTy, "a", <<Dot(Id("self"), "k")>>), FieldOf(BoolTy, "b", <<Num("1")>>)>>, <<>>) >>,
     << Proto("P", <<>>, <<ConstField(Ints, "k", <<List(<<>>)>>)>>, <<Meth("m", <<>>, Ty("P"), <<Var("y", Id("self")), Ret(Id("y"))>>)>>) >>,
     << Proto("P", <<>>, <<FieldOf(IntTy, "a", <<>>)>>,
              <<Meth("m", <<Par(Ty("P"), "other")>>, BoolTy, <<Set(Dot(Id("self"), "a"), "-=", Dot(Id("other"), "a")),
                                                             Ret(Bin("<", Dot(Id("self"), "a"), Num("1")))>>),
                Meth("compareTo", <<Par(Ty("P"), "o")>>, IntTy, <<Ret(Num("1"))>>)>>),
        Main(<<Var("x", List(<<New("P")>>)), Do(Send(X, "sort", <<>>)), Do(Send(At1(X, Num("1")), "m", <<At1(X, Num("2"))>>))>>) >>,
     << Proto("P", <<>>, <<>>, <<Meth("get", <<>>, IntTy, <<Ret(Send(Super, "none", <<>>))>>)>>) >>,
     << Fun("f", <<Par(IntTy, "x"), Par(IntTy, "x")>>, IntTy, <<Ret(Id("y"))>>), [Meth("g", <<>>, IntTy, <<>>) EXCEPT !.visibility = "internal"] >>,
     << Group(Ty("P"), "G", <<Member("A", Num("1")), Member("A", Num("2"))>>), Group(IntTy, "G", <<>>) >>,
     << Group(BoolTy, "G", <<Member("A", Bin("<", Num("1"), Num("2"))), Member("B", If3(False, False, Bin("==", Num("1"), Num("2")))),
                           Member("C", Un("!", Bin(">", Num("1"), Num("2"))))>>) >>,
     << Group(IntTy, "G", <<Member("A", Call(Id("f"), <<>>)), Member("B", Un("-", Num("2"))), Member("C", True),
                          Member("D", Cast(IntTy, Num("1"))), Member("E", Un("++", Num("1"))), Member("F", Dot(Id("H"), "A")),
                          Member("H", Bin("%", Num("2"), Bin("-", Num("1"), Num("1"))))>>) >> >>

\* What comes from other files.
ImportPrograms ==
  LET main(ss) == << Main(ss) >>
      use(f) == <<Var("y", Bin("+", Call(Id(f), <<New("M"), Num("1")>>), Num("1")))>>
      M == <<"lib", "M">>
  IN  << << <<Import(M, <<>>, <<<<Item("get")>>>>)>>, main(use("get")) >>,
         << <<Import(M, <<>>, <<<<ItemAs("get", "g"), Item("low"), Item("none")>>>>)>>, main(use("g")) >>,
         << <<Import(M, <<>>, <<<<ItemAs("get", "g")>>>>)>>, main(use("g")) >>,
         << <<ImportFile("m.pts", <<>>, <<>>)>>, main(<<Decl(Ty("M"), "x", New("M")), Do(Send(X, "get", <<Num("1")>>))>>) >>,
         << <<ImportFile("m.pts", <<"L">>, <<>>)>>, main(<<Do(Call(Dot(Id("L"), "get"), <<New("M"), Num("1")>>))>>) >>,
         << <<ImportFile("none.pts", <<>>, <<>>), ImportFile("m.txt", <<>>, <<>>), Import(<<"none">>, <<>>, <<>>),
              ImportFile("two.pts", <<>>, <<>>)>>, main(<<>>) >>,
         << <<Import(<<"ring">>, <<>>, <<>>)>>, main(<<Decl(Ty("A"), "x", New("A")), Do(Send(X, "other", <<>>))>>) >>,
         << <<Import(M, <<>>, <<>>), Import(M, <<"L">>, <<>>)>>, << Proto("M", <<>>, <<>>, <<>>), Main(<<>>) >> >>,
         << <<Import(<<"Math">>, <<>>, <<<<Item("abs"), ItemAs("abs", "f"), Item("none")>>>>)>>, main(<<Do(Call(Id("f"), <<Num("1")>>))>>) >>,
         << <<Import(<<"Math">>, <<>>, <<<<Item("abs"), ItemAs("low", "f")>>>>)>>, main(<<Do(Call(Id("abs"), <<Num("1")>>))>>) >>,
         << <<Import(<<"Math">>, <<"L">>, <<>>)>>,
            main(<<Var("y", Dot(Id("L"), "PI")), Do(Call(Dot(Id("L"), "abs"), <<>>)), Do(Call(Dot(Id("L"), "none"), <<>>))>>) >>,
         << <<Import(<<"Math">>, <<>>, <<<<>>>>)>>, main(<<Do(Call(Dot(Id("Math"), "abs"), <<Num("1")>>))>>) >> >>

Regular(p) == Sample(p, TRUE)
FrontSamples ==
  ExprPrograms \o TypePrograms \o ObjectPrograms \o LocalPrograms
  \o Each(LAMBDA ss : Regular(Program(<<>>, Elsewhere \o <<Main(ss)>>)), OtherMains)
  \o Each(LAMBDA ss : Sample(Program(<<>>, <<Main(ss)>>), FALSE), FileMains)
  \o Each(LAMBDA ds : Regular(Program(<<>>, ds)), OtherPrograms \o << <<Proto("Q", <<"RegExp">>, <<>>, <<>>), Proto("IOException", <<>>, <<>>, <<>>)>> >>)
  \o Each(LAMBDA p : Regular(Program(p[1], p[2])), ImportPrograms)

ModuleM == Program(<<>>, << Proto("M", <<>>, <<>>, << Meth("get", <<Par(IntTy, "n")>>, IntTy, <<Ret(Id("n"))>>),
                                                     Hidden(Meth("low", <<>>, IntTy, <<Ret(Num("1"))>>)) >>) >>)
Ring(x, y, to) == Program(<<Import(<<to>>, <<>>, <<>>)>>, << Proto(x, <<>>, <<>>, <<Meth("other", <<>>, Ty(y), <<Ret(New(y))>>)>>) >>)
ModuleFiles ==
  [m |-> ModuleM, two |-> Program(<<>>, <<P, E1>>), a |-> Ring("A", "B", "ring2"), b |-> Ring("B", "A", "ring")]
=============================================================================
