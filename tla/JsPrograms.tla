------------------------------- MODULE JsPrograms -------------------------------
(***************************************************************************)
(* Small programs for the reference interpreter and the generated C, in     *)
(* families, each program with a description of how it was made.  A program *)
(* is regular when it stays away from the places where the two are known to *)
(* differ, which README.md lists; the irregular ones run as well.          *)
(***************************************************************************)
EXTENDS IntWidth, Sequences, SequencesExt, TLC

-----------------------------------------------------------------------------
\* Nodes.

Lit(n)          == [k |-> "lit", type |-> "int", v |-> n]
LitBool(n)      == [k |-> "lit", type |-> "bool", v |-> n]
Unary(op, e)    == [k |-> "unary", op |-> op, e |-> e]
Bin(op, l, r)   == [k |-> "bin", op |-> op, l |-> l, r |-> r]
Var(x)          == [k |-> "var", x |-> x]
Get(e, f)       == [k |-> "get", e |-> e, f |-> f]
Index(e, i)     == [k |-> "index", e |-> e, i |-> i]
List(es)        == [k |-> "list", items |-> es]
Call(f, as)     == [k |-> "call", f |-> f, args |-> as]
Clone(p)        == [k |-> "clone", proto |-> p]
Super(m)        == [k |-> "super", m |-> m, args |-> <<>>]
On(e, p, m)     == [k |-> "mcall", recv |-> e, proto |-> p, m |-> m, args |-> <<>>]
BuiltIn(e, m, as) == [k |-> "builtin", recv |-> e, m |-> m, args |-> as]
Slice(e, as)    == [k |-> "view", m |-> "slice", recv |-> e, args |-> as]
View(e, as)     == [k |-> "view", m |-> "view", recv |-> e, args |-> as]
Inc(op, t)      == [k |-> "incdec", op |-> op, prefix |-> FALSE, target |-> t]
PreInc(op, t)   == [k |-> "incdec", op |-> op, prefix |-> TRUE, target |-> t]
Cond(c, t, e)   == [k |-> "cond", c |-> c, t |-> t, e |-> e]

Decl(x, type, e)  == [k |-> "decl", x |-> x, type |-> type, init |-> <<e>>]
Plain(x, type)    == [k |-> "decl", x |-> x, type |-> type, init |-> <<>>]
AssignTo(t, e)      == [k |-> "assign", target |-> t, expr |-> e]
Compound(op, t, e) == [k |-> "compound", op |-> op, target |-> t, expr |-> e]
Expr(e)           == [k |-> "expr", expr |-> e]
Show(e)           == [k |-> "print", expr |-> e]
Mark(n)           == Show(Lit(n))
ThrowStmt(e)          == [k |-> "throw", expr |-> e]
Ret(e)            == [k |-> "return", expr |-> <<e>>]
RetVoid           == [k |-> "return", expr |-> <<>>]
Break             == [k |-> "break"]
ContinueStmt      == [k |-> "continue"]
Block(b)          == [k |-> "block", body |-> b]
If(c, t, e)       == [k |-> "if", cond |-> c, then |-> t, else |-> e]
While(c, b)       == [k |-> "while", cond |-> c, body |-> b]
DoWhile(c, b)     == [k |-> "dowhile", cond |-> c, body |-> b]
For(i, c, s, b)   == [k |-> "for", init |-> i, cond |-> c, step |-> s, body |-> b]
ForOf(x, e, b)    == [k |-> "forof", x |-> x, iter |-> e, body |-> b]
Switch(e, cs, d)  == [k |-> "switch", expr |-> e, cases |-> cs, default |-> d]
Case(e, b)        == [value |-> e, body |-> b]
Catch(t, x, b)    == [x |-> x, type |-> t, body |-> b]
Try(b, cs, f)     == [k |-> "try", body |-> b, catches |-> cs, finally |-> f]

Func(ps, b)  == [params |-> ps, body |-> b, proto |-> "none"]
Of(p, b)   == [params |-> <<>>, body |-> b, proto |-> p]
Param(x, t) == [x |-> x, type |-> t]

\* The least int is written as the negation of a literal that is no int.
Num(n) == IF n = -(2^(Width - 1)) THEN Unary("-", [k |-> "minlit", v |-> n])
          ELSE IF n < 0 THEN Unary("-", Lit(-n)) ELSE Lit(n)

-----------------------------------------------------------------------------
\* The prototypes and the functions every program has.

None == [x \in {} |-> "int"]
Field(x, n) == [name |-> x, init |-> n]
Proto(parent, fields, methods) == [parent |-> parent, fields |-> fields, methods |-> methods]

\* E is a user exception, F a child of E, G another one.  B overrides a
\* method of A and calls the one it overrides; C clones in its own way.
SampleProtos ==
  [Exception        |-> Proto("none", <<>>, None),
   RuntimeException |-> Proto("Exception", <<>>, None),
   E |-> Proto("Exception", <<>>, None),
   F |-> Proto("E", <<>>, None),
   G |-> Proto("Exception", <<>>, None),
   A |-> Proto("none", <<Field("x", 1)>>, [get |-> "int", bump |-> "int", twice |-> "int"]),
   B |-> Proto("A", <<Field("y", 2)>>, [get |-> "int"]),
   C |-> Proto("A", <<>>, [clone |-> "C"])]

Self(f) == Get(Var("self"), f)
Common ==
  ("A.get"   :> Of("A", << Ret(Self("x")) >>)) @@
  ("A.bump"  :> Of("A", << Compound("+", Self("x"), Lit(1)), Ret(Self("x")) >>)) @@
  ("A.twice" :> Of("A", << Ret(Bin("+", On(Var("self"), "A", "get"), On(Var("self"), "A", "get"))) >>)) @@
  ("B.get"   :> Of("B", << Ret(Bin("+", Super("get"), Self("y"))) >>)) @@
  ("C.clone" :> Of("C", << Decl("c", "C", Super("clone")), AssignTo(Get(Var("c"), "x"), Lit(3)), Ret(Var("c")) >>)) @@
  ("say"     :> Func(<<Param("n", "int")>>, << Show(Var("n")), Ret(Var("n")) >>)) @@
  ("yes"     :> Func(<<Param("n", "int")>>, << Show(Var("n")), Ret(Bin(">", Var("n"), Lit(0))) >>)) @@
  ("fact"    :> Func(<<Param("n", "int")>>,
                   << If(Bin("<=", Var("n"), Lit(1)), <<Ret(Lit(1))>>, <<>>),
                      Ret(Bin("*", Var("n"), Call("fact", <<Bin("-", Var("n"), Lit(1))>>))) >>)) @@
  ("raise"   :> Func(<<Param("n", "int")>>,
                   << Switch(Var("n"), << Case(Lit(0), <<ThrowStmt(Clone("F"))>>),
                                          Case(Lit(1), <<Ret(Bin("/", Lit(1), Bin("-", Var("n"), Var("n"))))>>) >>,
                             << <<Mark(6)>> >>),
                      Ret(Var("n")) >>)) @@
  ("safe"    :> Func(<<Param("n", "int")>>,
                   << Try(<<Show(Call("raise", <<Var("n")>>))>>, <<Catch("F", "e", <<Mark(7)>>)>>, <<>>), Ret(Var("n")) >>)) @@
  ("leak"    :> Func(<<Param("n", "int")>>,
                   << Try(<<Ret(Var("n"))>>, <<Catch("Exception", "e", <<Ret(Lit(0))>>)>>, <<>>) >>)) @@
  ("plus"    :> Func(<<Param("m", "int"), Param("n", "int")>>, << Ret(Bin("+", Var("m"), Var("n"))) >>)) @@
  ("half"    :> Func(<<Param("n", "int")>>, << Ret(Bin("/", Lit(6), Var("n"))) >>)) @@
  ("pick"    :> Func(<<Param("n", "int")>>, << Ret(Cond(Bin(">", Var("n"), Lit(1)), Var("n"), Unary("-", Var("n")))) >>)) @@
  ("sum"     :> Func(<<Param("a", "list")>>,
                   << Decl("s", "int", Lit(0)), ForOf("x", Var("a"), <<Compound("+", Var("s"), Var("x"))>>),
                      Ret(Var("s")) >>)) @@
  ("grow"    :> Func(<<Param("a", "list")>>, << Expr(BuiltIn(Var("a"), "push", <<Lit(5)>>)), Ret(Lit(0)) >>)) @@
  ("share"   :> Func(<<>>, << Decl("a", "list", List(<<Lit(2), Lit(4)>>)), Ret(Slice(Var("a"), <<Lit(0), Lit(2)>>)) >>))

Returns ==
  [f \in DOMAIN Common \cup {"main"} |->
     CASE f = "main" -> "void" [] f = "yes" -> "bool" [] f = "share" -> "view" [] f = "C.clone" -> "C"
       [] OTHER -> "int"]

Sample(body, regular) == [main |-> Func(<<>>, body), regular |-> regular]
\* Regular without the optimizer; with it, only if folds.
Folding(sample, folds) == [sample EXCEPT !.regular = @ /\ folds]

\* Runtime errors are shown, everything else goes through.
Guarded(body) == << Try(body, << Catch("RuntimeException", "e", <<Show(Get(Var("e"), "code"))>>) >>, <<>>) >>

\* Every way to take one element of each of three sequences.
Triples(s, t, u) ==
  [i \in 1..(Len(s) * Len(t) * Len(u)) |->
     LET j == i - 1
     IN  << s[(j \div (Len(t) * Len(u))) + 1], t[((j \div Len(u)) % Len(t)) + 1], u[(j % Len(u)) + 1] >>]

-----------------------------------------------------------------------------
\* Integers: an operator between two values of the range.

IntMin == -(2^(Width - 1))
IntMax == 2^(Width - 1) - 1
Bounds == << IntMin, -1, 0, 1, 3, IntMax >>
Arith  == << "+", "-", "*", "/", "%", "<<", ">>", "==", "<", ">=" >>

\* The least value divided by -1, and what << shifts out, go unseen.
RegularArith(op, l, r) ==
  /\ op \in {"/", "%"} => ~(l = IntMin /\ r = -1)
  /\ (op = "<<" /\ r \in 0..(Width - 1)) => l * 2^r \in IntMin..IntMax

ArithSample(s) ==
  Sample(Guarded(<< Decl("a", "int", Num(s[2])), Decl("b", "int", Num(s[3])),
                    Show(Bin(s[1], Var("a"), Var("b"))) >>),
         RegularArith(s[1], s[2], s[3]))

CompoundSample(s) ==
  Sample(Guarded(<< Decl("a", "list", List(<<Num(s[2])>>)), Decl("o", "A", Clone("A")),
                    Decl("b", "int", Num(s[3])),
                    AssignTo(Get(Var("o"), "x"), Index(Var("a"), Lit(0))),
                    Compound(s[1], Get(Var("o"), "x"), Var("b")), Show(Get(Var("o"), "x")) >>),
         RegularArith(s[1], s[2], s[3]))

\* ++ and -- of a variable, a field and an element; unary minus.
Targets == << Var("a"), Get(Var("o"), "x"), Index(Var("l"), Lit(0)) >>
IncSample(s) ==
  LET op == s[1][1]
      e == CASE s[1][2] = "pre"  -> PreInc(op, s[2])
             [] s[1][2] = "post" -> Inc(op, s[2])
             [] OTHER            -> Unary("-", s[2])
  IN  Sample(Guarded(<< Decl("a", "int", Num(s[3])), Decl("o", "A", Clone("A")),
                        Decl("l", "list", List(<<Var("a")>>)),
                        AssignTo(Get(Var("o"), "x"), Var("a")), Show(e), Show(s[2]) >>),
             ~(s[3] = IntMax /\ op = "++") /\ ~(s[3] = IntMin /\ op = "--"))
Ins == << <<"++", "pre">>, <<"--", "post">>, <<"--", "minus">> >>

IntSamples ==
     [i \in DOMAIN Triples(Arith, Bounds, Bounds) |-> ArithSample(Triples(Arith, Bounds, Bounds)[i])]
  \o [i \in DOMAIN Triples(<<"+", "/", "*">>, Bounds, Bounds) |->
        CompoundSample(Triples(<<"+", "/", "*">>, Bounds, Bounds)[i])]
  \o [i \in DOMAIN Triples(Ins, Targets, Bounds) |-> IncSample(Triples(Ins, Targets, Bounds)[i])]

-----------------------------------------------------------------------------
\* Control: a statement in the hole of a construct in that of another.

Leaf(l) ==
  CASE l = "mark"     -> <<Mark(7)>>
    [] l = "throwE"   -> <<ThrowStmt(Clone("E"))>>
    [] l = "throwG"   -> <<ThrowStmt(Clone("G"))>>
    [] l = "raise"    -> <<Show(Call("raise", <<Lit(0)>>))>>
    [] l = "fault"    -> <<Show(Call("raise", <<Lit(1)>>))>>
    [] l = "call"     -> <<Show(Call("raise", <<Lit(2)>>))>>
    [] l = "return"   -> <<RetVoid>>
    [] l = "break"    -> <<Break>>
    [] l = "continue" -> <<ContinueStmt>>

\* Construct s with h in its hole; i and x are names for its variables.
Fill(s, h, i, x) ==
  (CASE s = "if"      -> <<If(LitBool(1), h, <<>>)>>
     [] s = "else"    -> <<If(LitBool(0), <<Mark(1)>>, <<h>>)>>
     [] s = "while"   -> <<Decl(i, "int", Lit(0)),
                           While(Bin("<", Var(i), Lit(2)), <<Expr(Inc("++", Var(i)))>> \o h \o <<Mark(2)>>)>>
     [] s = "dowhile" -> <<Decl(i, "int", Lit(0)),
                           DoWhile(Bin("<", PreInc("++", Var(i)), Lit(2)), h)>>
     [] s = "for"     -> <<For(<<Decl(i, "int", Lit(0))>>, <<Bin("<", Var(i), Lit(2))>>,
                               <<Expr(Inc("++", Var(i)))>>, h)>>
     [] s = "forever" -> <<For(<<>>, <<>>, <<>>, h \o <<Break>>)>>
     [] s = "forof"   -> <<ForOf(x, List(<<Lit(4), Lit(5)>>), <<Show(Var(x))>> \o h)>>
     [] s = "case"    -> <<Switch(Lit(1), <<Case(Lit(0), <<Mark(1)>>), Case(Lit(1), h)>>, <<<<Mark(2)>>>>)>>
     [] s = "default" -> <<Switch(Lit(3), <<Case(Lit(0), <<Mark(1)>>)>>, <<<<Block(h)>>>>)>>
     [] s = "tryE"    -> <<Try(h, <<Catch("E", x, <<Mark(2)>>)>>, <<>>)>>
     [] s = "tryFRt"  -> <<Try(h, <<Catch("F", x, <<Mark(2)>>), Catch("RuntimeException", x, <<Mark(3)>>)>>, <<>>)>>
     [] s = "catch"   -> <<Try(<<ThrowStmt(Clone("F"))>>, <<Catch("G", x, <<Mark(2)>>), Catch("E", x, h)>>, <<>>)>>
     [] s = "tryFin"  -> <<Try(h, <<>>, <<<<Mark(4)>>>>)>>
     [] s = "finally" -> <<Try(<<Mark(4)>>, <<>>, <<h>>)>>
     [] s = "pending" -> <<Try(<<ThrowStmt(Clone("G"))>>, <<>>, <<h>>)>>
     [] s = "tryAllFin" -> <<Try(h, <<Catch("Exception", x, <<Mark(2)>>)>>, <<<<Mark(4)>>>>)>>
     [] s = "catchFin" -> <<Try(<<ThrowStmt(Clone("E"))>>, <<Catch("E", x, h)>>, <<<<Mark(4)>>>>)>>)
  \o <<Mark(1)>>

Constructs == << "if", "else", "while", "dowhile", "for", "forever", "forof", "case", "default",
                 "tryE", "tryFRt", "catch", "tryFin", "finally", "pending", "tryAllFin", "catchFin" >>
Outer == SelectSeq(Constructs, LAMBDA c : c \notin {"if", "else", "dowhile", "forever", "case", "default"})
Leaves == << "mark", "throwE", "throwG", "raise", "fault", "call", "return", "break", "continue" >>
Loops  == {"while", "dowhile", "for", "forever", "forof"}
Bodies == {"tryE", "tryFRt", "tryFin", "tryAllFin"}

\* Where a break or a continue of s[3] ends: the constructs it leaves.
Left(s) ==
  LET ends(c) == c \in Loops \/ (s[3] = "break" /\ c \in {"case", "default"})
  IN  IF s[3] = "return" THEN {s[1], s[2]}
      ELSE IF s[3] \notin {"break", "continue"} \/ ends(s[2]) THEN {}
      ELSE {s[2]}
\* A continue of a loop without an end would never end.
Legal(s) ==
  LET ends(c) == c \in Loops \/ (s[3] = "break" /\ c \in {"case", "default"})
  IN  /\ s[3] \in {"break", "continue"} => ends(s[1]) \/ ends(s[2])
      /\ s[3] = "continue" => "forever" \notin {s[1], s[2]}

Raising == {"throwE", "throwG", "raise", "fault"}
Types(l) == CASE l = "throwE" -> {"E"} [] l = "throwG" -> {"G"} [] l = "raise" -> {"F", "E"}
              [] l = "fault" -> {"RuntimeException"} [] OTHER -> {}
\* No jump leaves a try or the clause of a try with a finally block; no
\* clause of such a try lets an exception through; a finally block with an
\* exception pending catches none.
RegularControl(s) ==
  /\ Left(s) \cap (Bodies \cup {"catchFin"}) = {}
  /\ s[1] = "catchFin" => s[2] # "pending"
  /\ s[1] = "catchFin" => s[3] \notin Raising \/ s[2] \in {"tryAllFin"}
                            \/ (s[2] = "tryE" /\ "E" \in Types(s[3]))
                            \/ (s[2] = "tryFRt" /\ Types(s[3]) \cap {"F", "RuntimeException"} # {})
  /\ s[2] = "catchFin" => s[3] \notin Raising
  /\ s[1] \in {"pending"} => s[2] \notin Bodies \cup {"catch", "catchFin", "pending"} \/ s[3] = "return"

ControlSample(s) == Sample(Fill(s[1], Fill(s[2], Leaf(s[3]), "j", "y"), "i", "x"), RegularControl(s))
ControlSamples ==
  LET legal == SelectSeq(Triples(Outer, Constructs, Leaves), Legal)
  IN  [i \in DOMAIN legal |-> ControlSample(legal[i])]

-----------------------------------------------------------------------------
\* Lists: three operations on a list a and a view v of it.

A == Var("a")
V == Var("v")
ListOp(o) ==
  CASE o = "push"     -> <<Expr(BuiltIn(A, "push", <<Lit(7)>>))>>
    [] o = "pop"      -> <<Show(BuiltIn(A, "pop", <<>>))>>
    [] o = "remove"   -> <<Expr(BuiltIn(A, "removeLast", <<>>))>>
    [] o = "reverse"  -> <<Expr(BuiltIn(A, "reverse", <<>>))>>
    [] o = "sort"     -> <<Expr(BuiltIn(A, "sort", <<>>))>>
    [] o = "contains" -> <<Show(BuiltIn(A, "contains", <<Lit(3)>>))>>
    [] o = "set"      -> <<AssignTo(Index(A, Lit(1)), Lit(6))>>
    [] o = "view"     -> <<AssignTo(V, Slice(A, <<Lit(0), Lit(1)>>))>>
    [] o = "subview"  -> <<AssignTo(V, Slice(V, <<Lit(1), Lit(1)>>))>>
    [] o = "setview"  -> <<AssignTo(Index(V, Lit(0)), Lit(5))>>
    [] o = "showview" -> <<Show(Index(V, Lit(1)))>>
    [] o = "length"   -> <<Show(BuiltIn(V, "length", <<>>)), Show(BuiltIn(A, "length", <<>>))>>
    [] o = "forview"  -> <<ForOf("x", V, <<Show(Var("x"))>>)>>
    [] o = "sum"      -> <<Show(Call("sum", <<A>>))>>
    [] o = "readonly" -> <<ForOf("x", View(View(A, <<Lit(0), Lit(1)>>), <<Lit(0), Lit(1)>>), <<Show(Var("x"))>>)>>
    \* the irregular ones
    [] o = "whole"    -> <<AssignTo(V, Slice(A, <<>>))>>
    [] o = "grow"     -> <<Expr(Call("grow", <<A>>))>>
    [] o = "loop"     -> <<ForOf("x", A, <<If(Bin("<", BuiltIn(A, "length", <<>>), Lit(4)),
                                               <<Expr(BuiltIn(A, "push", <<Var("x")>>))>>, <<>>)>>)>>
    [] o = "bump"     -> <<Expr(Inc("++", Index(View(A, <<Lit(0), Lit(1)>>), Lit(0))))>>
    [] o = "share"    -> <<AssignTo(V, Call("share", <<>>))>>
    [] o = "alias"    -> <<Decl("b", "list", A), Expr(BuiltIn(A, "push", <<Lit(2)>>)),
                           Show(BuiltIn(Var("b"), "length", <<>>))>>

Mutators == << "push", "pop", "remove", "reverse", "sort", "set", "view", "subview", "setview" >>
ListOps  == Mutators \o << "contains", "showview", "length", "forview", "sum", "readonly" >>
OddOps  == << "whole", "bump", "grow", "loop", "share", "alias" >>
\* A view of a view is checked against the list by one, the view by the other;
\* its making by one is not refused when the first has become invalid; and of
\* an index that is past a view that has become invalid, one reports the index.
RegularList(s) ==
  /\ ~\E i, j \in 1..3 : i < j /\ s[i] \in {"view", "subview", "push", "pop", "remove"} /\ s[j] = "subview"
  /\ ~(s[1] \in {"view", "subview"} /\ s[2] \in {"push", "pop", "remove"} /\ s[3] = "showview")

ListSample(s, regular) ==
  Sample(Guarded(<< Decl("a", "list", List(<<Lit(3), Lit(1)>>)), Decl("v", "view", Slice(A, <<Lit(0), Lit(2)>>)) >>
                 \o FlattenSeq([i \in DOMAIN s |-> ListOp(s[i])])
                 \o << ForOf("x", A, <<Show(Var("x"))>>) >>), regular)
ListSamples ==
  LET all == Triples(SelectSeq(Mutators, LAMBDA o : o \notin {"remove", "set", "setview", "reverse"}), Mutators, ListOps)
      odd == Triples(<<"push">>, OddOps, ListOps)
  IN  [i \in DOMAIN all |-> ListSample(all[i], RegularList(all[i]))]
      \o [i \in DOMAIN odd |-> ListSample(odd[i], FALSE)]

-----------------------------------------------------------------------------
\* Objects, calls and the order of evaluation.

ObjectOps(o) ==
  CASE o = "get"    -> <<Show(On(Var("o"), "A", "get"))>>
    [] o = "getB"   -> <<Show(On(Var("b"), "B", "get"))>>
    [] o = "bump"   -> <<Show(On(Var("o"), "A", "bump"))>>
    [] o = "bumpB"  -> <<Show(On(Var("b"), "B", "bump"))>>
    [] o = "set"    -> <<AssignTo(Get(Var("b"), "y"), Lit(1)), Expr(PreInc("++", Get(Var("b"), "x")))>>
    [] o = "share"  -> <<AssignTo(Var("o"), Var("b"))>>
    [] o = "clone"  -> <<AssignTo(Var("b"), On(Var("b"), "B", "clone"))>>
    [] o = "own"    -> <<Decl("c", "C", Clone("C")), Show(Get(Var("c"), "x")), Show(On(Var("c"), "C", "get"))>>
    [] o = "twice"  -> <<Show(On(Var("b"), "B", "twice"))>>
    [] o = "cloneA" -> <<AssignTo(Var("o"), On(Var("o"), "A", "clone"))>>
    [] o = "plain"  -> <<Block(<<Plain("p", "A"), Show(Get(Var("p"), "x")), Plain("n", "int"), Show(Var("n")),
                                 Plain("m", "list"), Show(BuiltIn(Var("m"), "length", <<>>))>>)>>
ObjectNames == << "get", "getB", "bump", "bumpB", "set", "share", "clone" >>
ObjectSample(s, regular) ==
  Sample(<< Decl("o", "A", Clone("A")), Decl("b", "auto", Clone("B")) >>
         \o FlattenSeq([i \in DOMAIN s |-> ObjectOps(s[i])]) \o << Show(Get(Var("o"), "x")) >>, regular)
\* o may be b, then A.get of o is B's in neither.
ObjectSamples ==
  LET all == Triples(ObjectNames, ObjectNames, SelectSeq(ObjectNames, LAMBDA o : o \notin {"share", "clone"}))
  IN  [i \in DOMAIN all |-> ObjectSample([j \in 1..3 |-> all[i][j]], TRUE)]
      \o << ObjectSample(<<"own">>, TRUE), ObjectSample(<<"twice">>, FALSE),
            ObjectSample(<<"share", "cloneA", "get">>, FALSE), ObjectSample(<<"plain">>, FALSE) >>

Say(n) == Call("say", <<Lit(n)>>)
Yes(n) == Call("yes", <<Lit(n)>>)
OtherSamples ==
  << Sample(<< Show([k |-> "and", l |-> Yes(0), r |-> Yes(1)]), Show([k |-> "or", l |-> Yes(0), r |-> Yes(1)]),
               Show([k |-> "and", l |-> Yes(1), r |-> Yes(0)]), Show([k |-> "or", l |-> Yes(1), r |-> Yes(0)]),
               Show(Unary("!", Yes(1))), Show(Bin("-", Say(3), Say(2))), Show(Call("fact", <<Lit(3)>>)) >>, TRUE),
     Sample(<< Show(Cond(Yes(1), Lit(2), Lit(3))), Show(Cond(LitBool(0), Lit(2), Lit(3))) >>, TRUE),
     Sample(<< Show(Cond(Yes(0), Say(2), Say(3))) >>, FALSE),
     Sample(<< Decl("a", "list", List(<<Say(1), Say(2)>>)), AssignTo(Index(A, Lit(0)), Say(5)), Show(Index(A, Lit(0))) >>, TRUE),
     Sample(<< Decl("a", "list", List(<<Say(1), Say(2)>>)), AssignTo(Index(A, Say(0)), Say(5)), Show(Index(A, Lit(0))) >>, FALSE),
     Sample(<< Show(Call("fact", <<Lit(4)>>)) >>, TRUE),
     Sample(Guarded(<< Show(Call("safe", <<Lit(0)>>)), Show(Call("safe", <<Lit(2)>>)), Show(Call("safe", <<Lit(1)>>)) >>), TRUE),
     Sample(<< Show(Call("leak", <<Lit(4)>>)), Show(Call("leak", <<Lit(3)>>)), Show(Call("leak", <<Lit(2)>>)),
               Show(Call("leak", <<Lit(1)>>)) >>, FALSE),
     Sample(<< Show(Call("leak", <<Lit(4)>>)), Show(Call("raise", <<Lit(1)>>)) >>, FALSE),
     Sample(<< Decl("i", "int", Lit(0)),
               While(Bin("<", Var("i"), Lit(4)),
                     << Expr(Inc("++", Var("i"))), Try(<<ContinueStmt>>, <<Catch("E", "e", <<>>)>>, <<>>) >>) >>, FALSE) >>

AllSamples == IntSamples \o ControlSamples \o ListSamples \o ObjectSamples \o OtherSamples

-----------------------------------------------------------------------------
\* Programs for the optimizer: constants, choices and calls it can replace.

\* On constants, quotients have to be exact, and what is shifted, the counts
\* and the results have to fit in half the bits.
FoldsExactly(op, l, r) ==
  LET small == -(2^((Width \div 2) - 1))..(2^((Width \div 2) - 1) - 1)
  IN  /\ op = "/" => r = 0 \/ l % (IF r < 0 THEN -r ELSE r) = 0
      /\ op \in {"<<", ">>"} /\ r \in 0..(Width - 1) =>
           l \in small /\ r < Width \div 2 /\ (op = "<<" => l * 2^r \in small)

FoldSample(s) ==
  Folding(Sample(Guarded(<< Show(Bin(s[1], Num(s[2]), Num(s[3]))),
                            Show(Bin("*", Bin(s[1], Num(s[2]), Num(s[3])), Lit(2))) >>),
                 RegularArith(s[1], s[2], s[3])),
          FoldsExactly(s[1], s[2], s[3]))
ChoiceSample(s) ==
  Sample(Guarded(<< Decl("a", "int", Num(s[2])), Show(Cond(Bin(s[1], Num(s[2]), Num(s[3])), Lit(2), Lit(3))),
                    Show(Unary("!", Bin(s[1], Num(s[2]), Num(s[3])))),
                    Show(Cond(Bin(s[1], Var("a"), Num(s[3])), Lit(2), Lit(3))) >>), TRUE)
InlineCalls(n, r) ==
  << Call("plus", <<n, r>>), Call("half", <<n>>), Call("pick", <<n>>), Call("plus", <<Call("pick", <<r>>), Call("half", <<r>>)>>),
     Call("fact", <<Call("pick", <<r>>)>>) >>
InlineSample(s) ==
  Sample(Guarded(<< Decl("a", "int", Num(s[3])), Show(InlineCalls(Num(s[2]), Var("a"))[s[1]]),
                    Show(InlineCalls(Var("a"), Num(s[2]))[s[1]]), Show(Var("a")) >>), s[1] \in {1, 2} \/ IntMin \notin {s[2], s[3]})
LiteralSamples ==
  << Folding(Sample(<< Show(Cond(LitBool(1), Lit(2), Lit(3))) >>, TRUE), FALSE),
     Sample(<< Show(Cond(LitBool(0), Lit(2), Lit(3))) >>, TRUE),
     Folding(Sample(<< Show(Bin("!=", LitBool(1), LitBool(0))) >>, TRUE), FALSE),
     Sample(<< Show(Bin("==", LitBool(1), LitBool(1))) >>, TRUE),
     Sample(<< Show(Cond(Unary("!", LitBool(0)), Lit(2), Lit(3))) >>, TRUE) >>

OptSamples ==
  LET few == << IntMin, -1, 0, 3, IntMax >>
      folds == Triples(<< "+", "-", "*", "/", "%", "<<", ">>" >>, Bounds, Bounds)
      choices == Triples(<<"==", "<", ">=", "!=", ">", "<=">>, few, <<-1, 3>>)
      calls == Triples(<<1, 2, 3, 4, 5>>, few, few)
      control == SelectSeq(Triples(<<"for", "tryFRt">>, <<"while", "tryE", "tryFin", "catch">>, Leaves), Legal)
  IN  [i \in DOMAIN folds |-> FoldSample(folds[i])] \o [i \in DOMAIN choices |-> ChoiceSample(choices[i])]
      \o [i \in DOMAIN calls |-> InlineSample(calls[i])] \o LiteralSamples
      \o [i \in DOMAIN control |-> ControlSample(control[i])]
=============================================================================
