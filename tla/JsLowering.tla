------------------------------ MODULE JsLowering ------------------------------
(***************************************************************************)
(* The lowering of src/ir.js: statements and expressions to blocks of       *)
(* instructions over temporaries and variables.                             *)
(*                                                                         *)
(* LowerX(n, c) is the sequence of the calls the code makes to lower the    *)
(* node n in context c: the nodes inside it, the blocks it adds and enters, *)
(* and a last call that emits its instructions.  What lowering an           *)
(* expression answers, {value, type}, is pushed on c.vals for that call.    *)
(* Names (labels, temporaries, variables) are numbers of one counter: the   *)
(* code only needs them to differ.  c.blocks keeps the order in which the   *)
(* code adds blocks, which the C generator reads them in.                   *)
(*                                                                         *)
(* Types are int, bool, list (of int), view (and slice), the prototypes and *)
(* unknown.                                                                *)
(***************************************************************************)
EXTENDS Integers, Sequences, SequencesExt, TLC, Passes

CONSTANTS
  ReturnType,  \* of each function
  Protos       \* of each prototype: its parent (or "none"), the fields it
               \* declares (name and initial value), what its methods return

Undeclared == 0  \* what a name outside every scope is lowered to

NewBlock(l) == [label |-> l, instrs |-> <<>>]
\* self: the prototype that declares the method, and the receiver's.
NewCtx(scope, n, self) ==
  [blocks |-> <<NewBlock(0)>>, cur |-> 1, next |-> n, vals |-> <<>>,
   scopes |-> <<scope>>, breaks |-> <<>>, conts |-> <<>>, self |-> self]

Emit(c, i) == [c EXCEPT !.blocks[c.cur].instrs = Append(@, i)]
EmitAll(c, is) == [c EXCEPT !.blocks[c.cur].instrs = @ \o is]
EmitIf(b, i) == IF b THEN <<i>> ELSE <<>>

AddBlocks(c, ls) == [c EXCEPT !.blocks = @ \o [i \in DOMAIN ls |-> NewBlock(ls[i])]]
Enter(c, l) == [c EXCEPT !.cur = CHOOSE i \in DOMAIN c.blocks : c.blocks[i].label = l]

\* The innermost scope that defines x.
Entry(c, x) ==
  LET in == SelectSeq(c.scopes, LAMBDA s : x \in DOMAIN s)
  IN  IF in = <<>> THEN [ir |-> Undeclared, type |-> "unknown"] ELSE in[1][x]
Define(scope, x, e) ==
  [y \in DOMAIN scope \cup {x} |-> IF y = x THEN e ELSE scope[y]]

\* The k-th answer from the top, and the context without the first n of them.
Val(c, k) == c.vals[k].t
TypeAt(c, k) == c.vals[k].type
Drop(c, n) == [c EXCEPT !.vals = SubSeq(@, n + 1, Len(@))]
\* Emits is, takes one name for the result, and answers it with a type.
Answer(c, n, is, type) ==
  LET d == EmitAll(Drop(c, n), is)
  IN  [d EXCEPT !.vals = <<[t |-> c.next, type |-> type]>> \o @, !.next = @ + 1]

Terminators == {"jump", "branch_if", "branch_iter_has_next", "ret", "ret_void",
                "throw", "rethrow"}
BlockHasTerminator(c) ==
  LET is == c.blocks[c.cur].instrs IN is # <<>> /\ Last(is).op \in Terminators

-----------------------------------------------------------------------------
\* Types known without lowering.

\* p and its ancestors, the nearest first.
Lineage[p \in DOMAIN Protos] ==
  <<p>> \o (IF Protos[p].parent = "none" THEN <<>> ELSE Lineage[Protos[p].parent])

\* resolvePrototypeMethodOwner: the nearest that declares method m, or none.
MethodOwner(p, m) ==
  LET owners == SelectSeq(Lineage[p], LAMBDA q : m \in DOMAIN Protos[q].methods)
  IN  IF owners = <<>> THEN "none" ELSE owners[1]
MethodType(p, m) ==
  IF MethodOwner(p, m) = "none" THEN "unknown" ELSE Protos[MethodOwner(p, m)].methods[m]

\* collectPrototypeFields: the ancestors' first.
FieldsOf(p) == FlattenSeq(LET l == Reverse(Lineage[p])
                          IN  [i \in DOMAIN l |-> Protos[l[i]].fields])

InferExprType(e, c) ==
  CASE e.k = "lit"   -> e.type
    [] e.k = "var"   -> Entry(c, e.x).type
    [] e.k = "list"  -> "list"
    [] e.k = "call"  -> ReturnType[e.f]
    [] e.k = "clone" -> e.proto
    [] e.k = "get" /\ e.e.k = "var" /\ Entry(c, e.e.x).type \in DOMAIN Protos -> "int"
    [] e.k = "mcall" /\ e.recv.k = "var" /\ Entry(c, e.recv.x).type \in DOMAIN Protos ->
         IF e.m = "clone" THEN Entry(c, e.recv.x).type ELSE MethodType(Entry(c, e.recv.x).type, e.m)
    [] OTHER         -> "unknown"

ElementTypeForIndex(t) == IF t \in {"list", "view"} THEN "int" ELSE "unknown"

-----------------------------------------------------------------------------
\* The calls a lowering makes.

Lowers(ns)    == [i \in DOMAIN ns |-> [do |-> "lower", node |-> ns[i]]]
Finish(what, n) == [do |-> what, node |-> n]
Adds(ls)      == [do |-> "add", labels |-> ls]
Enters(l)     == [do |-> "enter", label |-> l]
Emits(i)      == [do |-> "emit", instr |-> i]
Takes(n)      == [do |-> "take", count |-> n]
Jumps(l)      == Emits([op |-> "jump", target |-> l])
JumpsUnlessTerminated(l) == [do |-> "close", label |-> l]
Branches(t, e) == [do |-> "branch", then |-> t, else |-> e]
Scoped(calls) == <<[do |-> "scope"]>> \o calls \o <<[do |-> "unscope"]>>
\* Mutant of Nop: the block after a construct gets no instruction of its own.
NopForgotten  == Takes(0)
Nop           == Emits([op |-> "nop"])
PushesLoop(b, k) == [do |-> "push_loop", break |-> b, cont |-> k]

\* lowerBlock: the statements in a scope of their own.
LowerBlock(ns) == Scoped(Lowers(ns))

-----------------------------------------------------------------------------
\* Statements.

\* The name is in scope while its own initializer is lowered.  Without one
\* the variable gets the default of its type.
LowerVarDecl(n) ==
  << Finish("declare", n) >>
  \o (IF n.init # <<>> THEN Lowers(n.init) ELSE << Finish("default", n) >>)
  \o << Finish("store", n) >>

\* The parts of a target that are expressions.
LowerTarget(t) ==
  CASE t.k = "var"   -> <<>>
    [] t.k = "get"   -> Lowers(<<t.e>>)
    [] t.k = "index" -> Lowers(<<t.e, t.i>>)

\* The right-hand side comes first, then the parts of the target.
LowerAssign(n) ==
  Lowers(<<n.expr>>) \o LowerTarget(n.target) \o << Finish("assign", n.target) >>

\* Whether operands of these types are checked.
Checked(s, t) == s = "int" /\ t = "int"
ArithChecks(op, checked, l, r) ==
     EmitIf(checked /\ op \in {"+", "-", "*"},
            [op |-> "check_int_overflow", operator |-> op, left |-> l, right |-> r])
  \o EmitIf(checked /\ op \in {"/", "%"}, [op |-> "check_div_zero", divisor |-> r])
BinOp(op, l, r, dst) ==
  [op |-> "bin_op", operator |-> op, left |-> l, right |-> r, dst |-> dst]

\* A compound assignment asks for the types before it lowers anything.
LowerCompound(n, c) ==
  LET fin == [do |-> "compound", node |-> n,
              checked |-> Checked(InferExprType(n.target, c), InferExprType(n.expr, c))]
  IN  Lowers(<<n.expr>>) \o LowerTarget(n.target) \o << fin >>

LowerIf(n, c) ==
  LET then == c.next  done == c.next + 1
      else == IF n.else = <<>> THEN done ELSE c.next + 2
  IN  << Takes(3) >> \o Lowers(<<n.cond>>)
      \o << Adds(IF n.else = <<>> THEN <<then>> ELSE <<then, else>>),
            Branches(then, else), Enters(then) >>
      \o LowerBlock(n.then) \o << JumpsUnlessTerminated(done) >>
      \o (IF n.else = <<>> THEN <<>>
          ELSE << Enters(else) >> \o LowerBlock(n.else[1]) \o << JumpsUnlessTerminated(done) >>)
      \o << Adds(<<done>>), Enters(done), Nop >>

LowerWhile(n, c) ==
  LET cond == c.next  body == c.next + 1  done == c.next + 2
  IN  << Takes(3), Adds(<<cond, body, done>>), Jumps(cond), Enters(cond) >>
      \o Lowers(<<n.cond>>)
      \o << Branches(body, done), PushesLoop(done, cond), Enters(body) >>
      \o LowerBlock(n.body)
      \o << Jumps(cond), [do |-> "pop_loop"], Enters(done), Nop >>

LowerDoWhile(n, c) ==
  LET body == c.next  cond == c.next + 1  done == c.next + 2
  IN  << Takes(3), Adds(<<body, cond, done>>), Jumps(body),
         PushesLoop(done, cond), Enters(body) >>
      \o LowerBlock(n.body)
      \o << Jumps(cond), [do |-> "pop_loop"], Enters(cond) >> \o Lowers(<<n.cond>>)
      \o << Branches(body, done), Enters(done), Nop >>

LowerFor(n, c) ==
  LET init == c.next  cond == c.next + 1  body == c.next + 2
      step == c.next + 3  done == c.next + 4
  IN  << Takes(5), Adds(<<init, cond, body, step>>), Jumps(init), Enters(init) >>
      \o Scoped(
           Lowers(n.init) \o << Jumps(cond), Enters(cond) >>
        \o (IF n.cond = <<>> THEN << Jumps(body) >>
            ELSE Lowers(n.cond) \o << Branches(body, done) >>)
        \o << PushesLoop(done, step), Enters(body) >> \o LowerBlock(n.body)
        \o << Jumps(step), [do |-> "pop_loop"], Enters(step) >>
        \o Lowers(n.step) \o << Jumps(cond) >>)
      \o << Adds(<<done>>), Enters(done), Nop >>

\* for of: the sequence is read once, into a temporary, before the loop.
LowerForOf(n, c) ==
  LET init == c.next  cond == c.next + 1  body == c.next + 2  done == c.next + 3
      cursor == c.next + 4
  IN  << Takes(5), Adds(<<init, cond, body>>), Jumps(init), Enters(init) >>
      \o Lowers(<<n.iter>>)
      \o << [do |-> "iter", cursor |-> cursor, cond |-> cond, body |-> body,
             done |-> done, x |-> n.x],
            PushesLoop(done, cond) >>
      \o LowerBlock(n.body)
      \o << [do |-> "unscope"], Jumps(cond), [do |-> "pop_loop"],
            Adds(<<done>>), Enters(done), Nop >>

\* A test and a body for each case, and after the last an empty test block.
\* The cases have a scope each, the statements of the default one each.
LowerSwitch(n, c) ==
  LET m == Len(n.cases)
      done == c.next
      cmp(i) == c.next + 2 * i - 1
      body(i) == c.next + 2 * i
      dflt == c.next + 2 * m + 2
      case(i) == << Adds(<<cmp(i), body(i)>>) >>
                 \o (IF i = 1 THEN << Jumps(cmp(1)) >> ELSE <<>>)
                 \o << Enters(cmp(i)) >> \o Lowers(<<n.cases[i].value>>)
                 \o << [do |-> "case", then |-> body(i), else |-> cmp(i + 1)],
                       Enters(body(i)) >>
                 \o LowerBlock(n.cases[i].body) \o << Jumps(done) >>
      default == << Adds(<<dflt>>), Enters(dflt) >>
                 \o FlattenSeq([j \in DOMAIN n.default[1] |-> Scoped(Lowers(<<n.default[1][j]>>))])
                 \o << Jumps(done) >>
  IN  << Takes(2 * m + 3) >> \o Lowers(<<n.expr>>) \o << [do |-> "push_break", break |-> done] >>
      \o FlattenSeq([i \in 1..m |-> case(i)])
      \o (IF m = 0 THEN <<>>
          ELSE << Adds(<<cmp(m + 1)>>), Enters(cmp(m + 1)),
                  Jumps(IF n.default = <<>> THEN done ELSE dflt) >>)
      \o (IF n.default = <<>> THEN <<>> ELSE default)
      \o << Adds(<<done>>), Enters(done), Nop, [do |-> "pop_break"] >>

\* The normal path out of the body of a try takes its handler off.
LeaveTryHandled == <<>>
LeaveTry == << Emits([op |-> "pop_handler"]) >>

\* A finally block is lowered at the end of the normal path and of every
\* clause; once more, before a rethrow, only when there is no clause.
LowerTry(n, c) ==
  LET m == Len(n.catches)
      hasFinally == n.finally # <<>>
      try == c.next
      dispatch(i) == c.next + 2 * i - 1
      catch(i) == c.next + 2 * i
      rethrow == c.next + 2 * m + 1
      finally == c.next + 2 * m + 2
      finallyRethrow == c.next + 2 * m + 3
      done == c.next + 2 * m + 4
      ex == c.next + 2 * m + 5
      is(i) == ex + i
      handler == IF m > 0 THEN dispatch(1) ELSE IF hasFinally THEN finallyRethrow ELSE done
      after == IF hasFinally THEN finally ELSE done
      test(i) == << Enters(dispatch(i)) >>
                 \o (IF i = 1 THEN << Emits([op |-> "get_exception", dst |-> ex]) >> ELSE <<>>)
                 \o << Emits([op |-> "exception_is", dst |-> is(i), value |-> ex,
                              type |-> n.catches[i].type]),
                       Emits([op |-> "branch_if", cond |-> is(i), then |-> catch(i),
                              else |-> IF i < m THEN dispatch(i + 1) ELSE rethrow]) >>
      clause(i) == << Enters(catch(i)) >>
                   \o Scoped(<< [do |-> "bind", x |-> n.catches[i].x,
                                type |-> n.catches[i].type, ex |-> ex] >>
                             \o LowerBlock(n.catches[i].body))
                   \o << Jumps(after) >>
  IN  << Takes(3 * m + 6), Emits([op |-> "push_handler", target |-> handler]),
         Jumps(try), Adds(<<try>>), Enters(try) >>
      \o LowerBlock(n.body)
      \o LeaveTry
      \o << Jumps(after),
            Adds([i \in 1..m |-> dispatch(i)] \o (IF m > 0 THEN <<rethrow>> ELSE <<>>)
                 \o [i \in 1..m |-> catch(i)] \o (IF hasFinally THEN <<finally>> ELSE <<>>)
                 \o (IF hasFinally /\ m = 0 THEN <<finallyRethrow>> ELSE <<>>) \o <<done>>) >>
      \o FlattenSeq([i \in 1..m |-> test(i)])
      \o (IF m > 0 THEN << Enters(rethrow), Emits([op |-> "rethrow"]) >> ELSE <<>>)
      \o FlattenSeq([i \in 1..m |-> clause(i)])
      \o (IF hasFinally THEN << Enters(finally) >> \o LowerBlock(n.finally[1]) \o << Jumps(done) >>
          ELSE <<>>)
      \o (IF hasFinally /\ m = 0
          THEN << Enters(finallyRethrow) >> \o LowerBlock(n.finally[1])
               \o << Emits([op |-> "rethrow"]) >>
          ELSE <<>>)
      \o << Enters(done), Nop >>

\* Neither takes the handlers of the tries it leaves.
LowerBreak(c)    == << Jumps(Head(c.breaks)) >>
LowerContinue(c) == << Jumps(Head(c.conts)) >>


-----------------------------------------------------------------------------
\* Expressions.  The last call of each answers its temporary and type.

Const(dst, type, v) == [op |-> "const", dst |-> dst, type |-> type, v |-> v]

\* -2^(w-1) is written as the negation of a literal that is no int.
LowerUnary(n) ==
  IF n.op = "-" /\ n.e.k = "minlit" THEN << Finish("lit", [type |-> "int", v |-> n.e.v]) >>
  ELSE Lowers(<<n.e>>) \o << Finish("unary", n) >>
Unary(n, c) ==
  Answer(c, 1, EmitIf(n.op = "-" /\ TypeAt(c, 1) = "int",
                      [op |-> "check_int_overflow_unary_minus", value |-> Val(c, 1)])
               \o << [op |-> "unary_op", operator |-> n.op, src |-> Val(c, 1), dst |-> c.next] >>,
         TypeAt(c, 1))

Comparisons == {"==", "!=", "<", "<=", ">", ">="}
LowerBinary(n) == Lowers(<<n.l, n.r>>) \o << Finish("binary", n) >>
Binary(n, c) ==
  LET l == Val(c, 2)  r == Val(c, 1)
      checked == Checked(TypeAt(c, 2), TypeAt(c, 1))
  IN  Answer(c, 2, ArithChecks(n.op, checked, l, r)
                   \o EmitIf(checked /\ n.op \in {"<<", ">>"}, [op |-> "check_shift_range", shift |-> r])
                   \o << BinOp(n.op, l, r, c.next) >>,
             IF n.op \in Comparisons THEN "bool" ELSE TypeAt(c, 2))

\* && and ||: the right operand in a block of its own, the result a
\* temporary that both ways assign.
LowerLogic(n, c) ==
  LET right == c.next  short == c.next + 1  done == c.next + 2  cont == c.next + 3
      dst == c.next + 4
      and == n.k = "and"
  IN  << Takes(5) >> \o Lowers(<<n.l>>)
      \o << Adds(<<right, short, done>>),
            Branches(IF and THEN right ELSE short, IF and THEN short ELSE right),
            Enters(short), Emits(Const(dst, "bool", IF and THEN 0 ELSE 1)), Jumps(done),
            Enters(right) >>
      \o Lowers(<<n.r>>)
      \o << [do |-> "copy", dst |-> dst], Jumps(done), Adds(<<cont>>),
            Enters(done), Nop, Jumps(cont), Enters(cont) >>

\* Both branches are evaluated before one of their values is selected.
LowerConditional(n) == Lowers(<<n.c, n.t, n.e>>) \o << Finish("select", n) >>
Select(n, c) ==
  Answer(c, 3, << [op |-> "select", dst |-> c.next, cond |-> Val(c, 3),
                   then |-> Val(c, 2), else |-> Val(c, 1)] >>, TypeAt(c, 2))

IndexCheck(t, i) == [op |-> "check_index_bounds", target |-> t, index |-> i]
LowerIndex(n) == Lowers(<<n.e, n.i>>) \o << Finish("index", n) >>
Index(n, c) ==
  Answer(c, 2, << IndexCheck(Val(c, 2), Val(c, 1)),
                  [op |-> "index_get", dst |-> c.next, target |-> Val(c, 2), index |-> Val(c, 1)] >>,
         ElementTypeForIndex(TypeAt(c, 2)))

\* ++ and --: by position of the target.  No overflow is checked.
LowerIncDec(n) == LowerTarget(n.target) \o << Finish("incdec", n) >>
IncDec(n, c) ==
  LET cur == c.next  one == c.next + 1  new == c.next + 2
      read(is) == is \o << Const(one, "int", 1), BinOp(IF n.op = "++" THEN "+" ELSE "-", cur, one, new) >>
      result(d, type) == [d EXCEPT !.vals = <<[t |-> IF n.prefix THEN new ELSE cur, type |-> type]>> \o @,
                                   !.next = @ + 3]
  IN  CASE n.target.k = "var" ->
             LET e == Entry(c, n.target.x)
             IN  result(EmitAll(c, read(<< [op |-> "load_var", dst |-> cur, name |-> e.ir, type |-> e.type] >>)
                                   \o << [op |-> "store_var", name |-> e.ir, src |-> new, type |-> e.type] >>),
                        e.type)
        [] n.target.k = "get" ->
             LET o == Val(c, 1)
             IN  result(EmitAll(Drop(c, 1),
                          read(<< [op |-> "member_get", dst |-> cur, target |-> o, name |-> n.target.f] >>)
                          \o << [op |-> "member_set", target |-> o, name |-> n.target.f, src |-> new] >>),
                        InferExprType(n.target, c))
        [] n.target.k = "index" ->
             LET t == Val(c, 2)  i == Val(c, 1)
             IN  result(EmitAll(Drop(c, 2),
                          << IndexCheck(t, i) >>
                          \o read(<< [op |-> "index_get", dst |-> cur, target |-> t, index |-> i] >>)
                          \o << [op |-> "index_set", target |-> t, index |-> i, src |-> new] >>),
                        "unknown")

\* The last m answers, the first of them first.
ArgVals(c, m) == Pass(LAMBDA as, v : <<v.t>> \o as, <<>>, SubSeq(c.vals, 1, m))
LowerList(n) == Lowers(n.items) \o << Finish("list", n) >>
MakeList(n, c) ==
  LET m == Len(n.items)
  IN  Answer(c, m, << [op |-> "make_list", dst |-> c.next,
                       items |-> ArgVals(c, m)] >>, "list")

LowerGet(n) == Lowers(<<n.e>>) \o << Finish("get", n) >>
Get(n, c) ==
  Answer(c, 1, << [op |-> "member_get", dst |-> c.next, target |-> Val(c, 1), name |-> n.f] >>,
         IF n.f = "code" THEN "string"
         ELSE IF TypeAt(c, 1) \in DOMAIN Protos THEN "int" ELSE "unknown")

-----------------------------------------------------------------------------
\* Calls.

CallTo(f, args, dst) == [op |-> "call_static", dst |-> dst, callee |-> f, args |-> args]
Qualified(p, m) == p \o "." \o m

LowerCall(n) == Lowers(n.args) \o << Finish("call", n) >>
Call(n, c) ==
  LET m == Len(n.args) IN Answer(c, m, << CallTo(n.f, ArgVals(c, m), c.next) >>, ReturnType[n.f])

\* P.clone()
LowerClone(n) == << Finish("clone", n) >>
Clone(n, c) == Answer(c, 0, << CallTo(Qualified(n.proto, "clone"), <<>>, c.next) >>, n.proto)

\* super.m(args), in a method declared by c.self.decl of a receiver of
\* c.self.recv.  A cloned object depends on the receiver.
LowerSuper(n) == Lowers(n.args) \o << Finish("super", n) >>
CloneFor(owner, recv) ==
  Qualified(IF owner = "none" THEN "Object" ELSE owner, "__clone_for__" \o recv)
Super(n, c) ==
  LET parent == Protos[c.self.decl].parent
      owner  == IF parent = "none" THEN "none" ELSE MethodOwner(parent, n.m)
      m      == Len(n.args)
  IN  IF n.m = "clone"
      THEN Answer(c, m, << CallTo(CloneFor(owner, c.self.recv), <<>>, c.next) >>, c.self.recv)
      ELSE Answer(c, m, << CallTo(Qualified(owner, n.m), <<Entry(c, "self").ir>> \o ArgVals(c, m), c.next) >>,
                  MethodType(parent, n.m))

\* recv.m(args) on an object: the method of the receiver's static type.
LowerMethodCall(n) == Lowers(<<n.recv>> \o n.args) \o << Finish("mcall", n) >>
MethodCall(n, c) ==
  LET m == Len(n.args)
      p == TypeAt(c, m + 1)
  IN  IF n.m = "clone" THEN Answer(c, m + 1, << CallTo(Qualified(p, "clone"), <<>>, c.next) >>, p)
      ELSE Answer(c, m + 1,
                  << CallTo(Qualified(p, n.m), <<Val(c, m + 1)>> \o ArgVals(c, m), c.next) >>,
                  MethodType(p, n.m))

\* A method of a list or a view.
LowerBuiltin(n) == Lowers(<<n.recv>> \o n.args) \o << Finish("builtin", n) >>
Builtin(n, c) ==
  LET m == Len(n.args)
  IN  Answer(c, m + 1, << [op |-> "call_method_static", dst |-> c.next, receiver |-> Val(c, m + 1),
                           method |-> n.m, args |-> ArgVals(c, m)] >>, "unknown")

\* view(), view(offset, len), slice(...): without arguments, the whole.
LowerView(n) == Lowers(<<n.recv>> \o n.args) \o << Finish("view", n) >>
View(n, c) ==
  LET whole == n.args = <<>>
      recv == IF whole THEN Val(c, 1) ELSE Val(c, 3)
      offset == IF whole THEN c.next + 1 ELSE Val(c, 2)
      len == IF whole THEN c.next + 2 ELSE Val(c, 1)
      bounds == IF whole THEN << Const(offset, "int", 0),
                                 [op |-> "call_method_static", dst |-> len, receiver |-> recv,
                                  method |-> "length", args |-> <<>>] >>
                ELSE <<>>
      is == bounds \o << [op |-> "check_view_bounds", target |-> recv, offset |-> offset, len |-> len],
                         [op |-> "make_view", dst |-> c.next, source |-> recv, offset |-> offset,
                          len |-> len, readonly |-> n.m = "view"] >>
      d == Answer(c, IF whole THEN 1 ELSE 3, is, "view")
  IN  [d EXCEPT !.next = @ + 2]

LowerIdentifier(n, c) ==
  LET e == Entry(c, n.x)
  IN  Answer(c, 0, << [op |-> "load_var", dst |-> c.next, name |-> e.ir, type |-> e.type] >>, e.type)

-----------------------------------------------------------------------------
\* What the last calls of the statements emit.

\* The value on top stored in variable x.
StoreVar(x, c) ==
  LET e == Entry(c, x)
  IN  Emit(Drop(c, 1), [op |-> "store_var", name |-> e.ir, src |-> Val(c, 1), type |-> TypeAt(c, 1)])

\* Enters x in the innermost scope under a new name.
Declare(x, type, c) ==
  Emit([c EXCEPT !.scopes[1] = Define(@, x, [ir |-> c.next, type |-> type]), !.next = @ + 1],
       [op |-> "var_decl", name |-> c.next, type |-> type])

\* emitDefaultValue
DefaultValue(type, c) ==
  Answer(c, 0,
    << CASE type \in DOMAIN Protos -> CallTo(Qualified(type, "clone"), <<>>, c.next)
         [] type = "list" -> [op |-> "make_list", dst |-> c.next, items |-> <<>>]
         [] OTHER         -> Const(c.next, type, 0) >>, type)

\* c.vals: the parts of the target over the value.
Assign(target, c) ==
  CASE target.k = "var" -> StoreVar(target.x, c)
    [] target.k = "get" ->
         Emit(Drop(c, 2), [op |-> "member_set", target |-> Val(c, 1), name |-> target.f, src |-> Val(c, 2)])
    [] target.k = "index" ->
         EmitAll(Drop(c, 3), << IndexCheck(Val(c, 2), Val(c, 1)),
                                [op |-> "index_set", target |-> Val(c, 2), index |-> Val(c, 1),
                                 src |-> Val(c, 3)] >>)

\* The target read, the checks, the operation, the target written.
Compound(n, checked, c) ==
  LET cur == c.next  new == c.next + 1
      change(rhs) == ArithChecks(n.op, checked, cur, rhs) \o << BinOp(n.op, cur, rhs, new) >>
      d == CASE n.target.k = "var" ->
                  LET e == Entry(c, n.target.x)
                  IN  EmitAll(Drop(c, 1),
                        << [op |-> "load_var", dst |-> cur, name |-> e.ir, type |-> e.type] >>
                        \o change(Val(c, 1))
                        \o << [op |-> "store_var", name |-> e.ir, src |-> new, type |-> e.type] >>)
             [] n.target.k = "get" ->
                  EmitAll(Drop(c, 2),
                    << [op |-> "member_get", dst |-> cur, target |-> Val(c, 1), name |-> n.target.f] >>
                    \o change(Val(c, 2))
                    \o << [op |-> "member_set", target |-> Val(c, 1), name |-> n.target.f, src |-> new] >>)
             [] n.target.k = "index" ->
                  EmitAll(Drop(c, 3),
                    << IndexCheck(Val(c, 2), Val(c, 1)),
                       [op |-> "index_get", dst |-> cur, target |-> Val(c, 2), index |-> Val(c, 1)] >>
                    \o change(Val(c, 3))
                    \o << [op |-> "index_set", target |-> Val(c, 2), index |-> Val(c, 1), src |-> new] >>)
  IN  [d EXCEPT !.next = @ + 2]

\* The cursor, the test, and the element bound in the body's own scope.
Iterate(call, c) ==
  LET seq  == Val(c, 1)
      type == ElementTypeForIndex(TypeAt(c, 1))
      test == Emit(Enter(EmitAll(Drop(c, 1),
                           << [op |-> "iter_begin", dst |-> call.cursor, source |-> seq],
                              [op |-> "jump", target |-> call.cond] >>), call.cond),
                   [op |-> "branch_iter_has_next", iter |-> call.cursor, then |-> call.body,
                    else |-> call.done])
      next == Emit(Enter([test EXCEPT !.next = @ + 1, !.scopes = <<<<>>>> \o @], call.body),
                   [op |-> "iter_next", dst |-> c.next, iter |-> call.cursor, source |-> seq])
  IN  Emit(Declare(call.x, type, next),
           [op |-> "store_var", name |-> next.next, src |-> c.next, type |-> type])

\* The value of the case on top of that of the switch, which stays.
CaseTest(call, c) ==
  [EmitAll(Drop(c, 1),
     << BinOp("==", Val(c, 2), Val(c, 1), c.next),
        [op |-> "branch_if", cond |-> c.next, then |-> call.then, else |-> call.else] >>)
   EXCEPT !.next = @ + 1]

BindException(call, c) ==
  Emit(Declare(call.x, call.type, c),
       [op |-> "store_var", name |-> c.next, src |-> call.ex, type |-> call.type])

-----------------------------------------------------------------------------

Do(call, c) ==
  CASE call.do = "emit"     -> Emit(c, call.instr)
    [] call.do = "add"      -> AddBlocks(c, call.labels)
    [] call.do = "enter"    -> Enter(c, call.label)
    [] call.do = "take"     -> [c EXCEPT !.next = @ + call.count]
    [] call.do = "drop"     -> Drop(c, 1)
    [] call.do = "close"    -> IF BlockHasTerminator(c) THEN c
                               ELSE Emit(c, [op |-> "jump", target |-> call.label])
    [] call.do = "branch"   -> Emit(Drop(c, 1), [op |-> "branch_if", cond |-> Val(c, 1),
                                                 then |-> call.then, else |-> call.else])
    [] call.do = "copy"     -> LET d == Emit(Drop(c, 1), [op |-> "copy", dst |-> call.dst, src |-> Val(c, 1)])
                               IN  [d EXCEPT !.vals = <<[t |-> call.dst, type |-> "bool"]>> \o @]
    [] call.do = "scope"    -> [c EXCEPT !.scopes = <<<<>>>> \o @]
    [] call.do = "unscope"  -> [c EXCEPT !.scopes = Tail(@)]
    [] call.do = "push_loop" -> [c EXCEPT !.breaks = <<call.break>> \o @, !.conts = <<call.cont>> \o @]
    [] call.do = "pop_loop" -> [c EXCEPT !.breaks = Tail(@), !.conts = Tail(@)]
    [] call.do = "push_break" -> [c EXCEPT !.breaks = <<call.break>> \o @]
    [] call.do = "pop_break" -> [Drop(c, 1) EXCEPT !.breaks = Tail(@)]
    [] call.do = "declare"  -> Declare(call.node.x,
                                       IF call.node.type = "auto" THEN InferExprType(call.node.init[1], c)
                                       ELSE call.node.type, c)
    [] call.do = "default"  -> DefaultValue(call.node.type, c)
    [] call.do = "store"    -> StoreVar(call.node.x, c)
    [] call.do = "assign"   -> Assign(call.node, c)
    [] call.do = "compound" -> Compound(call.node, call.checked, c)
    [] call.do = "print"    -> Emit(Drop(c, 1), [op |-> "print", value |-> Val(c, 1)])
    [] call.do = "ret"      -> Emit(Drop(c, 1), [op |-> "ret", value |-> Val(c, 1)])
    [] call.do = "throw"    -> Emit(Drop(c, 1), [op |-> "throw", value |-> Val(c, 1)])
    [] call.do = "iter"     -> Iterate(call, c)
    [] call.do = "case"     -> CaseTest(call, c)
    [] call.do = "bind"     -> BindException(call, c)
    [] call.do = "lit"      -> Answer(c, 0, << Const(c.next, call.node.type, call.node.v) >>, call.node.type)
    [] call.do = "unary"    -> Unary(call.node, c)
    [] call.do = "binary"   -> Binary(call.node, c)
    [] call.do = "select"   -> Select(call.node, c)
    [] call.do = "index"    -> Index(call.node, c)
    [] call.do = "incdec"   -> IncDec(call.node, c)
    [] call.do = "list"     -> MakeList(call.node, c)
    [] call.do = "get"      -> Get(call.node, c)
    [] call.do = "call"     -> Call(call.node, c)
    [] call.do = "clone"    -> Clone(call.node, c)
    [] call.do = "super"    -> Super(call.node, c)
    [] call.do = "mcall"    -> MethodCall(call.node, c)
    [] call.do = "builtin"  -> Builtin(call.node, c)
    [] call.do = "view"     -> View(call.node, c)
    [] call.do = "ident"    -> LowerIdentifier(call.node, c)

Calls(n, c) ==
  CASE n.k = "var"      -> << Finish("ident", n) >>
    [] n.k = "lit"      -> << Finish("lit", n) >>
    [] n.k = "unary"    -> LowerUnary(n)
    [] n.k = "bin"      -> LowerBinary(n)
    [] n.k \in {"and", "or"} -> LowerLogic(n, c)
    [] n.k = "cond"     -> LowerConditional(n)
    [] n.k = "index"    -> LowerIndex(n)
    [] n.k = "incdec"   -> LowerIncDec(n)
    [] n.k = "list"     -> LowerList(n)
    [] n.k = "get"      -> LowerGet(n)
    [] n.k = "call"     -> LowerCall(n)
    [] n.k = "clone"    -> LowerClone(n)
    [] n.k = "super"    -> LowerSuper(n)
    [] n.k = "mcall"    -> LowerMethodCall(n)
    [] n.k = "builtin"  -> LowerBuiltin(n)
    [] n.k = "view"     -> LowerView(n)
    [] n.k = "decl"     -> LowerVarDecl(n)
    [] n.k = "assign"   -> LowerAssign(n)
    [] n.k = "compound" -> LowerCompound(n, c)
    [] n.k = "expr"     -> Lowers(<<n.expr>>) \o << [do |-> "drop"] >>
    [] n.k = "print"    -> Lowers(<<n.expr>>) \o << Finish("print", n) >>
    [] n.k = "return"   -> IF n.expr = <<>> THEN << Emits([op |-> "ret_void"]) >>
                           ELSE Lowers(n.expr) \o << Finish("ret", n) >>
    [] n.k = "throw"    -> Lowers(<<n.expr>>) \o << Finish("throw", n) >>
    [] n.k = "block"    -> LowerBlock(n.body)
    [] n.k = "if"       -> LowerIf(n, c)
    [] n.k = "while"    -> LowerWhile(n, c)
    [] n.k = "dowhile"  -> LowerDoWhile(n, c)
    [] n.k = "for"      -> LowerFor(n, c)
    [] n.k = "forof"    -> LowerForOf(n, c)
    [] n.k = "switch"   -> LowerSwitch(n, c)
    [] n.k = "try"      -> LowerTry(n, c)
    [] n.k = "break"    -> LowerBreak(c)
    [] n.k = "continue" -> LowerContinue(c)

RECURSIVE Lower(_, _)
Lower(calls, c) ==
  Pass(LAMBDA d, call : IF call.do = "lower" THEN Lower(Calls(call.node, d), d)
                            ELSE Do(call, d),
           c, calls)

-----------------------------------------------------------------------------
\* Functions.

NoSelf == [decl |-> "none", recv |-> "none"]

\* lowerFunction, lowerMethod: the parameters, then the body.
LowerBody(params, body, ret, self) ==
  LET scope == [x \in {params[i].x : i \in DOMAIN params} |->
                  LET i == CHOOSE j \in DOMAIN params : params[j].x = x
                  IN  [ir |-> i, type |-> params[i].type]]
      c == Lower(LowerBlock(body), NewCtx(scope, Len(params) + 1, self))
  IN  [params |-> [i \in DOMAIN params |-> params[i].type], ret |-> ret, blocks |-> c.blocks]

\* A method has a first parameter self of the receiver's type, clone has not.
LowerMethod(recv, decl, m, fn) ==
  LowerBody((IF m = "clone" THEN <<>> ELSE << [x |-> "self", type |-> recv] >>) \o fn.params,
            fn.body, IF m = "clone" THEN recv ELSE MethodType(decl, m), [decl |-> decl, recv |-> recv])

\* lowerCloneDefaultFunction: a new object, its fields set, ancestors first.
LowerCloneDefault(p) ==
  LET fs == FieldsOf(p)
      sets == FlattenSeq([i \in DOMAIN fs |->
                << Const(i + 1, "int", fs[i].init),
                   [op |-> "member_set", target |-> 1, name |-> fs[i].name, src |-> i + 1] >>])
  IN  [params |-> <<>>, ret |-> p,
       blocks |-> << [label |-> 0, instrs |-> << [op |-> "make_object", dst |-> 1, proto |-> p] >>
                      \o sets \o << [op |-> "ret", value |-> 1] >>] >>]

\* A function that calls another one and returns what it returns.
Forward(f, type) ==
  [params |-> <<>>, ret |-> type,
   blocks |-> << [label |-> 0, instrs |-> << CallTo(f, <<>>, 1), [op |-> "ret", value |-> 1] >>] >>]

LowerFunction(f, fn) == LowerBody(fn.params, fn.body, ReturnType[f], NoSelf)

\* build: the functions; of every prototype p its methods, those it inherits
\* specialised for p, its default clone, and clone for p by each ancestor.
\* fns holds the functions of the program, a method under P.m.
LowerModule(fns) ==
  LET plain == {f \in DOMAIN fns : fns[f].proto = "none"}
      methods(p) == UNION {DOMAIN Protos[q].methods : q \in Range(Lineage[p])} \ {"clone"}
      cloners(p) == {q \in Range(Lineage[p]) : "clone" \in DOMAIN Protos[q].methods}
      lowered ==
           {<<f, LowerFunction(f, fns[f])>> : f \in plain}
        \cup UNION { {<<Qualified(p, m), LowerMethod(p, MethodOwner(p, m), m, fns[Qualified(MethodOwner(p, m), m)])>>
                        : m \in methods(p)}
                   \cup {<<CloneFor(q, p), LowerMethod(p, q, "clone", fns[Qualified(q, "clone")])>>
                        : q \in cloners(p)}
                   \cup { <<Qualified(p, "__clone_default"), LowerCloneDefault(p)>>,
                          <<CloneFor("none", p), Forward(Qualified(p, "__clone_default"), p)>>,
                          <<Qualified(p, "clone"), Forward(CloneFor(MethodOwner(p, "clone"), p), p)>> }
                   : p \in DOMAIN Protos }
  IN  FoldSet(LAMBDA l, fs : (l[1] :> l[2]) @@ fs, <<>>, lowered)
=============================================================================
