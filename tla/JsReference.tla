------------------------------ MODULE JsReference ------------------------------
(***************************************************************************)
(* The reference interpreter of src/runtime.js: execStmt, evalExpr and what *)
(* they call, on programs as the parser leaves them.                       *)
(*                                                                         *)
(* The recursion of the code is the sequence todo of what is left to do:    *)
(* nodes still to evaluate, [k |-> "do", node] for the last part of a node  *)
(* whose operands are on vals, and the ends of blocks, rounds, calls, tries *)
(* that the code's returns and catch clauses are.  A signal or an exception *)
(* in flight is comp; it discards todo down to the nearest end.             *)
(*                                                                         *)
(* Ints have Width bits.  Of strings, only error codes are represented, as  *)
(* numbers.  A value is [t, n]: an int, a bool (0, 1), a code, null, or a   *)
(* place in lists, views or objs.  A view is what slice() makes, through     *)
(* which elements can be assigned, or view(), through which they cannot.   *)
(***************************************************************************)
EXTENDS IntWidth, Sequences, SequencesExt, FiniteSets

CONSTANTS
  Programs,  \* of each program, its functions: parameters, body, prototype
  Protos     \* of each prototype: parent, fields, methods

VARIABLES
  prog,    \* the program that runs
  todo,    \* what is left to do, the next thing first
  vals,    \* values of the operands evaluated so far, the last one first
  scopes,  \* class Scope: the chain of the function that runs, innermost first
  lists,   \* the arrays, each with its version
  views,   \* the views made
  objs,    \* the objects
  out,     \* what was printed
  comp     \* normal, or the signal or exception in flight

heap == <<lists, views, objs>>
vars == <<prog, todo, vals, scopes, lists, views, objs, out, comp>>

Value(t, n) == [t |-> t, n |-> n]
IntVal(n)   == Value("int", n)
BoolVal(b)  == Value("bool", IF b THEN 1 ELSE 0)
Null        == Value("null", 0)
Boolean(v)  == v.n # 0
Normal      == [kind |-> "normal", v |-> Null]

-----------------------------------------------------------------------------
\* Prototypes.

\* p and its ancestors, the nearest first.
Lineage[p \in DOMAIN Protos] ==
  <<p>> \o (IF Protos[p].parent = "none" THEN <<>> ELSE Lineage[Protos[p].parent])
IsProtoSubtype(child, parent) == Contains(Lineage[child], parent)

\* The function a method of p is: the nearest ancestor's that declares it.
Method(p, m) ==
  LET owners == SelectSeq(Lineage[p], LAMBDA q : m \in DOMAIN Protos[q].methods)
  IN  IF owners = <<>> THEN "none" ELSE owners[1] \o "." \o m

\* collectPrototypeFields, as a map from names to initial values.
ClonePrototype(p, evalInit) ==
  LET fs == UNION {Range(Protos[q].fields) : q \in Range(Lineage[p])}
  IN  [proto |-> p, code |-> 0,
       f |-> [x \in {d.name : d \in fs} |->
                IntVal(IF evalInit THEN (CHOOSE d \in fs : d.name = x).init ELSE 0)]]

-----------------------------------------------------------------------------
\* class Scope.

Lookup(x) == SelectSeq(scopes, LAMBDA s : x \in DOMAIN s)[1][x]
DefineIn(s, x, v) == [y \in DOMAIN s \cup {x} |-> IF y = x THEN v ELSE s[y]]
ScopeSet(x, v) ==
  LET i == CHOOSE j \in DOMAIN scopes :
             x \in DOMAIN scopes[j] /\ \A h \in 1..(j - 1) : x \notin DOMAIN scopes[h]
  IN  [scopes EXCEPT ![i][x] = v]

-----------------------------------------------------------------------------
\* evalBinary on ints.

TruncDiv(l, r) ==
  LET q == (IF l < 0 THEN -l ELSE l) \div (IF r < 0 THEN -r ELSE r)
  IN  IF (l < 0) # (r < 0) THEN -q ELSE q

InIntRange(n) == n \in Int64Min..Int64Max
ArithResult(op, l, r) ==
  CASE op = "+" -> l + r
    [] op = "-" -> l - r
    [] op = "*" -> l * r
    [] op = "/" -> TruncDiv(l, r)
    [] op = "%" -> l - r * TruncDiv(l, r)
    [] op = "<<" -> l * 2^r
    [] op = ">>" -> l \div 2^r
CompareResult(op, l, r) ==
  CASE op = "==" -> l = r
    [] op = "!=" -> l # r
    [] op = "<"  -> l < r
    [] op = "<=" -> l <= r
    [] op = ">"  -> l > r
    [] op = ">=" -> l >= r

\* The error an operation raises, or 0.  A quotient is not checked.
ArithError(op, l, r) ==
  IF op \in {"/", "%"} THEN IF r = 0 THEN 1004 ELSE 0
  ELSE IF op \in {"<<", ">>"} /\ r \notin 0..(Width - 1) THEN 1005
  ELSE IF op \in {"+", "-", "*", "<<"} /\ ~InIntRange(ArithResult(op, l, r)) THEN 1001
  ELSE 0

Comparisons == {"==", "!=", "<", "<=", ">", ">="}
EvalBinary(op, l, r) ==
  IF op \in Comparisons THEN BoolVal(CompareResult(op, l.n, r.n))
  ELSE IntVal(ArithResult(op, l.n, r.n))
BinaryError(op, l, r) == IF op \in Comparisons THEN 0 ELSE ArithError(op, l.n, r.n)

-----------------------------------------------------------------------------
\* Lists and views.

ViewIsValid(v) == lists[views[v.n].list].version = views[v.n].version
IndexLimit(v) == IF v.t = "list" THEN Len(lists[v.n].items) ELSE views[v.n].len
\* The list behind a value, and where an index of the value is in it.
ListOf(v)  == IF v.t = "list" THEN v.n ELSE views[v.n].list
SlotOf(v, i) == IF v.t = "list" THEN i + 1 ELSE views[v.n].offset + i + 1

ReadOnly(v) == v.t = "view" /\ views[v.n].mode = "readonly"

\* What indexGet refuses.
IndexErrorPastEnd(v, i) ==
  IF v.t = "view" /\ ~ViewIsValid(v) THEN 1012
  ELSE IF i \notin 0..IndexLimit(v) THEN 1002 ELSE 0
IndexError(v, i) ==
  IF v.t = "view" /\ ~ViewIsValid(v) THEN 1012
  ELSE IF i \notin 0..(IndexLimit(v) - 1) THEN 1002 ELSE 0
\* assignIndex: a readonly view is refused before the index is looked at.
AssignError(v, i) ==
  IF ReadOnly(v) /\ ViewIsValid(v) THEN 1010 ELSE IndexError(v, i)
\* A view can reach past its array, where reading finds undefined and a
\* write makes the array longer.
Item(items, k) == IF k \in DOMAIN items THEN items[k] ELSE Value("undefined", 0)
WithItem(items, k, x) ==
  [j \in 1..(IF k > Len(items) THEN k ELSE Len(items)) |-> IF j = k THEN x ELSE Item(items, j)]
IndexGet(v, i) == Item(lists[ListOf(v)].items, SlotOf(v, i))
IndexSet(v, i, x) == [lists EXCEPT ![ListOf(v)].items = WithItem(@, SlotOf(v, i), x)]

-----------------------------------------------------------------------------
\* The nodes that are evaluated, in order, before the rest of node n.

TargetPartsReversed(t) ==
  CASE t.k = "var"   -> <<>>
    [] t.k = "get"   -> <<t.e>>
    [] t.k = "index" -> <<t.i, t.e>>
TargetParts(t) ==
  CASE t.k = "var"   -> <<>>
    [] t.k = "get"   -> <<t.e>>
    [] t.k = "index" -> <<t.e, t.i>>

Parts(n) ==
  CASE n.k \in {"unary", "get"}          -> <<n.e>>
    [] n.k = "bin"                       -> <<n.l, n.r>>
    [] n.k \in {"and", "or"}             -> <<n.l>>
    [] n.k = "cond"                      -> <<n.c>>
    [] n.k = "index"                     -> <<n.e, n.i>>
    [] n.k = "incdec"                    -> TargetParts(n.target)
    [] n.k = "list"                      -> n.items
    [] n.k \in {"call", "super"}         -> n.args
    [] n.k \in {"mcall", "builtin", "view"} -> <<n.recv>> \o n.args
    [] n.k = "decl"                      -> n.init
    [] n.k \in {"assign", "compound"}    -> TargetParts(n.target) \o <<n.expr>>
    [] n.k \in {"expr", "print", "throw", "switch"} -> <<n.expr>>
    [] n.k = "return"                    -> n.expr
    [] n.k \in {"if", "while"}           -> <<n.cond>>
    [] n.k = "forof"                     -> <<n.iter>>
    [] OTHER                             -> <<>>

\* What the code does when the statements before it have ended, in whatever
\* way; and what it does next only when they ended normally.
Ends  == {"leave", "round", "end_switch", "end_call", "catch", "finally", "resume"}
Nexts == {"do", "test", "item", "case"}

Running == todo # <<>> /\ comp.kind = "normal"
\* The head is the last part of a node of one of these kinds.
Doing(kinds) ==
  /\ Running
  /\ Head(todo).k = "do"
  /\ Head(todo).node.k \in kinds
Node == Head(todo).node
\* The k-th of the n operands of the node.
Operand(n, k) == vals[n - k + 1]
Below(n) == SubSeq(vals, n + 1, Len(vals))

Continue(ns) == todo' = ns \o Tail(todo)
Done         == Continue(<<>>)
Answer(n, v) == vals' = <<v>> \o Below(n)

\* A RuntimeError, as the exception that a catch clause makes of it.
Raise(code) ==
  /\ objs' = Append(objs, [proto |-> "RuntimeException", code |-> code, f |-> <<>>])
  /\ comp' = [kind |-> "throw", v |-> Value("obj", Len(objs) + 1)]
  /\ Done
  /\ UNCHANGED <<prog, vals, scopes, lists, views, out>>

\* The end of what runs in the current scopes above the n operands.
End(k, n) == [k |-> k, scopes |-> Len(scopes), vals |-> Len(vals) - n]
\* The things ns in a new scope s, and then more.
InScope(s, ns, n, more) ==
  /\ scopes' = <<s>> \o scopes
  /\ vals' = Below(n)
  /\ todo' = ns \o << End("leave", n) >> \o more \o Tail(todo)

-----------------------------------------------------------------------------
\* Expressions.

\* The operands first.
Evaluate ==
  /\ Running
  /\ Head(todo).k \notin Ends \cup Nexts
  /\ Continue(Parts(Head(todo)) \o << [k |-> "do", node |-> Head(todo)] >>)
  /\ UNCHANGED <<prog, vals, scopes, heap, out, comp>>

Literal ==
  /\ Doing({"lit", "minlit"})
  /\ Answer(0, IF Node.k = "minlit" THEN IntVal(-Int64Min) ELSE Value(Node.type, Node.v))
  /\ Done
  /\ UNCHANGED <<prog, scopes, heap, out, comp>>

Identifier ==
  /\ Doing({"var"})
  /\ Answer(0, Lookup(Node.x))
  /\ Done
  /\ UNCHANGED <<prog, scopes, heap, out, comp>>

UnaryExpr ==
  /\ Doing({"unary"})
  /\ LET v == Operand(1, 1).n
     IN  IF Node.op = "-" /\ ~InIntRange(-v) THEN Raise(1001)
         ELSE /\ Answer(1, IF Node.op = "-" THEN IntVal(-v) ELSE BoolVal(v = 0))
              /\ Done
              /\ UNCHANGED <<prog, scopes, heap, out, comp>>

BinaryExpr ==
  /\ Doing({"bin"})
  /\ LET l == Operand(2, 1)  r == Operand(2, 2)
         e == BinaryError(Node.op, l, r)
     IN  IF e # 0 THEN Raise(e)
         ELSE /\ Answer(2, EvalBinary(Node.op, l, r))
              /\ Done
              /\ UNCHANGED <<prog, scopes, heap, out, comp>>

\* The right operand of && and || only when the left does not decide.
LogicalExpr ==
  /\ Doing({"and", "or"})
  /\ LET l == Boolean(Operand(1, 1))
     IN  IF l = (Node.k = "or")
         THEN /\ Answer(1, BoolVal(l))
              /\ Done
         ELSE /\ vals' = Below(1)
              /\ Continue(<<Node.r>>)
  /\ UNCHANGED <<prog, scopes, heap, out, comp>>

ConditionalExpr ==
  /\ Doing({"cond"})
  /\ vals' = Below(1)
  /\ Continue(<<IF Boolean(Operand(1, 1)) THEN Node.t ELSE Node.e>>)
  /\ UNCHANGED <<prog, scopes, heap, out, comp>>

IndexExpr ==
  /\ Doing({"index"})
  /\ LET v == Operand(2, 1)  i == Operand(2, 2).n  e == IndexError(v, i)
     IN  IF e # 0 THEN Raise(e)
         ELSE /\ Answer(2, IndexGet(v, i))
              /\ Done
              /\ UNCHANGED <<prog, scopes, heap, out, comp>>

FieldOf(o, f) == IF f = "code" THEN Value("code", objs[o.n].code) ELSE objs[o.n].f[f]
MemberExpr ==
  /\ Doing({"get"})
  /\ Answer(1, FieldOf(Operand(1, 1), Node.f))
  /\ Done
  /\ UNCHANGED <<prog, scopes, heap, out, comp>>

ListLiteral ==
  /\ Doing({"list"})
  /\ LET m == Len(Node.items)
     IN  /\ lists' = Append(lists, [items |-> [i \in 1..m |-> Operand(m, i)], version |-> 0])
         /\ Answer(m, Value("list", Len(lists) + 1))
  /\ Done
  /\ UNCHANGED <<prog, scopes, views, objs, out, comp>>

-----------------------------------------------------------------------------
\* Assignments.  lvalueRef has evaluated the parts of the target: they are
\* the lowest of the n operands.

\* What the reading of the target refuses, and what the writing of it does.
TargetError(t, n) == IF t.k = "index" THEN IndexError(Operand(n, 1), Operand(n, 2).n) ELSE 0
SetError(t, n) == IF t.k = "index" THEN AssignError(Operand(n, 1), Operand(n, 2).n) ELSE 0
RefGet(t, n) ==
  CASE t.k = "var"   -> Lookup(t.x)
    [] t.k = "get"   -> FieldOf(Operand(n, 1), t.f)
    [] t.k = "index" -> IndexGet(Operand(n, 1), Operand(n, 2).n)
RefSet(t, n, v) ==
  /\ IF t.k = "var" THEN scopes' = ScopeSet(t.x, v) ELSE UNCHANGED scopes
  /\ IF t.k = "get" THEN objs' = [objs EXCEPT ![Operand(n, 1).n].f[t.f] = v] ELSE UNCHANGED objs
  /\ IF t.k = "index" THEN lists' = IndexSet(Operand(n, 1), Operand(n, 2).n, v) ELSE UNCHANGED lists

AssignStmt ==
  /\ Doing({"assign"})
  /\ LET n == Len(Parts(Node))  e == SetError(Node.target, n)
     IN  IF e # 0 THEN Raise(e)
         ELSE /\ RefSet(Node.target, n, Operand(n, n))
              /\ vals' = Below(n)
              /\ Done
              /\ UNCHANGED <<prog, views, out, comp>>

CompoundAssignStmt ==
  /\ Doing({"compound"})
  /\ LET n == Len(Parts(Node))  e == TargetError(Node.target, n)
     IN  IF e # 0 THEN Raise(e)
         ELSE LET cur == RefGet(Node.target, n)  rhs == Operand(n, n)
                  o == BinaryError(Node.op, cur, rhs)
                  w == SetError(Node.target, n)
              IN  IF o # 0 THEN Raise(o)
                  ELSE IF w # 0 THEN Raise(w)
                  ELSE /\ RefSet(Node.target, n, EvalBinary(Node.op, cur, rhs))
                       /\ vals' = Below(n)
                       /\ Done
                       /\ UNCHANGED <<prog, views, out, comp>>

\* ++ and --, before and after: PostfixExpr answers the old value.
IncDecExpr ==
  /\ Doing({"incdec"})
  /\ LET n == Len(Parts(Node))  e == TargetError(Node.target, n)
     IN  IF e # 0 THEN Raise(e)
         ELSE LET v == RefGet(Node.target, n)
                  next == v.n + (IF Node.op = "++" THEN 1 ELSE -1)
                  w == SetError(Node.target, n)
              IN  IF ~InIntRange(next) THEN Raise(1001)
                  ELSE IF w # 0 THEN Raise(w)
                  ELSE /\ RefSet(Node.target, n, IntVal(next))
                       /\ Answer(n, IF Node.prefix THEN IntVal(next) ELSE v)
                       /\ Done
                       /\ UNCHANGED <<prog, views, out, comp>>

-----------------------------------------------------------------------------
\* evalCall.

Functions == Programs[prog]

\* callFunction: the n operands of the call are replaced by its arguments.
\* A function of a prototype gets its receiver as self.
CallFunction(f, self, args, n) ==
  LET fn == Functions[f]
      params == [x \in {fn.params[i].x : i \in DOMAIN fn.params} |->
                   args[CHOOSE i \in DOMAIN fn.params : fn.params[i].x = x]]
      scope == IF fn.proto = "none" THEN params
               ELSE DefineIn(DefineIn(params, "self", self), "__declProto", Value("proto", fn.proto))
  IN  /\ todo' = fn.body \o << [End("end_call", n) EXCEPT !.scopes = scopes] >> \o Tail(todo)
      /\ scopes' = << <<>>, scope >>
      /\ vals' = Below(n)
      /\ UNCHANGED <<prog, heap, out, comp>>

\* objectCloneDefault, of the prototype p.
CloneDefault(p, n) ==
  /\ objs' = Append(objs, ClonePrototype(p, TRUE))
  /\ Answer(n, Value("obj", Len(objs) + 1))
  /\ Done
  /\ UNCHANGED <<prog, scopes, lists, views, out, comp>>
\* The prototype of an object or of a descriptor.
ProtoOf(v) == IF v.t = "obj" THEN objs[v.n].proto ELSE v.n

CallIdentifier ==
  /\ Doing({"call"})
  /\ LET m == Len(Node.args)
     IN  CallFunction(Node.f, Null, [i \in 1..m |-> Operand(m, i)], m)

\* P.clone(): the receiver is a descriptor of P.
CallStatic ==
  /\ Doing({"clone"})
  /\ LET f == Method(Node.proto, "clone")
     IN  IF f = "none" THEN CloneDefault(Node.proto, 0)
         ELSE CallFunction(f, Value("proto", Node.proto), <<>>, 0)

\* super.m(): the method of the parent of the declaring prototype.
CallSuper ==
  /\ Doing({"super"})
  /\ LET parent == Protos[Lookup("__declProto").n].parent
         f == IF parent = "none" THEN "none" ELSE Method(parent, Node.m)
         m == Len(Node.args)
     IN  IF f = "none" THEN CloneDefault(ProtoOf(Lookup("self")), m)
         ELSE CallFunction(f, Lookup("self"), [i \in 1..m |-> Operand(m, i)], m)

\* recv.m(): the prototype the analysis found (_protoInstance, n.proto),
\* except for clone, which goes by the object's own.
CallInstance ==
  /\ Doing({"mcall"})
  /\ LET m == Len(Node.args)
         recv == Operand(m + 1, 1)
         f == Method(IF Node.m = "clone" THEN ProtoOf(recv) ELSE Node.proto, Node.m)
     IN  IF f = "none" THEN CloneDefault(ProtoOf(recv), m + 1)
         ELSE CallFunction(f, recv, [i \in 1..m |-> Operand(m + 1, i + 1)], m + 1)

\* The methods of lists that change them.
Changed(l, items) == [lists EXCEPT ![l.n] = [items |-> items, version |-> @.version + 1]]
CallPush ==
  /\ Doing({"builtin"})
  /\ Node.m = "push"
  /\ LET l == Operand(2, 1)
     IN  /\ lists' = Changed(l, Append(lists[l.n].items, Operand(2, 2)))
         /\ Answer(2, IntVal(Len(lists[l.n].items) + 1))
  /\ Done
  /\ UNCHANGED <<prog, scopes, views, objs, out, comp>>

PopKeepsVersion ==
  /\ Doing({"builtin"})
  /\ Node.m \in {"pop", "removeLast"}
  /\ LET l == Operand(1, 1)  items == lists[l.n].items
     IN  IF items = <<>> THEN Raise(1006)
         ELSE /\ lists' = [lists EXCEPT ![l.n].items = Front(items)]
              /\ Answer(1, IF Node.m = "pop" THEN Last(items) ELSE Null)
              /\ Done
              /\ UNCHANGED <<prog, scopes, views, objs, out, comp>>
CallPop ==
  /\ Doing({"builtin"})
  /\ Node.m \in {"pop", "removeLast"}
  /\ LET l == Operand(1, 1)  items == lists[l.n].items
     IN  IF items = <<>> THEN Raise(1006)
         ELSE /\ lists' = Changed(l, Front(items))
              /\ Answer(1, IF Node.m = "pop" THEN Last(items) ELSE Null)
              /\ Done
              /\ UNCHANGED <<prog, scopes, views, objs, out, comp>>

\* Ints in their order; those that are equal stay in theirs.
SortedPlace(items) ==
  LET n == Len(items)
      before(j, k) == \/ items[j].n < items[k].n
                      \/ items[j].n = items[k].n /\ j < k
  IN  CHOOSE p \in [1..n -> 1..n] : \A j, k \in 1..n : j < k => before(p[j], p[k])
Sorted(items) == LET place == SortedPlace(items) IN [j \in 1..Len(items) |-> items[place[j]]]
\* In place: the version stays.
CallReorder ==
  /\ Doing({"builtin"})
  /\ Node.m \in {"reverse", "sort"}
  /\ LET l == Operand(1, 1)  items == lists[l.n].items
     IN  /\ lists' = [lists EXCEPT ![l.n].items =
                        IF Node.m = "reverse" THEN Reverse(items)
                        ELSE Sorted(items)]
         /\ Answer(1, IntVal(Len(items)))
  /\ Done
  /\ UNCHANGED <<prog, scopes, views, objs, out, comp>>

\* contains, of lists; length, of lists and views.
CallQuery ==
  /\ Doing({"builtin"})
  /\ Node.m \in {"contains", "length"}
  /\ LET m == Len(Node.args)  v == Operand(m + 1, 1)
     IN  IF v.t = "view" /\ ~ViewIsValid(v) THEN Raise(1012)
         ELSE /\ Answer(m + 1, IF Node.m = "length" THEN IntVal(IndexLimit(v))
                               ELSE BoolVal(Contains(lists[v.n].items, Operand(2, 2))))
              /\ Done
              /\ UNCHANGED <<prog, scopes, heap, out, comp>>

\* A view is cut again by the method that cut it.  makeView: of a view, on the
\* list behind it, whose length is the limit.
ViewError(v, offset, len) ==
  IF v.t = "view" /\ (Node.m = "view") # ReadOnly(v) THEN 1010
  ELSE IF offset < 0 \/ len < 0 THEN 1002
  ELSE IF v.t = "view" /\ ~ViewIsValid(v) THEN 1012
  ELSE IF offset + len > Len(lists[ListOf(v)].items) THEN 1002 ELSE 0
NewView(v, offset, len) ==
  [list |-> ListOf(v), offset |-> SlotOf(v, offset) - 1, len |-> len,
   version |-> lists[ListOf(v)].version,
   mode |-> IF Node.m = "view" THEN "readonly" ELSE "writable"]
CallView ==
  /\ Doing({"view"})
  /\ LET n == Len(Node.args) + 1
         v == Operand(n, 1)
         offset == IF n = 3 THEN Operand(n, 2).n ELSE 0
         len == IF n = 3 THEN Operand(n, 3).n ELSE 0
         e == IF n # 3 THEN 1010 ELSE ViewError(v, offset, len)
     IN  IF e # 0 THEN Raise(e)
         ELSE /\ views' = Append(views, NewView(v, offset, len))
              /\ Answer(n, Value("view", Len(views) + 1))
              /\ Done
              /\ UNCHANGED <<prog, scopes, lists, objs, out, comp>>

-----------------------------------------------------------------------------
\* execStmt.

VarDecl ==
  /\ Doing({"decl"})
  /\ LET n == Len(Node.init)
         object == n = 0 /\ Node.type \in DOMAIN Protos
         list == n = 0 /\ Node.type = "list"
         \* defaultValueForTypeNode: an object of which no initializer has run
         v == CASE n = 1  -> Operand(1, 1)
                [] object -> Value("obj", Len(objs) + 1)
                [] list   -> Value("list", Len(lists) + 1)
                [] OTHER  -> Value(Node.type, 0)
     IN  /\ scopes' = [scopes EXCEPT ![1] = DefineIn(@, Node.x, v)]
         /\ objs' = IF object THEN Append(objs, ClonePrototype(Node.type, FALSE)) ELSE objs
         /\ lists' = IF list THEN Append(lists, [items |-> <<>>, version |-> 0]) ELSE lists
         /\ vals' = Below(n)
  /\ Done
  /\ UNCHANGED <<prog, views, out, comp>>

\* An expression statement drops its value.
ExprStmt ==
  /\ Doing({"expr", "print"})
  /\ out' = IF Node.k = "print" THEN Append(out, Operand(1, 1)) ELSE out
  /\ vals' = Below(1)
  /\ Done
  /\ UNCHANGED <<prog, scopes, heap, comp>>

\* The signals, and the exception of a throw.
SignalStmt ==
  /\ Doing({"return", "throw", "break", "continue"})
  /\ LET n == Len(Parts(Node))
     IN  /\ comp' = [kind |-> Node.k, v |-> IF n = 0 THEN Null ELSE Operand(n, 1)]
         /\ vals' = Below(n)
  /\ Done
  /\ UNCHANGED <<prog, scopes, heap, out>>

ExecBlock ==
  /\ Doing({"block"})
  /\ InScope(<<>>, Node.body, 0, <<>>)
  /\ UNCHANGED <<prog, heap, out, comp>>

ExecIf ==
  /\ Doing({"if"})
  /\ InScope(<<>>, IF Boolean(Operand(1, 1)) THEN Node.then
                   ELSE IF Node.else # <<>> THEN Node.else[1] ELSE <<>>, 1, <<>>)
  /\ UNCHANGED <<prog, heap, out, comp>>

\* A round of a loop: the body, in a scope of its own, and the round's end,
\* which knows what follows it (next).
Round(body, n, next) ==
  /\ scopes' = << <<>> >> \o scopes
  /\ vals' = Below(n)
  /\ Continue(body \o << [k |-> "round", scopes |-> Len(scopes), vals |-> Len(vals) - n, next |-> next] >>)

ExecWhile ==
  /\ Doing({"while"})
  /\ IF Boolean(Operand(1, 1)) THEN Round(Node.body, 1, <<Node>>)
     ELSE /\ vals' = Below(1)
          /\ Done
          /\ UNCHANGED scopes
  /\ UNCHANGED <<prog, heap, out, comp>>

\* [k |-> "test", node |-> n]: goes round n when the value on top is true.
ExecDoWhile ==
  /\ Doing({"dowhile"})
  /\ Round(Node.body, 0, << Node.cond, [k |-> "test", node |-> Node] >>)
  /\ UNCHANGED <<prog, heap, out, comp>>

\* The scope of a for holds what its first part declares; the loop itself is
\* a while whose rounds end with the step.
ForTest(n) ==
  (IF n.cond = <<>> THEN << [k |-> "lit", type |-> "bool", v |-> 1] >> ELSE n.cond)
  \o << [k |-> "test", node |-> n] >>
ExecFor ==
  /\ Doing({"for"})
  /\ InScope(<<>>, Node.init \o ForTest(Node), 0, <<>>)
  /\ UNCHANGED <<prog, heap, out, comp>>

\* The test of a do while or of a for.
LoopTest ==
  /\ Running
  /\ Head(todo).k = "test"
  /\ IF ~Boolean(Operand(1, 1))
     THEN /\ vals' = Below(1)
          /\ Done
          /\ UNCHANGED scopes
     ELSE IF Node.k = "for" THEN Round(Node.body, 1, Node.step \o ForTest(Node))
     ELSE Round(Node.body, 1, << Node.cond, [k |-> "test", node |-> Node] >>)
  /\ UNCHANGED <<prog, heap, out, comp>>

\* for of: over a list as it is at each round; over the items of a view as
\* they were.
ExecForOf ==
  /\ Doing({"forof"})
  /\ LET v == Operand(1, 1)
         items == IF v.t = "list" THEN <<>>
                  ELSE [i \in 1..views[v.n].len |-> IndexGet(v, i - 1)]
     IN  IF v.t = "view" /\ ~ViewIsValid(v) THEN Raise(1012)
         ELSE /\ InScope(<<>>, << [k |-> "item", node |-> Node, seq |-> v, items |-> items, i |-> 1] >>,
                         1, <<>>)
              /\ UNCHANGED <<prog, heap, out, comp>>

NextItem ==
  /\ Running
  /\ Head(todo).k = "item"
  /\ LET h == Head(todo)
         items == IF h.seq.t = "list" THEN lists[h.seq.n].items ELSE h.items
         outer == [scopes EXCEPT ![1] = DefineIn(@, h.node.x, items[h.i])]
     IN  IF h.i > Len(items) THEN Done /\ UNCHANGED scopes
         ELSE /\ scopes' = << <<>> >> \o outer
              /\ Continue(h.node.body
                          \o << [k |-> "round", scopes |-> Len(scopes), vals |-> Len(vals),
                                 next |-> << [h EXCEPT !.i = @ + 1] >>] >>)
  /\ UNCHANGED <<prog, vals, heap, out, comp>>

\* The cases are tried in order; their statements have no scope of their own.
ExecSwitch ==
  /\ Doing({"switch"})
  /\ LET default == IF Node.default = <<>> THEN <<>> ELSE Node.default[1]
         case(i) == << Node.cases[i].value, [k |-> "case", body |-> Node.cases[i].body] >>
     IN  Continue(FlattenSeq([i \in DOMAIN Node.cases |-> case(i)])
                  \o << [k |-> "case", body |-> default], End("end_switch", 1) >>)
  /\ UNCHANGED <<prog, vals, scopes, heap, out, comp>>

\* Drops the cases after the one that runs.
UpTo(kinds, ns) ==
  LET at == {i \in DOMAIN ns : ns[i].k \in kinds}
  IN  IF at = {} THEN <<>>
      ELSE SubSeq(ns, CHOOSE i \in at : \A j \in at : i <= j, Len(ns))
ExecCase ==
  /\ Running
  /\ Head(todo).k = "case"
  /\ LET default == Head(Tail(todo)).k = "end_switch"
         n == IF default THEN 1 ELSE 2
     IN  IF default \/ Operand(2, 1) = Operand(2, 2)
         THEN /\ todo' = Head(todo).body \o UpTo({"end_switch"}, todo)
              /\ vals' = Below(n)
         ELSE /\ Done
              /\ vals' = Below(1)
  /\ UNCHANGED <<prog, scopes, heap, out, comp>>

\* try, its clauses, its finally block and what was pending when it began.
ExecTry ==
  /\ Doing({"try"})
  /\ InScope(<<>>, Node.body, 0,
             << [k |-> "catch", catches |-> Node.catches] >>
             \o (IF Node.finally = <<>> THEN <<>>
                 ELSE << [k |-> "finally", body |-> Node.finally[1]] >>))
  /\ UNCHANGED <<prog, heap, out, comp>>

ExceptionMatches(c) == IsProtoSubtype(objs[comp.v.n].proto, c.type)
EndTry ==
  /\ todo # <<>>
  /\ Head(todo).k = "catch"
  /\ LET matching == SelectSeq(Head(todo).catches, ExceptionMatches)
     IN  IF comp.kind = "throw" /\ matching # <<>>
         THEN /\ InScope([x \in {matching[1].x} |-> comp.v], << [k |-> "block", body |-> matching[1].body] >>,
                         0, <<>>)
              /\ comp' = Normal
         ELSE /\ Done
              /\ UNCHANGED <<vals, scopes, comp>>
  /\ UNCHANGED <<prog, heap, out>>

ExecFinally ==
  /\ todo # <<>>
  /\ Head(todo).k = "finally"
  /\ InScope(<<>>, Head(todo).body, 0, << [k |-> "resume", comp |-> comp] >>)
  /\ comp' = Normal
  /\ UNCHANGED <<prog, heap, out>>

\* What was pending goes on, unless the finally block ended with its own.
EndFinally ==
  /\ todo # <<>>
  /\ Head(todo).k = "resume"
  /\ comp' = IF comp.kind = "normal" THEN Head(todo).comp ELSE comp
  /\ Done
  /\ UNCHANGED <<prog, vals, scopes, heap, out>>

\* The operands and scopes as they were where the end was put.
Restore == /\ scopes' = SubSeq(scopes, Len(scopes) - Head(todo).scopes + 1, Len(scopes))
           /\ vals' = SubSeq(vals, Len(vals) - Head(todo).vals + 1, Len(vals))
EndBlock ==
  /\ todo # <<>>
  /\ Head(todo).k \in {"leave", "end_switch"}
  /\ Restore
  /\ comp' = IF Head(todo).k = "end_switch" /\ comp.kind = "break" THEN Normal ELSE comp
  /\ Done
  /\ UNCHANGED <<prog, heap, out>>

EndRound ==
  /\ todo # <<>>
  /\ Head(todo).k = "round"
  /\ Restore
  /\ comp' = IF comp.kind \in {"break", "continue"} THEN Normal ELSE comp
  /\ Continue(IF comp.kind \in {"normal", "continue"} THEN Head(todo).next ELSE <<>>)
  /\ UNCHANGED <<prog, heap, out>>

\* The end of callFunction.
EndCall ==
  /\ todo # <<>>
  /\ Head(todo).k = "end_call"
  /\ LET rest == SubSeq(vals, Len(vals) - Head(todo).vals + 1, Len(vals))
     IN  vals' = IF comp.kind = "throw" THEN rest ELSE <<comp.v>> \o rest
  /\ scopes' = Head(todo).scopes
  /\ comp' = IF comp.kind = "return" THEN Normal ELSE comp
  /\ Done
  /\ UNCHANGED <<prog, heap, out>>

\* What is in flight passes what has not begun.
Unwind ==
  /\ todo # <<>>
  /\ comp.kind # "normal"
  /\ Head(todo).k \notin Ends
  /\ todo' = UpTo(Ends, todo)
  /\ UNCHANGED <<prog, vals, scopes, heap, out, comp>>

-----------------------------------------------------------------------------
\* runProgram.

Init ==
  /\ prog \in DOMAIN Programs
  /\ todo = << [k |-> "call", f |-> "main", args |-> <<>>] >>
  /\ vals = <<>>
  /\ scopes = <<>>
  /\ lists = <<>>
  /\ views = <<>>
  /\ objs = <<>>
  /\ out = <<>>
  /\ comp = Normal

EvalExpr ==
  \/ Evaluate \/ Literal \/ Identifier \/ UnaryExpr \/ BinaryExpr \/ LogicalExpr \/ ConditionalExpr
  \/ IndexExpr \/ MemberExpr \/ ListLiteral \/ IncDecExpr
  \/ CallIdentifier \/ CallStatic \/ CallSuper \/ CallInstance
  \/ CallPush \/ CallPop \/ CallReorder \/ CallQuery \/ CallView
ExecStmt ==
  \/ VarDecl \/ AssignStmt \/ CompoundAssignStmt \/ ExprStmt \/ SignalStmt
  \/ ExecBlock \/ ExecIf \/ ExecWhile \/ ExecDoWhile \/ ExecFor \/ LoopTest
  \/ ExecForOf \/ NextItem \/ ExecSwitch \/ ExecCase \/ ExecTry
Ending == EndTry \/ ExecFinally \/ EndFinally \/ EndBlock \/ EndRound \/ EndCall \/ Unwind

Next == EvalExpr \/ ExecStmt \/ Ending
Spec == Init /\ [][Next]_vars /\ WF_vars(Next)

Finished == todo = <<>>

-----------------------------------------------------------------------------
\* Properties.

\* A value that is a list or a view, which is there: in the code it is the
\* array, or the window, itself.
IsPlace(v) == \/ v.t = "list" /\ v.n \in DOMAIN lists
              \/ v.t = "view" /\ v.n \in DOMAIN views

\* A step that indexes the first of its operands by the second.
Indexes == Doing({"index"}) \/ (Doing({"assign", "compound", "incdec"}) /\ Node.target.k = "index")
Indexed == Operand(Len(Parts(Node)), 1)
\* A step that cuts a view from the first of its three operands.
Cuts == Doing({"view"}) /\ Len(Node.args) + 1 = 3

\* A view cut from a view lies in it.  makeView compares with the list behind
\* only: whether this is so is up to the program.
SubviewsFit ==
  Cuts => LET v == Operand(3, 1)  offset == Operand(3, 2).n  len == Operand(3, 3).n
          IN  v.t = "view" /\ ViewError(v, offset, len) = 0 => offset + len <= views[v.n].len

\* What the front end's checks promise the interpreter, and what the program
\* answers for itself: only lists and views are indexed and cut, those that
\* are there, they are cut by ints, and a view of a view lies in it.
OperandsFit ==
  /\ Doing({"list"}) => Len(Node.items) \in Nat
  /\ Indexes => IsPlace(Indexed)
  /\ Cuts => IsPlace(Operand(3, 1)) /\ Operand(3, 2).n \in Int /\ Operand(3, 3).n \in Int
  /\ SubviewsFit

\* A view of the reference whose version is its list's lies within the list,
\* so that the version test and the index test of a view are enough.
ValidViewsFit ==
  \A v \in DOMAIN views :
     LET l == lists[views[v].list]
     IN  l.version = views[v].version => views[v].offset + views[v].len <= Len(l.items)

\* What passes the tests of indexGet and assignIndex is an element of the
\* array: no read through a view finds undefined, and no write makes the
\* array longer.
IndexedIsThere ==
  Indexes => LET i == Operand(Len(Parts(Node)), 2).n
             IN  IndexError(Indexed, i) = 0 => SlotOf(Indexed, i) \in DOMAIN lists[ListOf(Indexed)].items
=============================================================================
