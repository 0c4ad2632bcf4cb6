------------------------------- MODULE Optimizer -------------------------------
(***************************************************************************)
(* src/optimizer.js: calls of one-block functions are replaced by their     *)
(* bodies, operations on constants by constants, and checks that occur      *)
(* twice in a block are made once.                                         *)
(*                                                                         *)
(* The values folded are those of JavaScript's numbers, rationals p/q here: *)
(* a quotient is not truncated, shifts have half the bits of an int, and    *)
(* nothing overflows (nor is rounded: the literals are small).  A folded    *)
(* bool is the text true or false; a literal one is a JavaScript boolean,   *)
(* which the code that looks for the text takes for false.                  *)
(***************************************************************************)
EXTENDS Integers, Sequences, SequencesExt, TLC, Passes

CONSTANT Width  \* of an int, in bits

FoldBits == Width \div 2

-----------------------------------------------------------------------------
\* constantPropagation.  What is known of a temporary: its type, its value
\* p/q, and whether a bool is a text.

Known(type, p, q, text) == [type |-> type, p |-> p, q |-> q, text |-> text]
KnownBool(b) == Known("bool", IF b THEN 1 ELSE 0, 1, TRUE)
\* q # 0; the sign goes to p, which is all that is needed to compare.
Ratio(type, p, q) == IF q < 0 THEN Known(type, -p, -q, FALSE) ELSE Known(type, p, q, FALSE)

Floor(p, q) == p \div q
Trunc(p, q) == IF p < 0 THEN -((-p) \div q) ELSE p \div q
ToBits(k) == ((Trunc(k.p, k.q) + 2^(FoldBits - 1)) % 2^FoldBits) - 2^(FoldBits - 1)
ShiftCount(k) == Trunc(k.p, k.q) % FoldBits

\* The number whose bits are those that pass the test.
FromBits(test(_)) ==
  FoldSet(LAMBDA i, n : n + (IF i = FoldBits - 1 THEN -(2^i) ELSE 2^i), 0, {i \in 0..(FoldBits - 1) : test(i)})
Bit(k, i) == (ToBits(k) \div 2^i) % 2 = 1

\* A string is no number, unless its text is one, which no text is here.
IsNaN(k) == k.type = "string"
IsTrue(k) == ~IsNaN(k) /\ k.p # 0

\* foldBinary; a result that is no finite number is none.
FoldLogical(op, a, b) == IF op = "&&" THEN IsTrue(a) /\ IsTrue(b) ELSE IsTrue(a) \/ IsTrue(b)
FoldNumbers(op, a, b) ==
  CASE op = "&"  -> << Known(a.type, FromBits(LAMBDA i : Bit(a, i) /\ Bit(b, i)), 1, FALSE) >>
    [] op = "|"  -> << Known(a.type, FromBits(LAMBDA i : Bit(a, i) \/ Bit(b, i)), 1, FALSE) >>
    [] op = "^"  -> << Known(a.type, FromBits(LAMBDA i : Bit(a, i) # Bit(b, i)), 1, FALSE) >>
    [] op = "+"  -> << Ratio(a.type, a.p * b.q + b.p * a.q, a.q * b.q) >>
    [] op = "-"  -> << Ratio(a.type, a.p * b.q - b.p * a.q, a.q * b.q) >>
    [] op = "*"  -> << Ratio(a.type, a.p * b.p, a.q * b.q) >>
    [] op = "/"  -> IF b.p = 0 THEN <<>> ELSE << Ratio(a.type, a.p * b.q, a.q * b.p) >>
    [] op = "%"  -> IF b.p = 0 THEN <<>>
                    ELSE LET d == Ratio(a.type, a.p * b.q, a.q * b.p)
                         IN  << Ratio(a.type, a.p * b.q - Trunc(d.p, d.q) * b.p * a.q, a.q * b.q) >>
    [] op = "<<" -> LET n == Known(a.type, ToBits(a) * 2^ShiftCount(b), 1, FALSE)
                    IN  << Known(a.type, ToBits(n), 1, FALSE) >>
    [] op = ">>" -> << Known(a.type, ToBits(a) \div 2^ShiftCount(b), 1, FALSE) >>
    [] op = "==" -> << KnownBool(a.p * b.q = b.p * a.q) >>
    [] op = "!=" -> << KnownBool(a.p * b.q # b.p * a.q) >>
    [] op = "<"  -> << KnownBool(a.p * b.q < b.p * a.q) >>
    [] op = "<=" -> << KnownBool(a.p * b.q <= b.p * a.q) >>
    [] op = ">"  -> << KnownBool(a.p * b.q > b.p * a.q) >>
    [] op = ">=" -> << KnownBool(a.p * b.q >= b.p * a.q) >>

FoldBinary(op, a, b) ==
  CASE op \in {"&&", "||"} -> << KnownBool(FoldLogical(op, a, b)) >>
    [] op \notin {"&&", "||"} /\ ~IsNaN(a) /\ ~IsNaN(b) -> FoldNumbers(op, a, b)
    [] op \in {"==", "!=", "<", "<=", ">", ">="} /\ (IsNaN(a) \/ IsNaN(b)) -> << KnownBool(op = "!=") >>
    [] OTHER -> <<>>

\* foldUnary, of what Number() makes of the value: nothing of a text.
FoldUnary(op, a) ==
  CASE a.text \/ IsNaN(a) -> <<>>
    [] ~(a.text \/ IsNaN(a)) /\ op = "-" -> << Known(a.type, -a.p, a.q, FALSE) >>
    [] ~(a.text \/ IsNaN(a)) /\ op = "~" -> << Known(a.type, -ToBits(a) - 1, 1, FALSE) >>
    [] ~(a.text \/ IsNaN(a)) /\ op = "!" -> << KnownBool(a.p = 0) >>

IsTrueText(k) == k.text /\ k.p = 1
\* An operand of foldBinary.
Operand(k) == IF k.type = "bool" THEN Known("bool", IF IsTrueText(k) THEN 1 ELSE 0, 1, FALSE) ELSE k

Forget(cst, x) == [y \in DOMAIN cst \ {x} |-> cst[y]]
Learn(cst, x, k) == [y \in DOMAIN cst \cup {x} |-> IF y = x THEN k ELSE cst[y]]
LearnFrom(cst, x, y) == IF y \in DOMAIN cst THEN Learn(cst, x, cst[y]) ELSE Forget(cst, x)

\* What the constants known say the result of instruction i is, or nothing.
Folded(i, cst) ==
  CASE i.op = "unary_op" /\ i.src \in DOMAIN cst -> FoldUnary(i.operator, cst[i.src])
    [] i.op = "bin_op" /\ {i.left, i.right} \subseteq DOMAIN cst ->
         FoldBinary(i.operator, Operand(cst[i.left]), Operand(cst[i.right]))
    [] OTHER -> <<>>

\* acc: the constants known (cst) and the instructions written (is).  The C
\* assigns a fraction to an int, which truncates it.
PropagateInstr(acc, i) ==
  LET k == Folded(i, acc.cst)
      write(cst, j) == [cst |-> cst, is |-> Append(acc.is, j)]
      chosen == IF IsTrueText(acc.cst[i.cond]) THEN i.then ELSE i.else
  IN  CASE i.op = "const" -> write(Learn(acc.cst, i.dst, Known(i.type, i.v, 1, FALSE)), i)
        [] i.op = "copy"  -> write(LearnFrom(acc.cst, i.dst, i.src), i)
        [] k # <<>>       -> write(Learn(acc.cst, i.dst, k[1]),
                                   [op |-> "const", dst |-> i.dst, type |-> k[1].type, v |-> Trunc(k[1].p, k[1].q)])
        [] i.op = "select" /\ i.cond \in DOMAIN acc.cst ->
             write(LearnFrom(acc.cst, i.dst, chosen), [op |-> "copy", dst |-> i.dst, src |-> chosen])
        [] OTHER -> write(IF "dst" \in DOMAIN i THEN Forget(acc.cst, i.dst) ELSE acc.cst, i)

PropagateBlock(is) == Pass(PropagateInstr, [cst |-> <<>>, is |-> <<>>], is).is

-----------------------------------------------------------------------------
\* reduceRedundantChecks.

CheckOps == {"check_int_overflow", "check_int_overflow_unary_minus", "check_div_zero",
             "check_shift_range", "check_index_bounds"}
ReduceInstr(out, i) == IF i.op \in CheckOps /\ Contains(out, i) THEN out ELSE Append(out, i)
ReduceBlock(is) == Pass(ReduceInstr, <<>>, is)

-----------------------------------------------------------------------------
\* inlineCalls.

InlineOps == {"const", "load_var", "unary_op", "bin_op", "select", "copy", "check_int_overflow",
              "check_int_overflow_unary_minus", "check_div_zero", "check_shift_range"}
IsInlineCandidate(fn) ==
  /\ Len(fn.blocks) = 1
  /\ LET is == fn.blocks[1].instrs
     IN  /\ is # <<>>
         /\ Last(is).op = "ret"
         /\ \A j \in 1..(Len(is) - 1) : is[j].op \in InlineOps

\* Instruction i of the function called, with the names in m put for its own
\* and x as its destination.  A parameter read is a copy.
Renamed(i, m, x) ==
  LET at(n) == IF n \in DOMAIN m THEN m[n] ELSE n
  IN  CASE i.op = "const"    -> [i EXCEPT !.dst = x]
        [] i.op = "load_var" -> [op |-> "copy", dst |-> x, src |-> at(i.name)]
        [] i.op \in {"copy", "unary_op"} -> [i EXCEPT !.dst = x, !.src = at(@)]
        [] i.op = "bin_op"   -> [i EXCEPT !.dst = x, !.left = at(@), !.right = at(@)]
        [] i.op = "select"   -> [i EXCEPT !.dst = x, !.cond = at(@), !.then = at(@), !.else = at(@)]
        [] i.op = "check_int_overflow" -> [i EXCEPT !.left = at(@), !.right = at(@)]
        [] i.op = "check_int_overflow_unary_minus" -> [i EXCEPT !.value = at(@)]
        [] i.op = "check_div_zero"     -> [i EXCEPT !.divisor = at(@)]
        [] i.op = "check_shift_range"  -> [i EXCEPT !.shift = at(@)]

\* acc: the instructions written and the number of the next new temporary.
\* Names of the function called are told from those of its caller by m alone:
\* parameters and temporaries are all in it.
RenameInstr(a, i, call) ==
  IF i.op = "ret"
  THEN [a EXCEPT !.is = Append(@, [op |-> "copy", dst |-> call.dst, src |-> a.m[i.value]])]
  ELSE LET new == "dst" \in DOMAIN i
       IN  [a EXCEPT !.is = Append(@, Renamed(i, a.m, a.next)),
                     !.m = IF new THEN Learn(@, i.dst, a.next) ELSE @,
                     !.next = IF new THEN @ + 1 ELSE @]
InlineCall(acc, call, fn) ==
  Pass(LAMBDA a, i : RenameInstr(a, i, call), [acc EXCEPT !.m = call.args], fn.blocks[1].instrs)
InlineInstr(acc, i, fns) ==
  IF /\ i.op = "call_static"
     /\ i.callee \in DOMAIN fns
     /\ IsInlineCandidate(fns[i.callee])
     /\ Len(fns[i.callee].params) = Len(i.args)
  THEN InlineCall(acc, i, fns[i.callee])
  ELSE [acc EXCEPT !.is = Append(@, i)]

FirstNewTemp == 1000001
InlineBlock(acc, b, fns) ==
  LET done == Pass(LAMBDA a, i : InlineInstr(a, i, fns), [acc EXCEPT !.is = <<>>], b.instrs)
  IN  [done EXCEPT !.blocks = Append(@, [b EXCEPT !.instrs = done.is])]
InlineFunction(fn, fns) ==
  [fn EXCEPT !.blocks = Pass(LAMBDA acc, b : InlineBlock(acc, b, fns),
                             [next |-> FirstNewTemp, m |-> <<>>, is |-> <<>>, blocks |-> <<>>], @).blocks]

-----------------------------------------------------------------------------
\* optimizeIR, of one function of those in fns.
OptimizeBlock(bs, b) == Append(bs, [b EXCEPT !.instrs = ReduceBlock(PropagateBlock(@))])
OptimizeIR(fn, fns) ==
  LET inlined == InlineFunction(fn, fns)
  IN  [inlined EXCEPT !.blocks = Pass(OptimizeBlock, <<>>, @)]
=============================================================================
