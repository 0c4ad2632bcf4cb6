----------------------------- MODULE IntChecks -----------------------------
(***************************************************************************)
(* Integer statements of the bytecode interpreter.  A statement x = x o y  *)
(* is lowered to a check instruction, for the operators that have one,     *)
(* and the bin_op or unary_op that computes: ps_vm.c tests the operands in *)
(* the first and publishes the result in the second, inside a try that     *)
(* catches what the check raises.  "++", "--" and "neg" are the increment, *)
(* the decrement and the unary minus.                                      *)
(***************************************************************************)
EXTENDS Integers

CONSTANTS IntMax,    \* INT64_MAX
          Width,     \* bits of an int, the bound of its shifts
          Pow2       \* the powers of two a shift multiplies by

ASSUME WidthAssumption == /\ IntMax \in Nat \ {0}
                          /\ Width \in Nat \ {0}
ASSUME Pow2Assumption == /\ Pow2 \in [0 .. Width - 1 -> Nat \ {0}]
                         /\ Pow2[0] = 1
                         /\ \A i \in 1 .. Width - 1 : Pow2[i] = 2 * Pow2[i - 1]
                         /\ Pow2[Width - 1] = IntMax + 1

VARIABLES pc,        \* "start", or the instruction of the statement: "check", "compute"; "dead"
          op,        \* operator of the last statement
          x, y,      \* the variable and the operand
          raised     \* the last statement raised

vars == <<pc, op, x, y, raised>>

IntMin == -IntMax - 1
Ints == IntMin .. IntMax
Operators == {"+", "-", "*", "/", "%", "<<", ">>", "++", "--", "neg"}

-----------------------------------------------------------------------------
(* The arithmetic of C on int64_t and of the reference on unbounded integers. *)

Abs(n) == IF n < 0 THEN -n ELSE n
Quot(a, b) == IF (a < 0) = (b < 0) THEN Abs(a) \div Abs(b) ELSE -(Abs(a) \div Abs(b))
Rem(a, b) == a - b * Quot(a, b)
Wrap(n) == ((n - IntMin) % (2 * (IntMax + 1))) + IntMin

\* The mathematical result of a statement.
Exact(o, a, b) ==
    CASE o \in {"+", "++"} -> a + b
      [] o \in {"-", "--"} -> a - b
      [] o = "*"   -> a * b
      [] o = "/"   -> Quot(a, b)
      [] o = "%"   -> Rem(a, b)
      [] o = "<<"  -> a * Pow2[b]
      [] o = ">>"  -> a \div Pow2[b]
      [] o = "neg" -> -a

-----------------------------------------------------------------------------
(* The check instructions. *)

\* Mutant of SumOverflows: the greatest sum raises.
SumAtLimit(a, b) == \/ b > 0 /\ a >= IntMax - b
                    \/ b < 0 /\ a < IntMin - b

SumOverflows(a, b) == \/ b > 0 /\ a > IntMax - b
                      \/ b < 0 /\ a < IntMin - b
\* Mutant of DifferenceOverflows: the bounds of the sum.
DifferenceSwapped(a, b) == SumOverflows(a, b)

DifferenceOverflows(a, b) == \/ b < 0 /\ a > IntMax + b
                             \/ b > 0 /\ a < IntMin + b

\* llabs of the least int is undefined: the build leaves it negative, and may
\* as well compare it as the unsigned magnitude.
Magnitudes(n) == IF n = IntMin THEN {IntMin, IntMax + 1} ELSE {Abs(n)}

\* Mutant of ProductOverflows: the quotient at the limit is taken for an overflow.
ProductAtLimit(a, b) ==
    IF a = 0 \/ b = 0 THEN {FALSE}
    ELSE {v \in BOOLEAN : \E m \in Magnitudes(a), n \in Magnitudes(b) :
                             v <=> m >= Quot(IntMax, n)}

ProductOverflows(a, b) ==
    IF a = 0 \/ b = 0 THEN {FALSE}
    ELSE IF <<a, b>> \in {<<-1, IntMin>>, <<IntMin, -1>>} THEN {TRUE}
    ELSE {v \in BOOLEAN : \E m \in Magnitudes(a), n \in Magnitudes(b) :
                             v <=> m > Quot(IntMax, n)}

\* What the check of a statement may answer.
CheckRaises(o, a, b) ==
    CASE o = "+" -> {SumOverflows(a, b)}
      [] o = "-" -> {DifferenceOverflows(a, b)}
      [] o = "*" -> ProductOverflows(a, b)
      [] o \in {"/", "%"} -> {b = 0}
      [] o \in {"<<", ">>"} -> {b < 0 \/ b >= Width}

\* The operators ir_lower_expr emits a check for.
Checked == {"+", "-", "*", "/", "%", "<<", ">>"}

-----------------------------------------------------------------------------
Init == /\ pc = "start"
        /\ op = "+"
        /\ x = 0
        /\ y = 0
        /\ raised = FALSE

\* The program reaches a statement.
Issue(o, n) ==
    /\ pc = "start"
    /\ pc' = IF o \in Checked THEN "check" ELSE "compute"
    /\ op' = o
    /\ y' = IF o \in {"++", "--"} THEN 1 ELSE n
    /\ raised' = FALSE
    /\ UNCHANGED x

\* The check_ instruction of the statement.
Check ==
    /\ pc = "check"
    /\ raised' \in CheckRaises(op, x, y)
    /\ pc' = IF raised' THEN "start" ELSE "compute"
    /\ UNCHANGED <<op, x, y>>

\* The quotient of the least int by -1: the division instruction traps.
Traps == op \in {"/", "%"} /\ x = IntMin /\ y = -1

\* bin_op or unary_op: an int64_t result replaces the variable.
Compute ==
    /\ pc = "compute"
    /\ ~Traps
    /\ x' = Wrap(Exact(op, x, y))
    /\ pc' = "start"
    /\ UNCHANGED <<op, y, raised>>

Trap ==
    /\ pc = "compute"
    /\ Traps
    /\ pc' = "dead"
    /\ UNCHANGED <<op, x, y, raised>>

Next == \/ \E o \in Operators, n \in Ints : Issue(o, n)
        \/ Check
        \/ Compute
        \/ Trap

Spec == Init /\ [][Next]_vars

-----------------------------------------------------------------------------
(* The reference: evalBinary computes on unbounded integers and tests the *)
(* range of what it computed.                                              *)

RefRaises(o, a, b) ==
    CASE o \in {"/", "%"} -> b = 0
      [] o = ">>" -> b < 0 \/ b >= Width
      [] o = "<<" -> b < 0 \/ b >= Width \/ Exact(o, a, b) \notin Ints
      [] OTHER -> Exact(o, a, b) \notin Ints

\* Where the two are known to part: the operators without a check at the end
\* of the range, a left shift past it, the least int as the factor or the
\* value of a product, and the least int divided by -1.
Boundary(o, a, b) ==
    \/ o \in {"++", "--", "neg"} /\ Exact(o, a, b) \notin Ints
    \/ o = "<<" /\ b \in 0 .. Width - 1 /\ Exact(o, a, b) \notin Ints
    \/ o = "*" /\ IntMin \in {a, b, a * b}
    \/ o \in {"/", "%"} /\ a = IntMin /\ b = -1

-----------------------------------------------------------------------------
(* Properties. *)

\* The variable stays an int and the interpreter is at an instruction.
TypeOK == /\ pc \in {"start", "check", "compute", "dead"}
          /\ op \in Operators
          /\ x \in Ints
          /\ y \in Ints
          /\ raised \in BOOLEAN

\* What the checks leave to the computation: nothing raised, a sum or a difference that is an
\* int, and so a product away from the boundary, a divisor that is not zero, a shift within
\* the width.
IInv == /\ TypeOK
        /\ pc = "check" => op \in Checked
        /\ pc = "compute" =>
             /\ ~raised
             /\ op \in {"+", "-"} => Exact(op, x, y) \in Ints
             /\ op = "*" /\ ~Boundary(op, x, y) => Exact(op, x, y) \in Ints
             /\ op \in {"/", "%"} => y # 0
             /\ op \in {"<<", ">>"} => y \in 0 .. Width - 1

\* A sum or a difference either publishes the mathematical result or raises
\* and leaves the variable alone, and raises only when the result is no int.
SumsAreExact ==
    [][pc # "start" /\ pc' = "start" /\ op \in {"+", "-"} =>
         /\ raised' <=> Exact(op, x, y) \notin Ints
         /\ x' = IF raised' THEN x ELSE Exact(op, x, y)]_vars

\* Every statement away from the boundary raises exactly when the reference
\* interpreter does and publishes what it publishes.
AgreesWithReference ==
    [][pc # "start" /\ pc' # pc /\ pc' # "compute" /\ ~Boundary(op, x, y) =>
         /\ pc' = "start"
         /\ raised' <=> RefRaises(op, x, y)
         /\ ~raised' => x' = Exact(op, x, y)]_vars
=============================================================================
