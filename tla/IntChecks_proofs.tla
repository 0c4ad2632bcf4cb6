-------------------------- MODULE IntChecks_proofs --------------------------
(***************************************************************************)
(* For every width: what a check lets through, the computation after it    *)
(* can publish; a sum or a difference is exact or raises; and away from    *)
(* the boundary every statement does what the reference does.              *)
(***************************************************************************)
EXTENDS IntChecks, TLAPS

\* Whatever is computed, an int64_t holds an int.
LEMMA WrapType == \A n \in Int : Wrap(n) \in Ints
<1> TAKE n \in Int
<1> DEFINE M == 2 * (IntMax + 1)
<1>1. IntMax \in Nat /\ M \in Nat \ {0}
  BY WidthAssumption
<1>2. n - IntMin \in Int
  BY <1>1 DEF IntMin
<1>3. (n - IntMin) % M \in 0 .. M - 1
  <2> HIDE DEF M
  <2> QED BY <1>1, <1>2
<1> QED
  BY <1>1, <1>3 DEF Wrap, Ints, IntMin

\* An int the computation can represent is published unchanged.
LEMMA WrapExact == \A n \in Ints : Wrap(n) = n
<1> TAKE n \in Ints
<1> DEFINE M == 2 * (IntMax + 1)
           k == n - IntMin
<1>1. IntMax \in Nat /\ M \in Nat \ {0}
  BY WidthAssumption
<1>2. k \in 0 .. M - 1
  BY <1>1 DEF Ints, IntMin
<1>3. k % M = k
  <2> HIDE DEF M, k
  <2> QED BY <1>1, <1>2
<1> QED
  BY <1>1, <1>3 DEF Wrap, Ints, IntMin

\* C's quotient by a divisor other than zero is an integer.
LEMMA QuotType == \A a \in Int, b \in Int : b # 0 => Quot(a, b) \in Int
  BY DEF Quot, Abs

\* The check of a sum decides whether the sum is an int.
LEMMA SumCheck ==
  \A a \in Ints, b \in Ints : SumOverflows(a, b) <=> a + b \notin Ints
  BY WidthAssumption DEF SumOverflows, Ints, IntMin

\* The check of a difference decides whether the difference is an int.
LEMMA DifferenceCheck ==
  \A a \in Ints, b \in Ints : DifferenceOverflows(a, b) <=> a - b \notin Ints
  BY WidthAssumption DEF DifferenceOverflows, Ints, IntMin

\* A factor is above the quotient when the product is above the limit.
LEMMA AboveQuotient ==
  ASSUME NEW m \in Nat, NEW n \in Nat \ {0}, NEW k \in Nat
  PROVE  m > k \div n <=> m * n > k
<1> DEFINE q == k \div n
           r == k % n
<1>1. q \in Nat /\ r \in 0..(n - 1) /\ k = n * q + r
  OBVIOUS
<1> HIDE DEF q, r
<1>2. ASSUME m > q PROVE m * n > k
  <2>1. PICK d \in Nat : m = q + 1 + d
    <3>1. m - q - 1 \in Nat /\ m = q + 1 + (m - q - 1)
      BY <1>1, <1>2
    <3> QED
      BY <3>1
  <2>2. m * n = n * q + n + d * n
    BY <1>1, <2>1
  <2>3. d * n \in Nat /\ n * q \in Nat
    BY <1>1
  <2> QED
    BY <1>1, <2>2, <2>3
<1>3. ASSUME ~(m > q) PROVE ~(m * n > k)
  <2>1. PICK d \in Nat : q = m + d
    <3>1. q - m \in Nat /\ q = m + (q - m)
      BY <1>1, <1>3
    <3> QED
      BY <3>1
  <2>2. n * q = m * n + d * n
    BY <1>1, <2>1
  <2>3. d * n \in Nat /\ m * n \in Nat /\ n * q \in Nat
    BY <1>1
  <2> QED
    BY <1>1, <2>2, <2>3
<1> QED
  BY <1>2, <1>3 DEF q

\* The magnitude of a product is the product of the magnitudes.
LEMMA AbsProduct ==
  ASSUME NEW a \in Int, NEW b \in Int
  PROVE  Abs(a) \in Nat /\ Abs(b) \in Nat /\ Abs(a) * Abs(b) = Abs(a * b)
<1>1. CASE a >= 0 /\ b >= 0
  <2>1. a * b >= 0
    BY <1>1
  <2> QED
    BY <1>1, <2>1 DEF Abs
<1>2. CASE a < 0 /\ b >= 0
  <2>1. (-a) * b >= 0 /\ (-a) * b = -(a * b)
    BY <1>2
  <2> QED
    BY <1>2, <2>1 DEF Abs
<1>3. CASE a >= 0 /\ b < 0
  <2>1. a * (-b) >= 0 /\ a * (-b) = -(a * b)
    BY <1>3
  <2> QED
    BY <1>3, <2>1 DEF Abs
<1>4. CASE a < 0 /\ b < 0
  <2>1. (-a) * (-b) > 0 /\ (-a) * (-b) = a * b
    BY <1>4
  <2> QED
    BY <1>4, <2>1 DEF Abs
<1> QED
  BY <1>1, <1>2, <1>3, <1>4

\* Away from the least int, the check of a product decides whether the product is an int.
LEMMA ProductCheck ==
  ASSUME NEW a \in Ints, NEW b \in Ints, IntMin \notin {a, b, a * b}
  PROVE  ProductOverflows(a, b) = {a * b \notin Ints}
<1>0. IntMax \in Nat \ {0} /\ a \in Int /\ b \in Int /\ IntMin = -IntMax - 1
  BY WidthAssumption DEF Ints, IntMin
<1>1. CASE a = 0 \/ b = 0
  <2>1. a * b = 0 /\ 0 \in Ints
    BY <1>0, <1>1 DEF Ints
  <2> QED
    BY <1>1, <2>1 DEF ProductOverflows
<1>2. CASE a # 0 /\ b # 0
  <2>1. Magnitudes(a) = {Abs(a)} /\ Magnitudes(b) = {Abs(b)}
    BY DEF Magnitudes
  <2>2. Abs(a) \in Nat \ {0} /\ Abs(b) \in Nat \ {0} /\ Abs(a) * Abs(b) = Abs(a * b)
    <3>1. Abs(a) # 0 /\ Abs(b) # 0
      BY <1>0, <1>2 DEF Abs
    <3> QED
      BY <1>0, <3>1, AbsProduct
  <2>3. Quot(IntMax, Abs(b)) = IntMax \div Abs(b)
    BY <1>0, <2>2 DEF Quot, Abs
  <2>4. Abs(a) > IntMax \div Abs(b) <=> Abs(a * b) > IntMax
    BY <1>0, <2>2, AboveQuotient
  <2>5. Abs(a * b) > IntMax <=> a * b \notin Ints
    <3>1. PICK p \in Int : p = a * b
      BY <1>0
    <3>2. p # IntMin
      BY <3>1
    <3>3. Abs(p) > IntMax <=> p \notin Ints
      BY <1>0, <3>2 DEF Abs, Ints
    <3> QED
      BY <3>1, <3>3
  <2>6. \A v : v \in ProductOverflows(a, b) <=> v \in BOOLEAN /\ (v <=> Abs(a) > Quot(IntMax, Abs(b)))
    BY <1>2, <2>1 DEF ProductOverflows
  <2>7. \A v : v \in ProductOverflows(a, b) <=> v = (a * b \notin Ints)
    BY <2>3, <2>4, <2>5, <2>6
  <2> QED
    BY <2>7
<1> QED
  BY <1>1, <1>2

\* A quotient is no greater than the dividend, and smaller when the divisor is not a unit.
LEMMA QuotBound ==
  ASSUME NEW m \in Nat, NEW n \in Nat \ {0}
  PROVE  /\ m \div n \in Nat /\ m \div n <= m
         /\ n > 1 /\ m > 0 => m \div n < m
         /\ m - n * (m \div n) \in 0..(n - 1)
<1> DEFINE q == m \div n
           r == m % n
<1>1. q \in Nat /\ r \in 0..(n - 1) /\ m = n * q + r
  OBVIOUS
<1> HIDE DEF q, r
<1>2. PICK d \in Nat : n = 1 + d
  <2>1. n - 1 \in Nat /\ n = 1 + (n - 1)
    OBVIOUS
  <2> QED
    BY <2>1
<1>3. n * q = q + d * q /\ d * q \in Nat
  BY <1>1, <1>2
<1>4. q <= m
  BY <1>1, <1>3
<1>5. ASSUME n > 1, m > 0 PROVE q < m
  <2>1. CASE q = 0
    BY <1>5, <2>1
  <2>2. CASE q # 0
    <3>1. d >= 1
      BY <1>2, <1>5
    <3>2. d * q >= 1
      BY <1>1, <2>2, <3>1
    <3> QED
      BY <1>1, <1>3, <3>2
  <2> QED
    BY <2>1, <2>2
<1>6. m - n * q = r
  BY <1>1
<1> QED
  BY <1>1, <1>4, <1>5, <1>6 DEF q

\* A quotient is an int, the one of the least int by -1 apart.
LEMMA QuotInInts ==
  ASSUME NEW a \in Ints, NEW b \in Ints, b # 0, ~(a = IntMin /\ b = -1)
  PROVE  Quot(a, b) \in Ints
<1>0. IntMax \in Nat \ {0} /\ a \in Int /\ b \in Int /\ IntMin = -IntMax - 1 /\ a >= IntMin /\ a <= IntMax
  BY WidthAssumption DEF Ints, IntMin
<1>1. PICK m \in Nat, n \in Nat \ {0} : m = Abs(a) /\ n = Abs(b)
  BY <1>0 DEF Abs
<1>2. PICK q \in Nat : q = m \div n /\ q <= m /\ (n > 1 /\ m > 0 => q < m)
  BY QuotBound
<1>3. Quot(a, b) = (IF (a < 0) = (b < 0) THEN q ELSE -q)
  BY <1>1, <1>2 DEF Quot
<1>4. m <= IntMax + 1 /\ (m = IntMax + 1 => a = IntMin)
  BY <1>0, <1>1 DEF Abs
<1>5. CASE m <= IntMax
  BY <1>0, <1>2, <1>3, <1>5 DEF Ints
<1>6. CASE m = IntMax + 1 /\ n > 1
  <2>1. q <= IntMax
    BY <1>0, <1>2, <1>6
  <2> QED
    BY <1>0, <1>2, <1>3, <2>1 DEF Ints
<1>7. CASE m = IntMax + 1 /\ n = 1
  <2>1. a = IntMin /\ b = 1
    BY <1>0, <1>1, <1>4, <1>7 DEF Abs
  <2>2. Quot(a, b) = -q
    BY <1>0, <1>3, <2>1
  <2> QED
    BY <1>0, <1>2, <1>7, <2>2 DEF Ints
<1> QED
  BY <1>0, <1>1, <1>4, <1>5, <1>6, <1>7

\* A remainder is always an int.
LEMMA RemInInts ==
  ASSUME NEW a \in Ints, NEW b \in Ints, b # 0
  PROVE  Rem(a, b) \in Ints
<1>0. IntMax \in Nat \ {0} /\ a \in Int /\ b \in Int /\ IntMin = -IntMax - 1 /\ b >= IntMin /\ b <= IntMax
  BY WidthAssumption DEF Ints, IntMin
<1>1. PICK m \in Nat, n \in Nat \ {0} : m = Abs(a) /\ n = Abs(b)
  BY <1>0 DEF Abs
<1>2. PICK q \in Nat : q = m \div n /\ m - n * q \in 0..(n - 1)
  BY QuotBound
<1>3. n - 1 <= IntMax
  BY <1>0, <1>1 DEF Abs
<1>4. Rem(a, b) = m - n * q \/ Rem(a, b) = -(m - n * q)
  <2>1. CASE a >= 0 /\ b > 0
    <3>1. m = a /\ n = b /\ Quot(a, b) = q
      BY <1>0, <1>1, <1>2, <2>1 DEF Abs, Quot
    <3> QED
      BY <3>1 DEF Rem
  <2>2. CASE a >= 0 /\ b < 0
    <3>1. m = a /\ n = -b /\ Quot(a, b) = -q
      BY <1>0, <1>1, <1>2, <2>2 DEF Abs, Quot
    <3>2. b * (-q) = n * q
      BY <1>0, <3>1
    <3> QED
      BY <3>1, <3>2 DEF Rem
  <2>3. CASE a < 0 /\ b > 0
    <3>1. m = -a /\ n = b /\ Quot(a, b) = -q
      BY <1>0, <1>1, <1>2, <2>3 DEF Abs, Quot
    <3>2. b * (-q) = -(n * q)
      BY <1>0, <3>1
    <3>3. a - (-(n * q)) = -(m - n * q)
      BY <1>0, <3>1
    <3> QED
      BY <3>1, <3>2, <3>3 DEF Rem
  <2>4. CASE a < 0 /\ b < 0
    <3>1. m = -a /\ n = -b /\ Quot(a, b) = q
      BY <1>0, <1>1, <1>2, <2>4 DEF Abs, Quot
    <3>2. b * q = -(n * q)
      BY <1>0, <3>1
    <3>3. a - (-(n * q)) = -(m - n * q)
      BY <1>0, <3>1
    <3> QED
      BY <3>1, <3>2, <3>3 DEF Rem
  <2> QED
    BY <1>0, <2>1, <2>2, <2>3, <2>4
<1>5. PICK r \in 0..(n - 1) : r = m - n * q
  BY <1>2
<1> QED
  BY <1>0, <1>3, <1>4, <1>5 DEF Ints

\* A right shift of an int is an int.
LEMMA ShiftInInts ==
  ASSUME NEW a \in Ints, NEW p \in Nat \ {0}
  PROVE  a \div p \in Ints
<1>0. IntMax \in Nat \ {0} /\ a \in Int /\ IntMin = -IntMax - 1 /\ a >= IntMin /\ a <= IntMax
  BY WidthAssumption DEF Ints, IntMin
<1> DEFINE q == a \div p
           r == a % p
<1>1. q \in Int /\ r \in 0..(p - 1) /\ a = p * q + r
  BY <1>0
<1> HIDE DEF q, r
<1>2. PICK d \in Nat : p = 1 + d
  <2>1. p - 1 \in Nat /\ p = 1 + (p - 1)
    OBVIOUS
  <2> QED
    BY <2>1
<1>3. p * q = q + d * q
  BY <1>1, <1>2
<1>4. CASE q >= 0
  <2>1. d * q >= 0 /\ d * q \in Int
    BY <1>1, <1>2, <1>4
  <2>2. q <= a
    BY <1>0, <1>1, <1>3, <2>1
  <2> QED
    BY <1>0, <1>1, <1>4, <2>2 DEF Ints, q
<1>5. CASE q < 0
  <2>1. PICK e \in Nat : q = -1 - e
    <3>1. -1 - q \in Nat /\ q = -1 - (-1 - q)
      BY <1>1, <1>5
    <3> QED
      BY <3>1
  <2>2. d * q = -d - d * e /\ d * e \in Nat
    BY <1>2, <2>1
  <2>3. a <= q /\ r <= d
    BY <1>0, <1>1, <1>2, <1>3, <2>2
  <2> QED
    BY <1>0, <1>1, <1>5, <2>3 DEF Ints, q
<1> QED
  BY <1>1, <1>4, <1>5

\* The checks answer Booleans.
LEMMA CheckType ==
  ASSUME NEW o \in Checked, NEW a \in Ints, NEW b \in Ints
  PROVE  CheckRaises(o, a, b) \subseteq BOOLEAN
<1>1. ProductOverflows(a, b) \subseteq BOOLEAN
  BY DEF ProductOverflows
<1>3. CASE o = "+"
  BY <1>3 DEF CheckRaises, SumOverflows
<1>4. CASE o = "-"
  BY <1>4 DEF CheckRaises, DifferenceOverflows
<1>5. CASE o = "*"
  BY <1>1, <1>5 DEF CheckRaises
<1>6. CASE o \in {"/", "%"}
  BY <1>6 DEF CheckRaises
<1>7. CASE o \in {"<<", ">>"}
  BY <1>7 DEF CheckRaises
<1> QED
  BY <1>3, <1>4, <1>5, <1>6, <1>7 DEF Checked

\* The invariant holds at the start.
LEMMA InitIInv == Init => IInv
<1>1. 0 \in Ints
  BY WidthAssumption DEF Ints, IntMin
<1> QED
  BY <1>1 DEF Init, IInv, TypeOK, Operators

\* Every instruction preserves it.
LEMMA NextIInv == IInv /\ [Next]_vars => IInv'
<1> SUFFICES ASSUME IInv, [Next]_vars PROVE IInv'
  OBVIOUS
<1> USE DEF IInv
<1>0. x \in Int /\ y \in Int /\ 1 \in Ints
  BY WidthAssumption DEF TypeOK, Ints, IntMin
<1>1. ASSUME NEW o \in Operators, NEW n \in Ints, Issue(o, n)
      PROVE  IInv'
  <2>1. TypeOK'
    BY <1>0, <1>1 DEF Issue, TypeOK, Operators
  <2>2. pc' = "check" => op' \in Checked
    BY <1>1 DEF Issue
  <2>3. pc' = "compute" => op' \notin Checked
    BY <1>1 DEF Issue
  <2> QED
    BY <1>1, <2>1, <2>2, <2>3 DEF Checked, Issue
<1>2. CASE Check
  <2>1. raised' \in BOOLEAN
    BY <1>2, CheckType DEF Check, TypeOK
  <2>2. TypeOK'
    BY <1>2, <2>1 DEF Check, TypeOK
  <2>3. pc' # "check"
    BY <1>2 DEF Check
  <2>4. ASSUME pc' = "compute", op \in {"+", "-"}
        PROVE  Exact(op, x, y) \in Ints
    BY <1>2, <2>4, SumCheck, DifferenceCheck DEF Check, CheckRaises, Exact, TypeOK
  <2>5. ASSUME pc' = "compute", op \in {"/", "%"}
        PROVE  y # 0
    BY <1>2, <2>5 DEF Check, CheckRaises
  <2>6. ASSUME pc' = "compute", op \in {"<<", ">>"}
        PROVE  y \in 0 .. Width - 1
    <3>1. CheckRaises(op, x, y) = {y < 0 \/ y >= Width}
      BY <2>6 DEF CheckRaises
    <3>2. ~(y < 0 \/ y >= Width)
      BY <1>2, <2>6, <3>1 DEF Check
    <3> QED
      BY <1>0, <3>2, WidthAssumption
  <2>7. ASSUME pc' = "compute", op = "*", ~Boundary(op, x, y)
        PROVE  Exact(op, x, y) \in Ints
    <3>1. IntMin \notin {x, y, x * y}
      BY <2>7 DEF Boundary
    <3>2. CheckRaises(op, x, y) = {x * y \notin Ints}
      BY <2>7, <3>1, ProductCheck DEF CheckRaises, TypeOK
    <3>3. ~(x * y \notin Ints)
      BY <1>2, <2>7, <3>2 DEF Check
    <3> QED
      BY <2>7, <3>3 DEF Exact
  <2>8. UNCHANGED <<op, x, y>> /\ (pc' = "compute" => ~raised')
    BY <1>2 DEF Check
  <2> QED
    BY <2>2, <2>3, <2>4, <2>5, <2>6, <2>7, <2>8
<1>3. CASE Compute
  <2>1. Exact(op, x, y) \in Int
    <3>1. CASE op \in {"+", "++", "-", "--", "*", "neg"}
      BY <1>0, <3>1 DEF Exact
    <3>2. CASE op \in {"/", "%"}
      BY <1>0, <1>3, <3>2, QuotType DEF Compute, Exact, Rem
    <3>3. CASE op \in {"<<", ">>"}
      <4>1. Pow2[y] \in Nat \ {0}
        BY <1>3, <3>3, Pow2Assumption DEF Compute
      <4> QED
        BY <1>0, <3>3, <4>1 DEF Exact
    <3> QED
      BY <3>1, <3>2, <3>3 DEF TypeOK, Operators
  <2>2. x' \in Ints
    BY <1>3, <2>1, WrapType DEF Compute
  <2> QED
    BY <1>3, <2>2 DEF Compute, TypeOK
<1>4. CASE Trap
  BY <1>4 DEF Trap, TypeOK
<1>5. CASE UNCHANGED vars
  BY <1>5 DEF vars, TypeOK, Exact
<1> QED
  BY <1>1, <1>2, <1>3, <1>4, <1>5 DEF Next

\* Whatever the width, the variable is an int and no computation is reached
\* with operands its check should have stopped.
THEOREM ChecksSuffice == Spec => []IInv
<1> QED
  BY InitIInv, NextIInv, PTL DEF Spec

\* Whatever the width, a sum or a difference publishes the mathematical result
\* or raises, and raises only when there is none.
THEOREM SumsExact == Spec => SumsAreExact
<1> DEFINE P == pc # "start" /\ pc' = "start" /\ op \in {"+", "-"} =>
                  /\ raised' <=> Exact(op, x, y) \notin Ints
                  /\ x' = IF raised' THEN x ELSE Exact(op, x, y)
<1>1. IInv /\ [Next]_vars => [P]_vars
  <2> SUFFICES ASSUME IInv, Next PROVE P
    OBVIOUS
  <2> SUFFICES ASSUME pc # "start", pc' = "start", op \in {"+", "-"}
               PROVE  /\ raised' <=> Exact(op, x, y) \notin Ints
                      /\ x' = IF raised' THEN x ELSE Exact(op, x, y)
    OBVIOUS
  <2>1. CASE Check
    BY <2>1, SumCheck, DifferenceCheck DEF IInv, TypeOK, Check, CheckRaises, Exact
  <2>2. CASE Compute
    BY <2>2, WrapExact DEF IInv, TypeOK, Compute
  <2>3. ~Trap /\ \A o \in Operators, n \in Ints : ~Issue(o, n)
    BY DEF Trap, Issue
  <2> QED
    BY <2>1, <2>2, <2>3 DEF Next
<1> QED
  BY ChecksSuffice, <1>1, PTL DEF Spec, SumsAreExact

\* What the computation of a statement that its check let through has to do
\* away from the boundary: its result is an int and the reference has it too.
LEMMA ComputedAsReference ==
  ASSUME IInv, pc = "compute", ~Boundary(op, x, y)
  PROVE  Exact(op, x, y) \in Ints /\ ~RefRaises(op, x, y) /\ ~Traps
<1>0. op \in Operators /\ x \in Ints /\ y \in Ints
  BY DEF IInv, TypeOK
<1>1. CASE op \in {"+", "-"}
  BY <1>1 DEF IInv, RefRaises, Traps
<1>2. CASE op = "*"
  BY <1>2 DEF IInv, RefRaises, Traps
<1>3. CASE op \in {"++", "--", "neg"}
  BY <1>3 DEF Boundary, RefRaises, Traps
<1>4. CASE op \in {"/", "%"}
  <2>1. y # 0 /\ ~(x = IntMin /\ y = -1)
    BY <1>4 DEF IInv, Boundary
  <2>2. Exact(op, x, y) \in Ints
    BY <1>0, <1>4, <2>1, QuotInInts, RemInInts DEF Exact
  <2> QED
    BY <1>4, <2>1, <2>2 DEF RefRaises, Traps
<1>5. CASE op \in {"<<", ">>"}
  <2>1. y \in 0 .. Width - 1 /\ ~(y < 0 \/ y >= Width)
    BY <1>5, WidthAssumption DEF IInv
  <2>2. CASE op = "<<"
    BY <2>1, <2>2 DEF Boundary, RefRaises, Traps
  <2>3. CASE op = ">>"
    <3>1. Pow2[y] \in Nat \ {0}
      BY <2>1, Pow2Assumption
    <3>2. Exact(op, x, y) \in Ints
      BY <1>0, <2>3, <3>1, ShiftInInts DEF Exact
    <3> QED
      BY <2>1, <2>3, <3>2 DEF RefRaises, Traps
  <2> QED
    BY <1>5, <2>2, <2>3
<1> QED
  BY <1>0, <1>1, <1>2, <1>3, <1>4, <1>5 DEF Operators

\* A check that raises, away from the boundary, does so where the reference does.
LEMMA RaisedAsReference ==
  ASSUME IInv, Check, raised', ~Boundary(op, x, y)
  PROVE  RefRaises(op, x, y)
<1>0. op \in Checked /\ x \in Ints /\ y \in Ints
  BY DEF IInv, TypeOK, Check
<1>1. TRUE \in CheckRaises(op, x, y)
  BY <1>0, CheckType DEF Check
<1>2. CASE op \in {"+", "-"}
  BY <1>0, <1>1, <1>2, SumCheck, DifferenceCheck DEF CheckRaises, RefRaises, Exact
<1>3. CASE op = "*"
  <2>1. ProductOverflows(x, y) = {x * y \notin Ints}
    BY <1>0, <1>3, ProductCheck DEF Boundary
  <2> QED
    BY <1>1, <1>3, <2>1 DEF CheckRaises, RefRaises, Exact
<1>4. CASE op \in {"/", "%"}
  BY <1>1, <1>4 DEF CheckRaises, RefRaises
<1>5. CASE op \in {"<<", ">>"}
  <2>1. CheckRaises(op, x, y) = {y < 0 \/ y >= Width}
    BY <1>5 DEF CheckRaises
  <2>2. y < 0 \/ y >= Width
    BY <1>1, <2>1
  <2> QED
    BY <1>5, <2>2 DEF RefRaises
<1> QED
  BY <1>0, <1>2, <1>3, <1>4, <1>5 DEF Checked

\* Whatever the width, every statement away from the boundary raises exactly
\* when the reference interpreter does and publishes what it publishes.
THEOREM ReferenceAgrees == Spec => AgreesWithReference
<1> DEFINE P == pc # "start" /\ pc' # pc /\ pc' # "compute" /\ ~Boundary(op, x, y) =>
                  /\ pc' = "start"
                  /\ raised' <=> RefRaises(op, x, y)
                  /\ ~raised' => x' = Exact(op, x, y)
<1>1. IInv /\ [Next]_vars => [P]_vars
  <2> SUFFICES ASSUME IInv, Next, pc # "start", pc' # pc, pc' # "compute", ~Boundary(op, x, y)
               PROVE  /\ pc' = "start"
                      /\ raised' <=> RefRaises(op, x, y)
                      /\ ~raised' => x' = Exact(op, x, y)
    OBVIOUS
  <2>1. CASE Check
    <3>1. pc' = "start" /\ raised'
      BY <2>1 DEF Check
    <3> QED
      BY <2>1, <3>1, RaisedAsReference
  <2>2. CASE Compute
    <3>1. pc' = "start" /\ raised' = raised /\ x' = Wrap(Exact(op, x, y)) /\ pc = "compute"
      BY <2>2 DEF Compute
    <3>2. ~raised
      BY <3>1 DEF IInv
    <3> QED
      BY <3>1, <3>2, ComputedAsReference, WrapExact
  <2>3. CASE Trap
    BY <2>3, ComputedAsReference DEF Trap
  <2>4. \A o \in Operators, n \in Ints : ~Issue(o, n)
    BY DEF Issue
  <2> QED
    BY <2>1, <2>2, <2>3, <2>4 DEF Next
<1> QED
  BY ChecksSuffice, <1>1, PTL DEF Spec, AgreesWithReference
=============================================================================
