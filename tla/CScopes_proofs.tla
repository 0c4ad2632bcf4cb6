---------------------------- MODULE CScopes_proofs ----------------------------
(***************************************************************************)
(* HandlersAreLive: of every program whose code keeps to scopes, of any    *)
(* number of functions, activations, handlers and values.                  *)
(*                                                                         *)
(* The invariant divides ps_try_stack into parts (CScopes!Shared).  The    *)
(* lemmas show, first for the numbers that divide it, then with the        *)
(* activations and labels, what becomes of the parts when a handler is     *)
(* pushed, when the last one is taken off and the activations within its   *)
(* own are dropped, when a function is called and when it returns; then    *)
(* that every step of GeneratedC does one of these or nothing to them.     *)
(*                                                                         *)
(* Then, of any functions: OptimizedIsValid, what the optimizer makes of a *)
(* valid function is valid, and OptimizedCodeIsScoped, its C keeps to      *)
(* scopes if that of the function did.  Both rest on one relation: a list  *)
(* of instructions follows another (Along) if each of its instructions has *)
(* a place in the other, in the order of places, and is either what is     *)
(* there or a new one that does nothing to control; what does something to *)
(* control is in both, once.                                               *)
(***************************************************************************)
EXTENDS CScopes, SequenceTheorems, WellFoundedInduction, TLAPS

-----------------------------------------------------------------------------
\* Sequences, whatever their elements are.
IsSeq(s) == \E S : s \in Seq(S)

\* A sequence is a function on 1..Len, empty when its length is zero.
LEMMA SeqFacts ==
  ASSUME NEW s, IsSeq(s)
  PROVE  /\ Len(s) \in Nat /\ DOMAIN s = 1..Len(s)
         /\ s = <<>> <=> Len(s) = 0
         /\ s # <<>> => Head(s) = s[1]
<1>1. PICK S : s \in Seq(S)
  BY DEF IsSeq
<1>2. Len(s) \in Nat /\ DOMAIN s = 1..Len(s)
  BY <1>1, LenProperties
<1>3. s = <<>> <=> Len(s) = 0
  BY <1>1, <1>2, EmptySeq
<1> QED
  BY <1>1, <1>2, <1>3

\* An element put in front of a sequence.
LEMMA ConsFacts ==
  ASSUME NEW s, IsSeq(s), NEW e
  PROVE  /\ IsSeq(<<e>> \o s) /\ Len(<<e>> \o s) = Len(s) + 1
         /\ (<<e>> \o s)[1] = e
         /\ \A k \in 1..Len(s) : (<<e>> \o s)[k + 1] = s[k]
<1>1. PICK S : s \in Seq(S)
  BY DEF IsSeq
<1> DEFINE T == S \cup {e}
<1>2. s \in Seq(T)
  BY <1>1, SeqMonotonic
<1>3. <<e>> \in Seq(T) /\ Len(<<e>>) = 1 /\ <<e>>[1] = e
  OBVIOUS
<1> HIDE DEF T
<1>4. <<e>> \o s \in Seq(T) /\ Len(<<e>> \o s) = Len(s) + 1
  BY <1>2, <1>3, ConcatProperties
<1>5. \A k \in 1..(1 + Len(s)) : (<<e>> \o s)[k] = IF k <= 1 THEN <<e>>[k] ELSE s[k - 1]
  BY <1>2, <1>3, ConcatProperties
<1>6. Len(s) \in Nat
  BY SeqFacts
<1> QED
  BY <1>3, <1>4, <1>5, <1>6 DEF IsSeq

\* A sequence without its first element.
LEMMA TailFacts ==
  ASSUME NEW s, IsSeq(s), s # <<>>
  PROVE  /\ IsSeq(Tail(s)) /\ Len(Tail(s)) = Len(s) - 1
         /\ \A k \in 1..(Len(s) - 1) : Tail(s)[k] = s[k + 1]
<1>1. PICK S : s \in Seq(S)
  BY DEF IsSeq
<1> QED
  BY <1>1, HeadTailProperties DEF IsSeq

\* A sequence with another first element.
LEMMA FirstFacts ==
  ASSUME NEW s, IsSeq(s), s # <<>>, NEW e
  PROVE  /\ IsSeq([s EXCEPT ![1] = e]) /\ Len([s EXCEPT ![1] = e]) = Len(s)
         /\ [s EXCEPT ![1] = e][1] = e
         /\ \A k \in 2..Len(s) : [s EXCEPT ![1] = e][k] = s[k]
<1>1. PICK S : s \in Seq(S)
  BY DEF IsSeq
<1> DEFINE T == S \cup {e}
<1>2. s \in Seq(T) /\ e \in T
  BY <1>1, SeqMonotonic
<1> HIDE DEF T
<1>3. 1 \in 1..Len(s)
  BY SeqFacts
<1>4. /\ [s EXCEPT ![1] = e] \in Seq(T)
      /\ Len([s EXCEPT ![1] = e]) = Len(s)
      /\ \A j \in 1 .. Len(s) : [s EXCEPT ![1] = e][j] = IF j = 1 THEN e ELSE s[j]
  BY <1>2, <1>3, ExceptSeq
<1> QED
  BY <1>3, <1>4 DEF IsSeq

\* The rest of a sequence behind position j, with an element in front of it.
LEMMA RestFacts ==
  ASSUME NEW s, IsSeq(s), NEW j \in 1..Len(s), NEW e
  PROVE  /\ IsSeq(<<e>> \o SubSeq(s, j + 1, Len(s)))
         /\ Len(<<e>> \o SubSeq(s, j + 1, Len(s))) = Len(s) - j + 1
         /\ (<<e>> \o SubSeq(s, j + 1, Len(s)))[1] = e
         /\ \A k \in 2..(Len(s) - j + 1) : (<<e>> \o SubSeq(s, j + 1, Len(s)))[k] = s[j + k - 1]
<1>1. PICK S : s \in Seq(S)
  BY DEF IsSeq
<1>2. Len(s) \in Nat
  BY SeqFacts
<1> DEFINE r == SubSeq(s, j + 1, Len(s))
<1>3. \A i \in (j + 1)..Len(s) : s[i] \in S
  BY <1>1, <1>2, ElementOfSeq
<1>4. /\ r \in Seq(S)
      /\ Len(r) = IF j + 1 <= Len(s) THEN Len(s) - (j + 1) + 1 ELSE 0
      /\ \A i \in 1..(Len(s) - (j + 1) + 1) : r[i] = s[(j + 1) + i - 1]
  BY <1>2, <1>3, SubSeqProperties
<1> HIDE DEF r
<1>5. Len(r) = Len(s) - j
  BY <1>2, <1>4
<1>6. IsSeq(r)
  BY <1>4 DEF IsSeq
<1>7. /\ IsSeq(<<e>> \o r) /\ Len(<<e>> \o r) = Len(r) + 1
      /\ (<<e>> \o r)[1] = e
      /\ \A k \in 1..Len(r) : (<<e>> \o r)[k + 1] = r[k]
  BY <1>6, ConsFacts
<1>8. ASSUME NEW k \in 2..(Len(s) - j + 1) PROVE (<<e>> \o r)[k] = s[j + k - 1]
  <2>1. k - 1 \in 1..Len(r) /\ (k - 1) + 1 = k /\ (j + 1) + (k - 1) - 1 = j + k - 1
    BY <1>2, <1>5
  <2>2. (<<e>> \o r)[k] = r[k - 1]
    BY <2>1, <1>7
  <2>3. r[k - 1] = s[(j + 1) + (k - 1) - 1]
    BY <2>1, <1>4, <1>2
  <2> QED
    BY <2>1, <2>2, <2>3
<1> QED
  BY <1>2, <1>5, <1>7, <1>8 DEF r

-----------------------------------------------------------------------------
\* The labels of a part of the handlers.

\* They are a sequence, as long as the part.
LEMMA LabelsFacts ==
  ASSUME NEW hs, NEW hi \in Nat
  PROVE  /\ IsSeq(Labels(hs, 0, hi)) /\ Len(Labels(hs, 0, hi)) = hi
         /\ \A k \in 1..hi : Labels(hs, 0, hi)[k] = hs[k].label
<1> DEFINE S == {hs[k].label : k \in 1..hi}
<1>1. Labels(hs, 0, hi) = [k \in 1..hi |-> hs[k].label]
  <2>1. hi - 0 = hi /\ \A k \in 1..hi : 0 + k = k
    OBVIOUS
  <2> QED
    BY <2>1 DEF Labels
<1>2. [k \in 1..hi |-> hs[k].label] \in [1..hi -> S]
  OBVIOUS
<1> HIDE DEF S
<1>3. Labels(hs, 0, hi) \in Seq(S)
  BY <1>1, <1>2, SeqDef
<1>4. DOMAIN Labels(hs, 0, hi) = 1..hi
  BY <1>1
<1>5. Len(Labels(hs, 0, hi)) = hi
  BY <1>3, <1>4, LenProperties
<1> QED
  BY <1>1, <1>3, <1>5 DEF IsSeq

\* Two sequences of the same length with the same elements are the same.
LEMMA SameSeq ==
  ASSUME NEW s, NEW t, IsSeq(s), IsSeq(t), Len(s) = Len(t),
         \A k \in 1..Len(s) : s[k] = t[k]
  PROVE  s = t
<1>1. PICK S : s \in Seq(S)
  BY DEF IsSeq
<1>2. PICK T : t \in Seq(T)
  BY DEF IsSeq
<1>3. s \in Seq(S \cup T) /\ t \in Seq(S \cup T)
  BY <1>1, <1>2, SeqMonotonic
<1> QED
  BY <1>3, SeqEqual

\* Two parts of the same length with the same handlers have the same labels.
LEMMA LabelsMoved ==
  ASSUME NEW hs, NEW ks, NEW lo, NEW hi, NEW a, NEW b, b - a = hi - lo,
         \A k \in 1..(hi - lo) : ks[a + k] = hs[lo + k]
  PROVE  Labels(ks, a, b) = Labels(hs, lo, hi)
BY DEF Labels

\* The labels with one handler pushed in front, and with the first one taken off.
LEMMA LabelsPushed ==
  ASSUME NEW hs, IsSeq(hs), NEW h, NEW hi \in 0..Len(hs)
  PROVE  Labels(<<h>> \o hs, 0, hi + 1) = <<h.label>> \o Labels(hs, 0, hi)
<1>0. Len(hs) \in Nat
  BY SeqFacts
<1> DEFINE ks == <<h>> \o hs
<1>1. ks[1] = h /\ \A k \in 1..Len(hs) : ks[k + 1] = hs[k]
  BY ConsFacts
<1> HIDE DEF ks
<1>2. hi \in Nat /\ hi + 1 \in Nat
  BY <1>0
<1>3. /\ IsSeq(Labels(ks, 0, hi + 1)) /\ Len(Labels(ks, 0, hi + 1)) = hi + 1
      /\ \A k \in 1..(hi + 1) : Labels(ks, 0, hi + 1)[k] = ks[k].label
  BY <1>2, LabelsFacts
<1>4. /\ IsSeq(Labels(hs, 0, hi)) /\ Len(Labels(hs, 0, hi)) = hi
      /\ \A k \in 1..hi : Labels(hs, 0, hi)[k] = hs[k].label
  BY <1>2, LabelsFacts
<1> DEFINE ls == Labels(hs, 0, hi)
           t  == <<h.label>> \o ls
<1>5. /\ IsSeq(t) /\ Len(t) = Len(ls) + 1 /\ t[1] = h.label
      /\ \A k \in 1..Len(ls) : t[k + 1] = ls[k]
  BY <1>4, ConsFacts
<1> HIDE DEF t
<1>6. ASSUME NEW k \in 1..(hi + 1) PROVE Labels(ks, 0, hi + 1)[k] = t[k]
  <2>1. Labels(ks, 0, hi + 1)[k] = ks[k].label
    BY <1>2, <1>3
  <2>2. CASE k = 1
    BY <2>1, <2>2, <1>1, <1>5
  <2>3. CASE k # 1
    <3>1. k - 1 \in 1..hi /\ (k - 1) + 1 = k /\ k - 1 \in 1..Len(hs)
      BY <2>3, <1>0, <1>2
    <3>2. t[k] = ls[k - 1]
      BY <3>1, <1>2, <1>4, <1>5
    <3>3. ls[k - 1] = hs[k - 1].label
      BY <3>1, <1>2, <1>4
    <3>4. ks[k] = hs[k - 1]
      BY <3>1, <1>1
    <3> QED
      BY <2>1, <3>2, <3>3, <3>4
  <2> QED
    BY <2>2, <2>3
<1>7. Labels(ks, 0, hi + 1) = t
  BY <1>2, <1>3, <1>4, <1>5, <1>6, SameSeq
<1> QED
  BY <1>7 DEF ks, t

\* The labels with the first handler taken off.
LEMMA LabelsPopped ==
  ASSUME NEW hs, IsSeq(hs), NEW hi \in 1..Len(hs)
  PROVE  /\ Labels(hs, 0, hi) # <<>> /\ Head(Labels(hs, 0, hi)) = hs[1].label
         /\ Labels(Tail(hs), 0, hi - 1) = Tail(Labels(hs, 0, hi))
<1>0. Len(hs) \in Nat /\ hs # <<>>
  BY SeqFacts
<1>1. hi \in Nat /\ hi - 1 \in Nat
  BY <1>0
<1>2. \A k \in 1..(Len(hs) - 1) : Tail(hs)[k] = hs[k + 1]
  BY <1>0, TailFacts
<1> DEFINE ls == Labels(hs, 0, hi)
           t  == Labels(Tail(hs), 0, hi - 1)
<1>3. IsSeq(ls) /\ Len(ls) = hi /\ \A k \in 1..hi : ls[k] = hs[k].label
  BY <1>1, LabelsFacts
<1>4. /\ IsSeq(t) /\ Len(t) = hi - 1
      /\ \A k \in 1..(hi - 1) : t[k] = Tail(hs)[k].label
  BY <1>1, LabelsFacts
<1> HIDE DEF ls, t
<1>5. ls # <<>> /\ Head(ls) = ls[1]
  BY <1>1, <1>3, SeqFacts
<1>6. ls[1] = hs[1].label
  BY <1>1, <1>3
<1>7. IsSeq(Tail(ls)) /\ Len(Tail(ls)) = Len(ls) - 1 /\ \A k \in 1..(Len(ls) - 1) : Tail(ls)[k] = ls[k + 1]
  BY <1>3, <1>5, TailFacts
<1>8. ASSUME NEW k \in 1..(hi - 1) PROVE t[k] = Tail(ls)[k]
  <2>1. k \in 1..(Len(hs) - 1) /\ k + 1 \in 1..hi /\ k \in 1..(Len(ls) - 1)
    BY <1>0, <1>1, <1>3
  <2>2. t[k] = Tail(hs)[k].label
    BY <1>1, <1>4
  <2>3. Tail(hs)[k] = hs[k + 1]
    BY <2>1, <1>2
  <2>4. Tail(ls)[k] = ls[k + 1]
    BY <2>1, <1>7
  <2>5. ls[k + 1] = hs[k + 1].label
    BY <2>1, <1>1, <1>3
  <2> QED
    BY <2>2, <2>3, <2>4, <2>5
<1>9. t = Tail(ls)
  <2>1. Len(t) = Len(Tail(ls)) /\ \A k \in 1..Len(t) : t[k] = Tail(ls)[k]
    BY <1>1, <1>3, <1>4, <1>7, <1>8
  <2> QED
    BY <2>1, <1>4, <1>7, SameSeq
<1> QED
  BY <1>5, <1>6, <1>9 DEF ls, t

-----------------------------------------------------------------------------
\* How a step divides the handlers anew: the numbers only.

\* One more handler, of the first of n activations.
LEMMA PushDivides ==
  ASSUME NEW n \in Nat \ {0}, NEW m \in Nat, NEW cut, NEW own
  PROVE  Divides(n, m, cut, own)
           => Divides(n, m + 1, [j \in 0..n |-> IF j = 0 THEN 0 ELSE cut[j] + 1],
                      [k \in 1..(m + 1) |-> IF k = 1 THEN 1 ELSE own[k - 1]])
<1>0. SUFFICES ASSUME cut \in [0..n -> 0..m], cut[0] = 0, cut[n] = m,
                    \A i, j \in 0..n : i <= j => cut[i] <= cut[j],
                    own \in [1..m -> 1..n],
                    \A k \in 1..m : cut[own[k] - 1] < k /\ k <= cut[own[k]]
             PROVE  Divides(n, m + 1, [j \in 0..n |-> IF j = 0 THEN 0 ELSE cut[j] + 1],
                            [k \in 1..(m + 1) |-> IF k = 1 THEN 1 ELSE own[k - 1]])
  BY DEF Divides
<1> DEFINE c == [j \in 0..n |-> IF j = 0 THEN 0 ELSE cut[j] + 1]
           o == [k \in 1..(m + 1) |-> IF k = 1 THEN 1 ELSE own[k - 1]]
<1>1. c \in [0..n -> 0..(m + 1)] /\ c[0] = 0 /\ c[n] = m + 1
  BY <1>0
<1>2. \A i, j \in 0..n : i <= j => c[i] <= c[j]
  BY <1>0
<1>3. o \in [1..(m + 1) -> 1..n]
  BY <1>0
<1>4. ASSUME NEW k \in 1..(m + 1) PROVE c[o[k] - 1] < k /\ k <= c[o[k]]
  <2>1. CASE k = 1
    BY <1>0, <2>1
  <2>2. CASE k # 1
    <3>1. k - 1 \in 1..m /\ o[k] = own[k - 1] /\ own[k - 1] \in 1..n
      BY <1>0, <2>2
    <3>2. PICK w \in 1..n : w = own[k - 1]
      BY <3>1
    <3>3. cut[w - 1] < k - 1 /\ k - 1 <= cut[w]
      BY <1>0, <3>1, <3>2
    <3>4. o[k] = w
      BY <3>1, <3>2
    <3>5. w \in 0..n /\ w - 1 \in 0..n /\ w # 0
      BY <1>0
    <3>7. cut[w] \in 0..m /\ cut[w - 1] \in 0..m
      BY <1>0, <3>5
    <3>6. c[w] = cut[w] + 1 /\ c[w - 1] \in 0..(cut[w - 1] + 1)
      BY <3>5, <3>7
    <3> HIDE DEF c, o
    <3>8. c[w - 1] < k /\ k <= c[w]
      BY <3>3, <3>6, <3>7
    <3> QED
      BY <3>4, <3>8
  <2> QED
    BY <2>1, <2>2
<1> HIDE DEF c, o
<1>5. Divides(n, m + 1, c, o)
  BY <1>1, <1>2, <1>3, <1>4 DEF Divides
<1> QED
  BY <1>5 DEF c, o

\* The first handler and the activations before its own, i, are gone.
LEMMA DropDivides ==
  ASSUME NEW n \in Nat \ {0}, NEW m \in Nat \ {0}, NEW cut, NEW own, NEW i, i = own[1]
  PROVE  Divides(n, m, cut, own)
           => /\ i \in 1..n /\ cut[i - 1] = 0 /\ cut[i] \in 1..m
              /\ \A k \in 2..m : own[k] \in i..n
              /\ \A j \in i..n : cut[j] \in 1..m
              /\ Divides(n - i + 1, m - 1,
                         [j \in 0..(n - i + 1) |-> IF j = 0 THEN 0 ELSE cut[i + j - 1] - 1],
                         [k \in 1..(m - 1) |-> own[k + 1] - i + 1])
<1> DEFINE r == n - i + 1
           c == [j \in 0..r |-> IF j = 0 THEN 0 ELSE cut[i + j - 1] - 1]
           o == [k \in 1..(m - 1) |-> own[k + 1] - i + 1]
<1>0. SUFFICES ASSUME cut \in [0..n -> 0..m], cut[0] = 0, cut[n] = m,
                    \A a, b \in 0..n : a <= b => cut[a] <= cut[b],
                    own \in [1..m -> 1..n],
                    \A k \in 1..m : cut[own[k] - 1] < k /\ k <= cut[own[k]]
             PROVE  /\ i \in 1..n /\ cut[i - 1] = 0 /\ cut[i] \in 1..m
                    /\ \A k \in 2..m : own[k] \in i..n
                    /\ \A j \in i..n : cut[j] \in 1..m
                    /\ Divides(r, m - 1, c, o)
  BY DEF Divides
<1>1. i \in 1..n
  BY <1>0
<1>a. cut[i - 1] = 0 /\ cut[i] \in 1..m
  <2>1. 1 \in 1..m /\ i \in 1..n
    BY <1>0
  <2>2. cut[i - 1] < 1 /\ 1 <= cut[i]
    BY <1>0, <2>1
  <2>3. cut[i - 1] \in 0..m /\ cut[i] \in 0..m
    BY <1>0, <2>1
  <2> QED
    BY <2>1, <2>2, <2>3
\* The handlers that are left belong to the activations that are left.
<1>2. ASSUME NEW k \in 2..m PROVE own[k] \in i..n
  <2>1. own[k] \in 1..n /\ k <= cut[own[k]]
    BY <1>0
  <2>2. ASSUME own[k] < i PROVE FALSE
    <3>1. own[k] \in 0..n /\ i - 1 \in 0..n /\ own[k] <= i - 1
      BY <2>1, <2>2, <1>1
    <3>2. cut[own[k]] <= cut[i - 1] /\ cut[own[k]] \in 0..m
      BY <1>0, <3>1
    <3> QED
      BY <2>1, <3>2, <1>a
  <2> QED
    BY <2>1, <2>2, <1>1
<1>3. ASSUME NEW j \in i..n PROVE cut[j] \in 1..m
  <2>1. j \in 0..n /\ i \in 0..n /\ i <= j
    BY <1>1
  <2>2. cut[i] <= cut[j] /\ cut[j] \in 0..m
    BY <1>0, <2>1
  <2> QED
    BY <2>2, <1>a
<1>4. r \in 1..n /\ i + r - 1 = n
  BY <1>1
<1>5. \A j \in 1..r : i + j - 1 \in i..n
  BY <1>1
<1>6. \A j \in 1..r : c[j] = cut[i + j - 1] - 1
  BY <1>4
<1>7. c[0] = 0
  BY <1>4
<1> HIDE DEF r
<1>8. ASSUME NEW j \in 0..r PROVE (IF j = 0 THEN 0 ELSE cut[i + j - 1] - 1) \in 0..(m - 1)
  <2>1. CASE j = 0
    BY <2>1
  <2>2. CASE j # 0
    <3>1. j \in 1..r
      BY <2>2, <1>4
    <3>2. cut[i + j - 1] \in 1..m
      BY <3>1, <1>3, <1>5
    <3> QED
      BY <2>2, <3>2
  <2> QED
    BY <2>1, <2>2
<1>9. c \in [0..r -> 0..(m - 1)]
  BY <1>8
<1>10. c[r] = m - 1
  <2>1. cut[n] = m
    BY <1>0
  <2> QED
    BY <2>1, <1>4, <1>6
<1> HIDE DEF c
<1>11. ASSUME NEW a \in 0..r, NEW b \in 0..r, a <= b PROVE c[a] <= c[b]
  <2>1. CASE a = 0
    BY <2>1, <1>7, <1>9
  <2>2. CASE a # 0
    <3>1. a \in 1..r /\ b \in 1..r
      BY <2>2, <1>4, <1>11
    <3>2. PICK x \in i..n : x = i + a - 1
      BY <3>1, <1>5
    <3>3. PICK y \in i..n : y = i + b - 1
      BY <3>1, <1>5
    <3>4. cut[x] <= cut[y]
      <4>1. x \in 0..n /\ y \in 0..n /\ x <= y
        BY <3>1, <3>2, <3>3, <1>1, <1>11
      <4> QED
        BY <1>0, <4>1
    <3>5. cut[x] \in 1..m /\ cut[y] \in 1..m
      BY <1>3
    <3>6. c[a] = cut[x] - 1 /\ c[b] = cut[y] - 1
      BY <3>1, <3>2, <3>3, <1>6
    <3> QED
      BY <3>4, <3>5, <3>6
  <2> QED
    BY <2>1, <2>2
<1>12. ASSUME NEW k \in 1..(m - 1) PROVE own[k + 1] - i + 1 \in 1..r
  <2>1. k + 1 \in 2..m
    BY <1>0
  <2>2. own[k + 1] \in i..n
    BY <2>1, <1>2
  <2> QED
    BY <2>2, <1>1 DEF r
<1>13. o \in [1..(m - 1) -> 1..r]
  BY <1>12
<1>14. ASSUME NEW k \in 1..(m - 1) PROVE c[o[k] - 1] < k /\ k <= c[o[k]]
  <2>1. k + 1 \in 2..m /\ k + 1 \in 1..m
    BY <1>0
  <2>2. PICK w \in i..n : w = own[k + 1]
    BY <2>1, <1>2
  <2>3. cut[w - 1] < k + 1 /\ k + 1 <= cut[w]
    BY <1>0, <2>1, <2>2
  <2>4. o[k] = w - i + 1
    BY <2>2
  <2> HIDE DEF o
  <2>5. w - i + 1 \in 1..r /\ i + (w - i + 1) - 1 = w
    BY <1>1 DEF r
  <2>6. c[w - i + 1] = cut[w] - 1
    BY <2>5, <1>6
  <2>7. cut[w] \in 1..m
    BY <1>3
  <2>8. c[w - i] < k
    <3>1. CASE w = i
      <4>1. w - i = 0
        BY <3>1, <1>1
      <4> QED
        BY <4>1, <1>7
    <3>2. CASE w # i
      <4>1. w - i \in 1..r /\ i + (w - i) - 1 = w - 1 /\ w - 1 \in i..n
        BY <3>2, <1>1 DEF r
      <4>2. c[w - i] = cut[w - 1] - 1
        BY <4>1, <1>6
      <4>3. cut[w - 1] \in 1..m
        BY <4>1, <1>3
      <4> QED
        BY <4>2, <4>3, <2>3
    <3> QED
      BY <3>1, <3>2
  <2>9. k <= c[w - i + 1]
    BY <2>3, <2>6, <2>7
  <2>10. o[k] - 1 = w - i
    BY <2>4, <1>1
  <2> QED
    BY <2>4, <2>8, <2>9, <2>10
<1> HIDE DEF o
<1>15. Divides(r, m - 1, c, o)
  BY <1>7, <1>9, <1>10, <1>11, <1>13, <1>14 DEF Divides
<1> QED
  BY <1>1, <1>2, <1>3, <1>15, <1>a

\* A new activation without handlers in front.
LEMMA CallDivides ==
  ASSUME NEW n \in Nat \ {0}, NEW m \in Nat, NEW cut, NEW own
  PROVE  Divides(n, m, cut, own)
           => Divides(n + 1, m, [j \in 0..(n + 1) |-> IF j = 0 THEN 0 ELSE cut[j - 1]],
                      [k \in 1..m |-> own[k] + 1])
<1> DEFINE c == [j \in 0..(n + 1) |-> IF j = 0 THEN 0 ELSE cut[j - 1]]
           o == [k \in 1..m |-> own[k] + 1]
<1>0. SUFFICES ASSUME cut \in [0..n -> 0..m], cut[0] = 0, cut[n] = m,
                    \A i, j \in 0..n : i <= j => cut[i] <= cut[j],
                    own \in [1..m -> 1..n],
                    \A k \in 1..m : cut[own[k] - 1] < k /\ k <= cut[own[k]]
             PROVE  Divides(n + 1, m, c, o)
  BY DEF Divides
<1>1. c \in [0..(n + 1) -> 0..m] /\ c[0] = 0 /\ c[n + 1] = m
  BY <1>0
<1>2. ASSUME NEW i \in 0..(n + 1), NEW j \in 0..(n + 1), i <= j PROVE c[i] <= c[j]
  <2>1. CASE i = 0
    <3> HIDE DEF c
    <3> QED
      BY <1>1, <2>1
  <2>2. CASE i # 0
    <3>1. i - 1 \in 0..n /\ j - 1 \in 0..n /\ i - 1 <= j - 1 /\ j # 0
      BY <1>2, <2>2
    <3>2. cut[i - 1] <= cut[j - 1]
      BY <1>0, <3>1
    <3> QED
      BY <2>2, <3>1, <3>2
  <2> QED
    BY <2>1, <2>2
<1>3. o \in [1..m -> 1..(n + 1)]
  BY <1>0
<1>4. ASSUME NEW k \in 1..m PROVE c[o[k] - 1] < k /\ k <= c[o[k]]
  <2>1. PICK w \in 1..n : w = own[k]
    BY <1>0
  <2>2. cut[w - 1] < k /\ k <= cut[w]
    BY <1>0, <2>1
  <2>3. o[k] = w + 1 /\ (w + 1) - 1 = w
    BY <2>1
  <2>4. c[w + 1] = cut[w] /\ c[w] = cut[w - 1]
    BY <1>0
  <2> HIDE DEF c, o
  <2> QED
    BY <2>2, <2>3, <2>4
<1> HIDE DEF c, o
<1>5. Divides(n + 1, m, c, o)
  BY <1>1, <1>2, <1>3, <1>4 DEF Divides
<1> QED
  BY <1>5

\* The first activation, which has no handlers, is gone.
LEMMA ReturnDivides ==
  ASSUME NEW n \in Nat \ {0}, n > 1, NEW m \in Nat, NEW cut, NEW own, cut[1] = 0
  PROVE  Divides(n, m, cut, own)
           => Divides(n - 1, m, [j \in 0..(n - 1) |-> cut[j + 1]], [k \in 1..m |-> own[k] - 1])
<1> DEFINE c == [j \in 0..(n - 1) |-> cut[j + 1]]
           o == [k \in 1..m |-> own[k] - 1]
<1>0. SUFFICES ASSUME cut \in [0..n -> 0..m], cut[0] = 0, cut[n] = m,
                    \A i, j \in 0..n : i <= j => cut[i] <= cut[j],
                    own \in [1..m -> 1..n],
                    \A k \in 1..m : cut[own[k] - 1] < k /\ k <= cut[own[k]]
             PROVE  Divides(n - 1, m, c, o)
  BY DEF Divides
<1>1. c \in [0..(n - 1) -> 0..m] /\ c[0] = 0 /\ c[n - 1] = m
  BY <1>0
<1>2. ASSUME NEW i \in 0..(n - 1), NEW j \in 0..(n - 1), i <= j PROVE c[i] <= c[j]
  <2>1. i + 1 \in 0..n /\ j + 1 \in 0..n /\ i + 1 <= j + 1
    BY <1>2
  <2>2. cut[i + 1] <= cut[j + 1]
    BY <1>0, <2>1
  <2> QED
    BY <2>2
<1>3. ASSUME NEW k \in 1..m PROVE own[k] \in 2..n
  <2>1. own[k] \in 1..n /\ k <= cut[own[k]]
    BY <1>0
  <2>2. own[k] # 1
    BY <2>1
  <2> QED
    BY <2>1, <2>2
<1>4. o \in [1..m -> 1..(n - 1)]
  BY <1>3
<1>5. ASSUME NEW k \in 1..m PROVE c[o[k] - 1] < k /\ k <= c[o[k]]
  <2>1. PICK w \in 2..n : w = own[k]
    BY <1>3
  <2>2. cut[w - 1] < k /\ k <= cut[w]
    BY <1>0, <2>1
  <2>3. o[k] = w - 1 /\ (w - 1) + 1 = w /\ w - 1 \in 0..(n - 1)
    BY <2>1
  <2>4. c[w - 1] = cut[w] /\ c[(w - 1) - 1] = cut[w - 1]
    BY <1>0
  <2> HIDE DEF c, o
  <2> QED
    BY <2>2, <2>3, <2>4
<1> HIDE DEF c, o
<1>6. Divides(n - 1, m, c, o)
  BY <1>1, <1>2, <1>4, <1>5 DEF Divides
<1> QED
  BY <1>6

-----------------------------------------------------------------------------
\* What a step does to the handlers that the activations share.

\* The numbers that divide a stack are numbers.
LEMMA DividesTypes ==
  ASSUME NEW n \in Nat, NEW m \in Nat, NEW cut, NEW own, Divides(n, m, cut, own)
  PROVE  /\ cut[0] = 0
         /\ \A j \in 0..n : cut[j] \in 0..m
         /\ \A j \in 1..n : cut[j - 1] <= cut[j]
         /\ \A k \in 1..m : own[k] \in 1..n
<1>1. /\ cut[0] = 0 /\ cut \in [0..n -> 0..m] /\ own \in [1..m -> 1..n]
      /\ \A i, j \in 0..n : i <= j => cut[i] <= cut[j]
  BY DEF Divides
<1>2. ASSUME NEW j \in 1..n PROVE cut[j - 1] <= cut[j]
  <2>1. j - 1 \in 0..n /\ j \in 0..n /\ j - 1 <= j
    OBVIOUS
  <2> QED
    BY <1>1, <2>1
<1> QED
  BY <1>1, <1>2

\* A division that shares the handlers out makes them partitioned.
LEMMA SharedIsPartition ==
  ASSUME NEW p, NEW fs, NEW hs, NEW cut, NEW own, Shared(p, fs, hs, cut, own)
  PROVE  Partitioned(p, fs, hs)
<1>1. cut \in [0..Len(fs) -> 0..Len(hs)] /\ own \in [1..Len(hs) -> 1..Len(fs)]
  BY DEF Shared, Divides
<1> QED
  BY <1>1 DEF Partitioned

\* The innermost activation moves on and keeps its handlers.
LEMMA KeepPart ==
  ASSUME NEW p, NEW fs, NEW hs, NEW cut, NEW own, Shared(p, fs, hs, cut, own),
         Len(fs) \in Nat \ {0}, Len(hs) \in Nat,
         NEW gs, Len(gs) = Len(fs), gs[1].id = fs[1].id,
         \A j \in 2..Len(fs) : gs[j] = fs[j],
         NEW t, t = Labels(hs, 0, cut[1]), Placed(p, gs[1], t)
  PROVE  Partitioned(p, gs, hs)
<1>1. Divides(Len(gs), Len(hs), cut, own)
  BY DEF Shared
<1>2. ASSUME NEW k \in 1..Len(hs) PROVE gs[own[k]].id = hs[k].id
  <2>1. own[k] \in 1..Len(fs) /\ fs[own[k]].id = hs[k].id
    BY <1>1, DividesTypes DEF Shared
  <2>2. own[k] = 1 \/ own[k] \in 2..Len(fs)
    BY <2>1
  <2> QED
    BY <2>1, <2>2
<1>3. ASSUME NEW j \in 1..Len(gs) PROVE Placed(p, gs[j], Labels(hs, cut[j - 1], cut[j]))
  <2>1. CASE j = 1
    <3>1. cut[0] = 0
      BY <1>1, DividesTypes
    <3>2. j - 1 = 0
      BY <2>1
    <3> QED
      BY <2>1, <3>1, <3>2
  <2>2. CASE j # 1
    <3>1. j \in 2..Len(fs)
      BY <2>2
    <3>2. gs[j] = fs[j]
      BY <3>1
    <3> QED
      BY <3>2 DEF Shared
  <2> QED
    BY <2>1, <2>2
<1>4. Shared(p, gs, hs, cut, own)
  BY <1>1, <1>2, <1>3 DEF Shared
<1> QED
  BY <1>4, SharedIsPartition

\* The innermost activation pushes a handler.
LEMMA PushPart ==
  ASSUME NEW p, NEW fs, NEW hs, NEW cut, NEW own, NEW gs, NEW h, NEW t
  PROVE  /\ Shared(p, fs, hs, cut, own) /\ Len(fs) \in Nat \ {0} /\ IsSeq(hs)
         /\ Len(gs) = Len(fs) /\ gs[1].id = fs[1].id
         /\ \A j \in 2..Len(fs) : gs[j] = fs[j]
         /\ h.id = fs[1].id
         /\ t = <<h.label>> \o Labels(hs, 0, cut[1]) /\ Placed(p, gs[1], t)
         => Partitioned(p, gs, <<h>> \o hs)
<1>a. SUFFICES ASSUME Shared(p, fs, hs, cut, own), Len(fs) \in Nat \ {0}, IsSeq(hs),
                      Len(gs) = Len(fs), gs[1].id = fs[1].id,
                      \A j \in 2..Len(fs) : gs[j] = fs[j],
                      h.id = fs[1].id,
                      t = <<h.label>> \o Labels(hs, 0, cut[1]), Placed(p, gs[1], t)
               PROVE  Partitioned(p, gs, <<h>> \o hs)
  OBVIOUS
<1>b. Shared(p, fs, hs, cut, own) /\ IsSeq(hs)
  BY <1>a
<1>c. gs[1].id = fs[1].id /\ h.id = fs[1].id /\ \A j \in 2..Len(fs) : gs[j] = fs[j]
  BY <1>a
<1>d. t = <<h.label>> \o Labels(hs, 0, cut[1]) /\ Placed(p, gs[1], t)
  BY <1>a
<1> DEFINE ks == <<h>> \o hs
           n  == Len(fs)
           m  == Len(hs)
           c  == [j \in 0..n |-> IF j = 0 THEN 0 ELSE cut[j] + 1]
           o  == [k \in 1..(m + 1) |-> IF k = 1 THEN 1 ELSE own[k - 1]]
<1>1. n \in Nat \ {0} /\ m \in Nat
  BY <1>a, SeqFacts
<1>2. Len(ks) = m + 1 /\ ks[1] = h /\ \A k \in 1..m : ks[k + 1] = hs[k]
  BY <1>b, ConsFacts
<1>3. Divides(n, m, cut, own) /\ Divides(n, m + 1, c, o)
  <2>1. Divides(n, m, cut, own)
    BY <1>b DEF Shared
  <2> QED
    BY <1>1, <2>1, PushDivides
<1>4. /\ \A j \in 0..n : cut[j] \in 0..m
      /\ \A j \in 1..n : cut[j - 1] <= cut[j]
      /\ \A k \in 1..m : own[k] \in 1..n
  BY <1>1, <1>3, DividesTypes
<1>5. c[0] = 0 /\ \A j \in 1..n : c[j] = cut[j] + 1
  BY <1>1
<1>6. o[1] = 1 /\ \A k \in 1..m : o[k + 1] = own[k]
  BY <1>1
<1> HIDE DEF ks, c, o
<1>7. ASSUME NEW k \in 1..(m + 1) PROVE gs[o[k]].id = ks[k].id
  <2>1. CASE k = 1
    BY <2>1, <1>2, <1>6, <1>c
  <2>2. CASE k # 1
    <3>1. PICK l \in 1..m : k = l + 1
      <4>1. k - 1 \in 1..m /\ k = (k - 1) + 1
        BY <1>1, <2>2
      <4> QED
        BY <4>1
    <3>2. o[k] = own[l] /\ ks[k] = hs[l]
      BY <3>1, <1>2, <1>6
    <3>3. own[l] \in 1..n /\ fs[own[l]].id = hs[l].id
      BY <1>4, <1>b DEF Shared
    <3>4. own[l] = 1 \/ own[l] \in 2..n
      BY <1>1, <3>3
    <3> QED
      BY <3>2, <3>3, <3>4, <1>c
  <2> QED
    BY <2>1, <2>2
<1>8. ASSUME NEW j \in 1..n PROVE Placed(p, gs[j], Labels(ks, c[j - 1], c[j]))
  <2>1. CASE j = 1
    <3>1. c[j - 1] = 0 /\ c[j] = cut[1] + 1
      <4>1. j - 1 = 0 /\ 1 \in 1..n
        BY <1>1, <2>1
      <4> QED
        BY <2>1, <4>1, <1>5
    <3>2. cut[1] \in 0..m
      <4>1. 1 \in 0..n
        BY <1>1
      <4> QED
        BY <4>1, <1>4
    <3>3. Labels(ks, 0, cut[1] + 1) = t
      BY <3>2, <1>b, <1>d, LabelsPushed DEF ks
    <3> QED
      BY <2>1, <3>1, <3>3, <1>d
  <2>2. CASE j # 1
    <3>1. j \in 2..n /\ j - 1 \in 1..n /\ j - 1 \in 0..n /\ j \in 0..n
      BY <1>1, <2>2
    <3>2. PICK lo \in 0..m : lo = cut[j - 1]
      BY <3>1, <1>4
    <3>3. PICK hi \in 0..m : hi = cut[j]
      BY <3>1, <1>4
    <3>4. lo <= hi
      BY <3>2, <3>3, <1>4
    <3>5. c[j - 1] = lo + 1 /\ c[j] = hi + 1
      BY <3>1, <3>2, <3>3, <1>5
    <3>6. PICK a \in Int, b \in Int : a = c[j - 1] /\ b = c[j]
      BY <3>5, <1>1
    <3>7. Labels(ks, a, b) = Labels(hs, lo, hi)
      <4>1. a = lo + 1 /\ b = hi + 1
        BY <3>5, <3>6
      <4>2. \A k \in 1..(hi - lo) : ks[a + k] = hs[lo + k]
        <5>1. ASSUME NEW k \in 1..(hi - lo) PROVE ks[a + k] = hs[lo + k]
          <6>1. lo + k \in 1..m /\ (lo + k) + 1 = a + k
            BY <1>1, <4>1
          <6> QED
            BY <6>1, <1>2
        <5> QED
          BY <5>1
      <4>3. b - a = hi - lo
        BY <4>1, <1>1
      <4> HIDE DEF n, m
      <4> QED
        BY <4>2, <4>3, LabelsMoved
    <3>8. gs[j] = fs[j]
      BY <3>1, <1>c
    <3>9. Placed(p, fs[j], Labels(hs, lo, hi))
      BY <3>2, <3>3, <1>b DEF Shared
    <3> QED
      BY <3>6, <3>7, <3>8, <3>9
  <2> QED
    BY <2>1, <2>2
<1>9. Shared(p, gs, ks, c, o)
  <2>1. Len(gs) = n
    BY <1>a
  <2> QED
    BY <2>1, <1>2, <1>3, <1>7, <1>8 DEF Shared
<1>10. Partitioned(p, gs, ks)
  BY <1>9, SharedIsPartition
<1> QED
  BY <1>10 DEF ks

\* A handler is taken off while control goes to the activation i that owns it:
\* the activations within it end.
LEMMA DropPart ==
  ASSUME NEW p, NEW fs, NEW hs, NEW cut, NEW own, NEW i, NEW gs, NEW t
  PROVE  /\ Shared(p, fs, hs, cut, own) /\ Len(fs) \in Nat \ {0}
         /\ IsSeq(hs) /\ hs # <<>> /\ i = own[1]
         /\ Len(gs) = Len(fs) - i + 1 /\ gs[1].id = fs[i].id
         /\ \A j \in 2..Len(gs) : gs[j] = fs[i + j - 1]
         /\ t = Tail(Labels(hs, 0, cut[i])) /\ Placed(p, gs[1], t)
         => Partitioned(p, gs, Tail(hs))
<1>a. SUFFICES ASSUME Shared(p, fs, hs, cut, own), Len(fs) \in Nat \ {0},
                      IsSeq(hs), hs # <<>>, i = own[1],
                      Len(gs) = Len(fs) - i + 1, gs[1].id = fs[i].id,
                      \A j \in 2..Len(gs) : gs[j] = fs[i + j - 1],
                      t = Tail(Labels(hs, 0, cut[i])), Placed(p, gs[1], t)
               PROVE  Partitioned(p, gs, Tail(hs))
  OBVIOUS
<1>b. Shared(p, fs, hs, cut, own) /\ IsSeq(hs) /\ hs # <<>>
  BY <1>a
<1>c. gs[1].id = fs[i].id /\ \A j \in 2..Len(gs) : gs[j] = fs[i + j - 1]
  BY <1>a
<1>d. t = Tail(Labels(hs, 0, cut[i])) /\ Placed(p, gs[1], t)
  BY <1>a
<1> DEFINE ks == Tail(hs)
           n  == Len(fs)
           m  == Len(hs)
           r  == n - i + 1
           c  == [j \in 0..r |-> IF j = 0 THEN 0 ELSE cut[i + j - 1] - 1]
           o  == [k \in 1..(m - 1) |-> own[k + 1] - i + 1]
<1>1. n \in Nat \ {0} /\ m \in Nat \ {0}
  BY <1>a, SeqFacts
<1>2. Len(ks) = m - 1 /\ \A k \in 1..(m - 1) : ks[k] = hs[k + 1]
  BY <1>b, TailFacts
<1>3. Divides(n, m, cut, own)
  BY <1>b DEF Shared
<1>4. /\ i \in 1..n /\ cut[i - 1] = 0 /\ cut[i] \in 1..m
      /\ \A k \in 2..m : own[k] \in i..n
      /\ \A j \in i..n : cut[j] \in 1..m
      /\ Divides(r, m - 1, c, o)
  <2>1. i = own[1]
    BY <1>a
  <2> HIDE DEF n, m
  <2> QED
    BY <1>1, <1>3, <2>1, DropDivides, SMTT(30)
<1>5. i \in 1..n /\ r \in 1..n /\ i + r - 1 = n
  <2>1. i \in 1..n
    BY <1>4
  <2> QED
    BY <1>1, <2>1
<1>6. c[0] = 0 /\ \A j \in 1..r : c[j] = cut[i + j - 1] - 1
  BY <1>5
<1>7. \A k \in 1..(m - 1) : o[k] = own[k + 1] - i + 1
  OBVIOUS
<1>8. \A j \in 1..n : cut[j - 1] <= cut[j]
  BY <1>1, <1>3, DividesTypes
<1>9. Len(gs) = r
  BY <1>a
<1> HIDE DEF ks, c, o, r, n, m
<1>10. ASSUME NEW k \in 1..(m - 1) PROVE gs[o[k]].id = ks[k].id
  <2>1. k + 1 \in 2..m /\ k + 1 \in 1..m
    BY <1>1
  <2>2. PICK w \in i..n : w = own[k + 1]
    BY <2>1, <1>4
  <2>3. o[k] = w - i + 1
    BY <2>2, <1>7
  <2>4. fs[w].id = hs[k + 1].id
    BY <2>1, <2>2, <1>b DEF Shared, m
  <2>5. gs[w - i + 1].id = fs[w].id
    <3>1. CASE w = i
      <4>1. w - i + 1 = 1
        BY <3>1, <1>5
      <4> QED
        BY <3>1, <4>1, <1>c
    <3>2. CASE w # i
      <4>1. w - i + 1 \in 2..r /\ i + (w - i + 1) - 1 = w
        BY <3>2, <1>5, <1>1 DEF r
      <4> QED
        BY <4>1, <1>9, <1>c
    <3> QED
      BY <3>1, <3>2
  <2> QED
    BY <2>3, <2>4, <2>5, <1>2
<1>11. ASSUME NEW j \in 1..r PROVE Placed(p, gs[j], Labels(ks, c[j - 1], c[j]))
  <2>1. CASE j = 1
    <3>1. c[j - 1] = 0 /\ c[j] = cut[i] - 1
      <4>1. j - 1 = 0 /\ i + j - 1 = i /\ j \in 1..r
        BY <1>5, <2>1
      <4> QED
        BY <4>1, <1>6
    <3>2. Labels(ks, 0, cut[i] - 1) = t
      <4>1. cut[i] \in 1..Len(hs)
        BY <1>4 DEF m
      <4> QED
        BY <4>1, <1>b, <1>d, LabelsPopped DEF ks
    <3> QED
      BY <2>1, <3>1, <3>2, <1>d
  <2>2. CASE j # 1
    <3>1. PICK x \in i..n : x = i + j - 1
      <4>1. i + j - 1 \in i..n
        BY <1>1, <1>5 DEF r
      <4> QED
        BY <4>1
    <3>2. j \in 2..r /\ j - 1 \in 1..r /\ x - 1 \in i..n /\ i + (j - 1) - 1 = x - 1 /\ x \in 1..n
      BY <3>1, <2>2, <1>1, <1>5
    <3>3. PICK hi \in 1..m : hi = cut[x]
      BY <1>4
    <3>4. PICK lo \in 1..m : lo = cut[x - 1]
      BY <3>2, <1>4
    <3>5. lo <= hi
      BY <3>2, <3>3, <3>4, <1>8
    <3>6. c[j] = hi - 1
      BY <3>1, <3>3, <1>6
    <3>7. c[j - 1] = lo - 1
      BY <3>2, <3>4, <1>6
    <3>8. PICK a \in Int : a = c[j - 1]
      BY <3>7, <1>1
    <3>12. PICK b \in Int : b = c[j]
      BY <3>6, <1>1
    <3>9. Labels(ks, a, b) = Labels(hs, lo, hi)
      <4>1. a = lo - 1 /\ b = hi - 1
        BY <3>6, <3>7, <3>8, <3>12
      <4>2. \A k \in 1..(hi - lo) : ks[a + k] = hs[lo + k]
        <5>1. ASSUME NEW k \in 1..(hi - lo) PROVE ks[a + k] = hs[lo + k]
          <6>1. a + k \in 1..(m - 1) /\ (a + k) + 1 = lo + k
            BY <1>1, <4>1
          <6> QED
            BY <6>1, <1>2
        <5> QED
          BY <5>1
      <4>3. b - a = hi - lo
        BY <4>1, <1>1
      <4> QED
        BY <4>2, <4>3, LabelsMoved
    <3>10. Placed(p, fs[x], Labels(hs, lo, hi))
      BY <3>2, <3>3, <3>4, <1>b DEF Shared, n
    <3>11. gs[j] = fs[x]
      BY <3>1, <3>2, <1>9, <1>c
    <3> QED
      BY <3>8, <3>9, <3>10, <3>11, <3>12
  <2> QED
    BY <2>1, <2>2
<1>12. Divides(Len(gs), Len(ks), c, o)
  BY <1>2, <1>4, <1>9
<1>13. Shared(p, gs, ks, c, o)
  BY <1>2, <1>9, <1>10, <1>11, <1>12 DEF Shared
<1>14. Partitioned(p, gs, ks)
  BY <1>13, SharedIsPartition
<1> QED
  BY <1>14 DEF ks

\* An activation is made, of a function that starts with no handlers.
LEMMA CallPart ==
  ASSUME NEW p, NEW fs, NEW hs, NEW cut, NEW own, NEW gs, NEW t
  PROVE  /\ Shared(p, fs, hs, cut, own) /\ Len(fs) \in Nat \ {0} /\ IsSeq(hs)
         /\ Len(gs) = Len(fs) + 1 /\ gs[2].id = fs[1].id
         /\ \A j \in 2..Len(fs) : gs[j + 1] = fs[j]
         /\ Placed(p, gs[1], <<>>)
         /\ t = Labels(hs, 0, cut[1]) /\ Placed(p, gs[2], t)
         => Partitioned(p, gs, hs)
<1>a. SUFFICES ASSUME Shared(p, fs, hs, cut, own), Len(fs) \in Nat \ {0}, IsSeq(hs),
                      Len(gs) = Len(fs) + 1, gs[2].id = fs[1].id,
                      \A j \in 2..Len(fs) : gs[j + 1] = fs[j],
                      Placed(p, gs[1], <<>>),
                      t = Labels(hs, 0, cut[1]), Placed(p, gs[2], t)
               PROVE  Partitioned(p, gs, hs)
  OBVIOUS
<1>b. Shared(p, fs, hs, cut, own) /\ IsSeq(hs)
  BY <1>a
<1>c. gs[2].id = fs[1].id /\ \A j \in 2..Len(fs) : gs[j + 1] = fs[j]
  BY <1>a
<1>d. Placed(p, gs[1], <<>>) /\ t = Labels(hs, 0, cut[1]) /\ Placed(p, gs[2], t)
  BY <1>a
<1> DEFINE n  == Len(fs)
           m  == Len(hs)
           c  == [j \in 0..(n + 1) |-> IF j = 0 THEN 0 ELSE cut[j - 1]]
           o  == [k \in 1..m |-> own[k] + 1]
<1>1. n \in Nat \ {0} /\ m \in Nat
  BY <1>a, SeqFacts
<1>3. Divides(n, m, cut, own) /\ Divides(n + 1, m, c, o)
  <2>1. Divides(n, m, cut, own)
    BY <1>b DEF Shared
  <2> QED
    BY <1>1, <2>1, CallDivides
<1>4. cut[0] = 0 /\ \A k \in 1..m : own[k] \in 1..n
  BY <1>1, <1>3, DividesTypes
<1>5. c[0] = 0 /\ \A j \in 1..(n + 1) : c[j] = cut[j - 1]
  BY <1>1
<1>6. \A k \in 1..m : o[k] = own[k] + 1
  BY <1>1
<1>7. Len(gs) = n + 1
  BY <1>a
<1> HIDE DEF c, o, n, m
<1>8. ASSUME NEW k \in 1..m PROVE gs[o[k]].id = hs[k].id
  <2>1. PICK w \in 1..n : w = own[k]
    BY <1>4
  <2>2. o[k] = w + 1 /\ fs[w].id = hs[k].id
    BY <2>1, <1>6, <1>b DEF Shared, m
  <2>3. gs[w + 1].id = fs[w].id
    <3>1. CASE w = 1
      <4>1. w + 1 = 2
        BY <3>1
      <4> QED
        BY <3>1, <4>1, <1>c
    <3>2. CASE w # 1
      <4>1. w \in 2..Len(fs)
        BY <3>2, <1>1 DEF n
      <4> QED
        BY <4>1, <1>c
    <3> QED
      BY <3>1, <3>2
  <2> QED
    BY <2>2, <2>3
<1>9. Labels(hs, 0, 0) = <<>>
  BY LabelsFacts, SeqFacts
<1>10. ASSUME NEW j \in 1..(n + 1) PROVE Placed(p, gs[j], Labels(hs, c[j - 1], c[j]))
  <2>1. CASE j = 1
    <3>1. c[j - 1] = 0 /\ c[j] = 0
      <4>1. j - 1 = 0 /\ 1 \in 1..(n + 1)
        BY <1>1, <2>1
      <4> QED
        BY <2>1, <4>1, <1>4, <1>5
    <3> QED
      BY <2>1, <3>1, <1>9, <1>d
  <2>2. CASE j = 2
    <3>1. j - 1 = 1 /\ 1 - 1 = 0 /\ 1 \in 1..(n + 1) /\ 2 \in 1..(n + 1)
      BY <1>1, <2>2
    <3>2. c[1] = cut[1 - 1] /\ c[2] = cut[2 - 1]
      BY <3>1, <1>5
    <3>3. c[j - 1] = 0 /\ c[j] = cut[1]
      BY <3>1, <3>2, <2>2, <1>4
    <3> QED
      BY <2>2, <3>3, <1>d
  <2>3. CASE j # 1 /\ j # 2
    <3>1. PICK x \in 2..n : j = x + 1
      <4>1. j - 1 \in 2..n /\ j = (j - 1) + 1
        BY <1>1, <2>3
      <4> QED
        BY <4>1
    <3>2. x \in 1..n /\ j - 1 = x /\ j - 1 \in 1..(n + 1) /\ x \in 2..Len(fs)
      BY <3>1, <1>1 DEF n
    <3>3. c[j] = cut[x] /\ c[j - 1] = cut[x - 1]
      BY <3>1, <3>2, <1>5
    <3>4. gs[j] = fs[x]
      BY <3>1, <3>2, <1>c
    <3>5. Placed(p, fs[x], Labels(hs, cut[x - 1], cut[x]))
      BY <3>2, <1>b DEF Shared, n
    <3> QED
      BY <3>3, <3>4, <3>5
  <2> QED
    BY <2>1, <2>2, <2>3
<1>11. Shared(p, gs, hs, c, o)
  <2>1. Divides(Len(gs), Len(hs), c, o)
    BY <1>3, <1>7 DEF m
  <2> QED
    BY <2>1, <1>7, <1>8, <1>10 DEF Shared, m
<1> QED
  BY <1>11, SharedIsPartition

\* The innermost activation ends, with no handlers left; the next goes on.
LEMMA ReturnPart ==
  ASSUME NEW p, NEW fs, NEW hs, NEW cut, NEW own, NEW gs, NEW t
  PROVE  /\ Shared(p, fs, hs, cut, own) /\ Len(fs) \in Nat \ {0} /\ Len(fs) > 1 /\ IsSeq(hs)
         /\ cut[1] = 0
         /\ Len(gs) = Len(fs) - 1 /\ gs[1].id = fs[2].id
         /\ \A j \in 2..Len(gs) : gs[j] = fs[j + 1]
         /\ t = Labels(hs, cut[1], cut[2]) /\ Placed(p, gs[1], t)
         => Partitioned(p, gs, hs)
<1>a. SUFFICES ASSUME Shared(p, fs, hs, cut, own), Len(fs) \in Nat \ {0}, Len(fs) > 1, IsSeq(hs),
                      cut[1] = 0,
                      Len(gs) = Len(fs) - 1, gs[1].id = fs[2].id,
                      \A j \in 2..Len(gs) : gs[j] = fs[j + 1],
                      t = Labels(hs, cut[1], cut[2]), Placed(p, gs[1], t)
               PROVE  Partitioned(p, gs, hs)
  OBVIOUS
<1>b. Shared(p, fs, hs, cut, own) /\ IsSeq(hs)
  BY <1>a
<1>c. gs[1].id = fs[2].id /\ \A j \in 2..Len(gs) : gs[j] = fs[j + 1]
  BY <1>a
<1>d. t = Labels(hs, cut[1], cut[2]) /\ Placed(p, gs[1], t)
  BY <1>a
<1> DEFINE n  == Len(fs)
           m  == Len(hs)
           c  == [j \in 0..(n - 1) |-> cut[j + 1]]
           o  == [k \in 1..m |-> own[k] - 1]
<1>1. n \in Nat \ {0} /\ n > 1 /\ m \in Nat
  BY <1>a, SeqFacts
<1>2. cut[1] = 0
  BY <1>a
<1>3. Divides(n, m, cut, own) /\ Divides(n - 1, m, c, o)
  <2>1. Divides(n, m, cut, own)
    BY <1>b DEF Shared
  <2> QED
    BY <1>1, <1>2, <2>1, ReturnDivides
<1>5. \A j \in 0..(n - 1) : c[j] = cut[j + 1]
  BY <1>1
<1>6. /\ \A k \in 1..m : o[k] = own[k] - 1 /\ o[k] \in 1..(n - 1) /\ own[k] \in 1..n
  <2>1. \A k \in 1..m : o[k] = own[k] - 1
    OBVIOUS
  <2> HIDE DEF o
  <2>2. n - 1 \in Nat
    BY <1>1
  <2> QED
    BY <1>1, <1>3, <2>1, <2>2, DividesTypes
<1>7. Len(gs) = n - 1
  BY <1>a
<1> HIDE DEF c, o, n, m
<1>8. ASSUME NEW k \in 1..m PROVE gs[o[k]].id = hs[k].id
  <2>1. PICK w \in 1..n : w = own[k]
    BY <1>6
  <2>2. o[k] = w - 1 /\ w - 1 \in 1..(n - 1) /\ fs[w].id = hs[k].id
    BY <2>1, <1>6, <1>b DEF Shared, m
  <2>3. gs[w - 1].id = fs[w].id
    <3>1. CASE w = 2
      <4>1. w - 1 = 1
        BY <3>1
      <4> QED
        BY <3>1, <4>1, <1>c
    <3>2. CASE w # 2
      <4>1. w - 1 \in 2..Len(gs) /\ (w - 1) + 1 = w
        BY <3>2, <2>2, <1>1, <1>7
      <4> QED
        BY <4>1, <1>c
    <3> QED
      BY <3>1, <3>2
  <2> QED
    BY <2>2, <2>3
<1>10. ASSUME NEW j \in 1..(n - 1) PROVE Placed(p, gs[j], Labels(hs, c[j - 1], c[j]))
  <2>1. j - 1 \in 0..(n - 1) /\ j \in 0..(n - 1) /\ (j - 1) + 1 = j
    BY <1>1
  <2>2. c[j - 1] = cut[j] /\ c[j] = cut[j + 1]
    BY <2>1, <1>5
  <2>3. CASE j = 1
    <3>1. c[j - 1] = cut[1] /\ c[j] = cut[2]
      <4>1. j + 1 = 2
        BY <2>3
      <4> QED
        BY <2>2, <2>3, <4>1
    <3> QED
      BY <2>3, <3>1, <1>d
  <2>4. CASE j # 1
    <3>1. PICK x \in 1..n : x = j + 1
      BY <1>1
    <3>2. j \in 2..Len(gs) /\ x - 1 = j
      BY <3>1, <2>4, <1>1, <1>7
    <3>3. gs[j] = fs[x]
      BY <3>1, <3>2, <1>c
    <3>4. Placed(p, fs[x], Labels(hs, cut[x - 1], cut[x]))
      BY <1>b DEF Shared, n
    <3>5. c[j - 1] = cut[x - 1] /\ c[j] = cut[x]
      BY <2>2, <3>1, <3>2
    <3> QED
      BY <3>3, <3>4, <3>5
  <2> QED
    BY <2>3, <2>4
<1>11. Shared(p, gs, hs, c, o)
  <2>1. Divides(Len(gs), Len(hs), c, o)
    BY <1>3, <1>7 DEF m
  <2> QED
    BY <2>1, <1>7, <1>8, <1>10 DEF Shared, m
<1> QED
  BY <1>11, SharedIsPartition

-----------------------------------------------------------------------------
\* The numbers of the activations.

\* Those of fs that are left, from i on, in the same order; the first one has
\* moved.
LEMMA DropNumbered ==
  ASSUME NEW fs, NEW gs, NEW next, Numbered(fs, next), Len(fs) \in Nat \ {0},
         NEW i \in 1..Len(fs), Len(gs) = Len(fs) - i + 1,
         IsFrame(gs[1]), gs[1].id = fs[i].id,
         \A j \in 2..Len(gs) : gs[j] = fs[i + j - 1]
  PROVE  Numbered(gs, next)
<1>1. ASSUME NEW j \in 1..Len(gs) PROVE i + j - 1 \in 1..Len(fs) /\ gs[j].id = fs[i + j - 1].id
  <2>1. i + j - 1 \in 1..Len(fs)
    OBVIOUS
  <2>2. CASE j = 1
    <3>1. i + j - 1 = i
      BY <2>2
    <3> QED
      BY <2>1, <2>2, <3>1
  <2>3. CASE j # 1
    <3>1. j \in 2..Len(gs)
      BY <2>3
    <3> QED
      BY <2>1, <3>1
  <2> QED
    BY <2>2, <2>3
<1>2. ASSUME NEW j \in 1..Len(gs) PROVE IsFrame(gs[j]) /\ gs[j].id \in Nat /\ gs[j].id < next
  <2>1. gs[j].id \in Nat /\ gs[j].id < next
    BY <1>1 DEF Numbered
  <2>2. j = 1 \/ j \in 2..Len(gs)
    OBVIOUS
  <2>3. IsFrame(gs[j])
    BY <1>1, <2>2 DEF Numbered
  <2> QED
    BY <2>1, <2>3
<1>3. ASSUME NEW a \in 1..Len(gs), NEW b \in 1..Len(gs), a < b PROVE gs[a].id > gs[b].id
  <2>1. i + a - 1 < i + b - 1
    BY <1>3
  <2>2. fs[i + a - 1].id > fs[i + b - 1].id
    BY <1>1, <2>1 DEF Numbered
  <2> QED
    BY <1>1, <2>2
<1> QED
  BY <1>2, <1>3 DEF Numbered

\* A new one in front takes the next number; the one that made it has moved.
LEMMA CallNumbered ==
  ASSUME NEW fs, NEW gs, NEW next, Numbered(fs, next), Len(fs) \in Nat \ {0},
         Len(gs) = Len(fs) + 1, IsFrame(gs[1]), gs[1].id = next,
         IsFrame(gs[2]), gs[2].id = fs[1].id,
         \A j \in 2..Len(fs) : gs[j + 1] = fs[j]
  PROVE  Numbered(gs, next + 1)
<1>0. next \in Nat
  BY DEF Numbered
<1>1. ASSUME NEW j \in 2..Len(gs)
      PROVE  j - 1 \in 1..Len(fs) /\ IsFrame(gs[j]) /\ gs[j].id = fs[j - 1].id
  <2>1. j - 1 \in 1..Len(fs)
    OBVIOUS
  <2>2. CASE j = 2
    <3>1. j - 1 = 1
      BY <2>2
    <3> QED
      BY <2>1, <2>2, <3>1
  <2>3. CASE j # 2
    <3>1. j - 1 \in 2..Len(fs) /\ (j - 1) + 1 = j
      BY <2>3
    <3>2. gs[j] = fs[j - 1]
      BY <3>1
    <3> QED
      BY <2>1, <3>2 DEF Numbered
  <2> QED
    BY <2>2, <2>3
<1>2. ASSUME NEW j \in 2..Len(gs) PROVE gs[j].id \in Nat /\ gs[j].id < next
  BY <1>1 DEF Numbered
<1>3. ASSUME NEW a \in 1..Len(gs), NEW b \in 1..Len(gs), a < b PROVE gs[a].id > gs[b].id
  <2>1. b \in 2..Len(gs)
    BY <1>3
  <2>2. CASE a = 1
    BY <1>0, <1>2, <2>1, <2>2
  <2>3. CASE a # 1
    <3>1. a \in 2..Len(gs) /\ a - 1 < b - 1
      BY <2>3, <1>3
    <3>2. a - 1 \in 1..Len(fs) /\ gs[a].id = fs[a - 1].id
      BY <3>1, <1>1
    <3>3. b - 1 \in 1..Len(fs) /\ gs[b].id = fs[b - 1].id
      BY <2>1, <1>1
    <3>4. fs[a - 1].id > fs[b - 1].id
      BY <3>1, <3>2, <3>3 DEF Numbered
    <3> QED
      BY <3>2, <3>3, <3>4
  <2> QED
    BY <2>2, <2>3
<1>4. ASSUME NEW j \in 1..Len(gs) PROVE IsFrame(gs[j]) /\ gs[j].id \in Nat /\ gs[j].id < next + 1
  <2>1. CASE j = 1
    BY <1>0, <2>1
  <2>2. CASE j # 1
    <3>1. j \in 2..Len(gs)
      BY <2>2
    <3> QED
      BY <1>0, <1>1, <1>2, <3>1
  <2> QED
    BY <2>1, <2>2
<1> QED
  BY <1>0, <1>3, <1>4 DEF Numbered

-----------------------------------------------------------------------------
\* The three kinds of steps that are not about control.

\* The activations and the handlers stay as they are, for good.
Stays == UNCHANGED <<prog, frames, nextId, handlers>> /\ mode' # "ok"
\* The innermost activation goes on to its next instruction.
Moves == /\ Instr.op \notin Ends \cup {"push_handler", "pop_handler", "call_static"}
         /\ \E env : Advance(env)
         /\ UNCHANGED <<prog, nextId, handlers, mode>>
\* An exception is raised.
Raises == RaiseException /\ UNCHANGED <<prog, nextId>> /\ mode = "run"
Plain == Stays \/ Moves \/ Raises

\* ps_panic raises an exception.
LEMMA PanicRaises ==
  ASSUME NEW code, mode = "run", Panic(code)
  PROVE  Plain
BY DEF Panic, Raises, Plain

\* Undefined behaviour ends the run and moves nothing.
LEMMA UnspecifiedStays ==
  ASSUME Unspecified
  PROVE  Plain
BY DEF Unspecified, Stays, Plain

Ordinary == Instr.op \notin Ends \cup {"push_handler", "pop_handler", "call_static"}

\* An instruction that writes a local goes on to the next one,
LEMMA AssignMoves ==
  ASSUME NEW x, NEW v, Ordinary, Assign(x, v), UNCHANGED <<prog, nextId, handlers, mode>>
  PROVE  Plain
BY DEF Assign, Moves, Plain, Ordinary

\* and so does one that changes locals in any other way,
LEMMA AdvanceMoves ==
  ASSUME NEW env, Ordinary, Advance(env), UNCHANGED <<prog, nextId, handlers, mode>>
  PROVE  Plain
BY DEF Moves, Plain, Ordinary

\* or one that checks, unless it raises.
LEMMA CheckPlain ==
  ASSUME NEW ok, NEW code, mode = "run", Ordinary, Check(ok, code)
  PROVE  Plain
BY AdvanceMoves, PanicRaises DEF Check, Locally

\* The actions on values are of these kinds,
LEMMA ValuesPlain ==
  ASSUME UseUndefined \/ ConstInstr \/ Nothing \/ Copying \/ UnaryOp \/ Select \/ PrintValue
         \/ GetException \/ ExceptionIs
  PROVE  Plain
<1>1. CASE UseUndefined
  BY <1>1, UnspecifiedStays DEF UseUndefined
<1>2. CASE ConstInstr
  BY <1>2, AssignMoves DEF ConstInstr, At, Ordinary, Ends, Locally
<1>3. CASE Nothing
  BY <1>3, AdvanceMoves DEF Nothing, At, Ordinary, Ends, Locally
<1>4. CASE Copying
  BY <1>4, AssignMoves DEF Copying, At, Ordinary, Ends, Locally
<1>5. CASE UnaryOp
  BY <1>5, AssignMoves DEF UnaryOp, At, Ordinary, Ends, Locally
<1>6. CASE Select
  BY <1>6, AssignMoves DEF Select, At, Ordinary, Ends, Locally
<1>7. CASE PrintValue
  BY <1>7, AdvanceMoves DEF PrintValue, At, Ordinary, Ends
<1>8. CASE GetException
  BY <1>8, AssignMoves DEF GetException, At, Ordinary, Ends, Locally
<1>9. CASE ExceptionIs
  BY <1>9, AssignMoves DEF ExceptionIs, At, Ordinary, Ends, Locally
<1> QED
  BY <1>1, <1>2, <1>3, <1>4, <1>5, <1>6, <1>7, <1>8, <1>9

\* those of arithmetic,
LEMMA ArithPlain ==
  ASSUME CheckArith \/ BinOp
  PROVE  Plain
<1>1. CASE CheckArith
  <2>1. mode = "run" /\ Ordinary
    BY <1>1 DEF CheckArith, At, Ordinary, Ends
  <2>2. Instr.op \in {"check_int_overflow", "check_div_zero", "check_shift_range"}
    BY <1>1 DEF CheckArith, At
  <2>3. CASE Instr.op = "check_int_overflow"
    BY <1>1, <2>1, <2>3, CheckPlain DEF CheckArith
  <2>4. CASE Instr.op = "check_div_zero"
    BY <1>1, <2>1, <2>4, CheckPlain DEF CheckArith
  <2>5. CASE Instr.op = "check_shift_range"
    BY <1>1, <2>1, <2>5, CheckPlain DEF CheckArith
  <2> QED
    BY <2>2, <2>3, <2>4, <2>5
<1>2. CASE BinOp
  <2>1. Ordinary
    BY <1>2 DEF BinOp, At, Ordinary, Ends
  <2>2. \/ mode' = "crashed" /\ UNCHANGED <<prog, frames, nextId, handlers>>
        \/ \E x, v : Assign(x, v) /\ Locally
    BY <1>2 DEF BinOp
  <2>3. CASE mode' = "crashed" /\ UNCHANGED <<prog, frames, nextId, handlers>>
    BY <2>3 DEF Plain, Stays
  <2>4. CASE \E x, v : Assign(x, v) /\ Locally
    BY <2>1, <2>4, AssignMoves DEF Locally
  <2> QED
    BY <2>2, <2>3, <2>4
<1> QED
  BY <1>1, <1>2

\* of lists,
LEMMA ListsPlain ==
  ASSUME MakeList \/ Push \/ Pop \/ Reorder \/ ListContains
  PROVE  Plain
<1>1. CASE MakeList
  BY <1>1, AssignMoves DEF MakeList, At, Ordinary, Ends
<1>2. CASE Push
  BY <1>2, AdvanceMoves, UnspecifiedStays DEF Push, IsList, At, Ordinary, Ends, UpdateRef
<1>3. CASE Pop
  BY <1>3, AdvanceMoves, UnspecifiedStays, PanicRaises DEF Pop, IsList, At, Ordinary, Ends, UpdateRef, Locally
<1>4. CASE Reorder
  BY <1>4, AssignMoves, UnspecifiedStays DEF Reorder, IsList, At, Ordinary, Ends
<1>5. CASE ListContains
  BY <1>5, AssignMoves, UnspecifiedStays DEF ListContains, IsList, At, Ordinary, Ends, Locally
<1> QED
  BY <1>1, <1>2, <1>3, <1>4, <1>5

\* of views and loops,
LEMMA ViewsPlain ==
  ASSUME LengthOrNone \/ CheckBounds \/ MakeView \/ IndexGet \/ IndexSet \/ IterBegin \/ IterNext
  PROVE  Plain
<1>1. CASE LengthOrNone
  BY <1>1, AssignMoves, UnspecifiedStays, PanicRaises DEF LengthOrNone, At, Ordinary, Ends, Locally
<1>2. CASE CheckBounds
  <2>1. mode = "run" /\ Ordinary
    BY <1>2 DEF CheckBounds, At, Ordinary, Ends
  <2>2. (Advance(Local) /\ Locally) \/ Panic(1002)
    BY <1>2 DEF CheckBounds, Check
  <2> QED
    BY <2>1, <2>2, AdvanceMoves, PanicRaises DEF Locally
<1>3. CASE MakeView
  BY <1>3, AssignMoves DEF MakeView, At, Ordinary, Ends, Locally
<1>4. CASE IndexGet
  BY <1>4, AssignMoves, UnspecifiedStays, PanicRaises DEF IndexGet, At, Ordinary, Ends, Locally
<1>5. CASE IndexSet
  BY <1>5, AdvanceMoves, UnspecifiedStays, PanicRaises DEF IndexSet, At, Ordinary, Ends
<1>6. CASE IterBegin
  BY <1>6, AssignMoves, UnspecifiedStays, PanicRaises DEF IterBegin, At, Ordinary, Ends, Locally
<1>7. CASE IterNext
  BY <1>7, AdvanceMoves, UnspecifiedStays, PanicRaises DEF IterNext, At, Ordinary, Ends, Locally
<1> QED
  BY <1>1, <1>2, <1>3, <1>4, <1>5, <1>6, <1>7

\* and of objects and exceptions thrown.
LEMMA ObjectsPlain ==
  ASSUME MakeObject \/ MemberGet \/ MemberSet \/ Throw
  PROVE  Plain
<1>1. CASE MakeObject
  BY <1>1, AssignMoves DEF MakeObject, At, Ordinary, Ends
<1>2. CASE MemberGet
  BY <1>2, AssignMoves DEF MemberGet, At, Ordinary, Ends, Locally
<1>3. CASE MemberSet
  BY <1>3, AdvanceMoves DEF MemberSet, At, Ordinary, Ends
<1>4. CASE Throw
  BY <1>4 DEF Throw, At, Plain, Raises
<1> QED
  BY <1>1, <1>2, <1>3, <1>4

\* Every step is one of these or one of the five about control.
LEMMA StepKinds ==
  ASSUME Next
  PROVE  Plain \/ Branch \/ CallStatic \/ Return \/ PushHandler \/ PopHandler
BY ValuesPlain, ArithPlain, ListsPlain, ViewsPlain, ObjectsPlain DEF Next

-----------------------------------------------------------------------------
\* The innermost activation, before and after a step.

\* An activation at a position, with the handlers it may have there, is at an
\* instruction that keeps to the scopes.
LEMMA PositionScoped ==
  ASSUME NEW p, NEW f, NEW s, ProgramScoped(p), Placed(p, f, s)
  PROVE  InstrScoped(DOMAIN Scopes(p), Code(p)[f.fn], Scopes(p)[f.fn], f.block, f.pc, s)
BY DEF ProgramScoped, FunctionScoped, Placed, Reaches

\* An activation at the start of a block has the handlers control comes there with.
LEMMA EntersPlaced ==
  ASSUME NEW p, NEW g, NEW l, NEW s, g.fn \in DOMAIN Scopes(p),
         Enters(Code(p)[g.fn], Scopes(p)[g.fn], l, s),
         g.block = BlockOf(Code(p)[g.fn], l), g.pc = 1
  PROVE  Placed(p, g, s)
BY DEF Placed, Enters

-----------------------------------------------------------------------------
\* Every step keeps the inductive invariant.

SInv == IsSeq(frames) /\ IsSeq(handlers) /\ IInv

\* What the invariant says of the activations, the handlers and the innermost activation.
LEMMA InvFacts ==
  ASSUME SInv
  PROVE  /\ IsSeq(frames) /\ IsSeq(handlers) /\ Len(frames) \in Nat \ {0} /\ Len(handlers) \in Nat
         /\ frames # <<>> /\ Head(frames) = frames[1] /\ 1 \in 1..Len(frames) /\ 1 \in 0..Len(frames)
         /\ IsFrame(frames[1]) /\ Numbered(frames, nextId)
         /\ \E cut, own : Shared(prog, frames, handlers, cut, own)
<1>1. IsSeq(frames) /\ IsSeq(handlers) /\ Len(frames) \in Nat \ {0} /\ Numbered(frames, nextId)
  BY DEF SInv, IInv
<1>2. frames # <<>> /\ Head(frames) = frames[1] /\ 1 \in 1..Len(frames) /\ 1 \in 0..Len(frames) /\ Len(handlers) \in Nat
  BY <1>1, SeqFacts
<1>3. \E cut, own : Shared(prog, frames, handlers, cut, own)
  BY DEF SInv, IInv, Partitioned
<1>4. IsFrame(frames[1])
  BY <1>1, <1>2 DEF Numbered
<1> QED
  BY <1>1, <1>2, <1>3, <1>4

\* The innermost activation goes on to its next instruction.
LEMMA AdvanceTop ==
  ASSUME SInv, NEW env, Advance(env)
  PROVE  /\ IsSeq(frames') /\ Len(frames') = Len(frames) /\ \A j \in 2..Len(frames) : frames'[j] = frames[j]
         /\ IsFrame(frames'[1]) /\ frames'[1].id = frames[1].id /\ frames'[1].fn = frames[1].fn
         /\ frames'[1].block = frames[1].block /\ frames'[1].pc = frames[1].pc + 1
<1>1. IsSeq(frames) /\ frames # <<>> /\ 1 \in DOMAIN frames /\ IsFrame(frames[1])
  BY InvFacts, SeqFacts
<1>2. PICK g : g = [frames[1] EXCEPT !.env = env, !.pc = @ + 1]
  OBVIOUS
<1>3. frames' = [frames EXCEPT ![1] = g]
  BY <1>2 DEF Advance
<1>4. IsFrame(g) /\ g.id = frames[1].id /\ g.fn = frames[1].fn /\ g.block = frames[1].block /\ g.pc = frames[1].pc + 1
  BY <1>1, <1>2 DEF IsFrame
<1>5. /\ IsSeq([frames EXCEPT ![1] = g]) /\ Len([frames EXCEPT ![1] = g]) = Len(frames)
      /\ [frames EXCEPT ![1] = g][1] = g
      /\ \A k \in 2..Len(frames) : [frames EXCEPT ![1] = g][k] = frames[k]
  BY <1>1, FirstFacts
<1>6. /\ IsSeq(frames') /\ Len(frames') = Len(frames) /\ frames'[1] = g
      /\ \A k \in 2..Len(frames) : frames'[k] = frames[k]
  BY <1>3, <1>5
<1> QED
  BY <1>4, <1>6

\* It goes to another block.
LEMMA GoToTop ==
  ASSUME SInv, NEW l, GoTo(l)
  PROVE  /\ IsSeq(frames') /\ Len(frames') = Len(frames) /\ \A j \in 2..Len(frames) : frames'[j] = frames[j]
         /\ IsFrame(frames'[1]) /\ frames'[1].id = frames[1].id /\ frames'[1].fn = frames[1].fn
         /\ frames'[1].block = BlockOf(Fn, l) /\ frames'[1].pc = 1
<1>1. IsSeq(frames) /\ frames # <<>> /\ 1 \in DOMAIN frames /\ IsFrame(frames[1])
  BY InvFacts, SeqFacts
<1>2. PICK g : g = [frames[1] EXCEPT !.block = BlockOf(Fn, l), !.pc = 1]
  OBVIOUS
<1>3. frames' = [frames EXCEPT ![1] = g]
  BY <1>2 DEF GoTo
<1>4. IsFrame(g) /\ g.id = frames[1].id /\ g.fn = frames[1].fn /\ g.block = BlockOf(Fn, l) /\ g.pc = 1
  BY <1>1, <1>2 DEF IsFrame
<1>5. /\ IsSeq([frames EXCEPT ![1] = g]) /\ Len([frames EXCEPT ![1] = g]) = Len(frames)
      /\ [frames EXCEPT ![1] = g][1] = g
      /\ \A k \in 2..Len(frames) : [frames EXCEPT ![1] = g][k] = frames[k]
  BY <1>1, FirstFacts
<1>6. /\ IsSeq(frames') /\ Len(frames') = Len(frames) /\ frames'[1] = g
      /\ \A k \in 2..Len(frames) : frames'[k] = frames[k]
  BY <1>3, <1>5
<1> QED
  BY <1>4, <1>6

\* The innermost activation with its part of the handlers.
LEMMA TopScoped ==
  ASSUME NEW cut, NEW own, SInv, ProgramScoped(prog), Shared(prog, frames, handlers, cut, own)
  PROVE  /\ cut[1] \in 0..Len(handlers)
         /\ frames[1].fn \in DOMAIN Scopes(prog)
         /\ Placed(prog, frames[1], Labels(handlers, 0, cut[1]))
         /\ InstrScoped(DOMAIN Scopes(prog), Fn, Scopes(prog)[frames[1].fn],
                        frames[1].block, frames[1].pc, Labels(handlers, 0, cut[1]))
<1>1. cut[0] = 0 /\ cut[1] \in 0..Len(handlers)
  BY InvFacts, DividesTypes DEF Shared
<1>2. Placed(prog, frames[1], Labels(handlers, cut[1 - 1], cut[1]))
  BY InvFacts DEF Shared
<1>3. Placed(prog, frames[1], Labels(handlers, 0, cut[1]))
  <2>1. 1 - 1 = 0
    OBVIOUS
  <2> QED
    BY <1>1, <1>2, <2>1
<1>4. InstrScoped(DOMAIN Scopes(prog), Code(prog)[frames[1].fn], Scopes(prog)[frames[1].fn],
                  frames[1].block, frames[1].pc, Labels(handlers, 0, cut[1]))
  BY <1>3, PositionScoped
<1>5. Fn = Code(prog)[frames[1].fn]
  BY InvFacts DEF Fn
<1> QED
  BY <1>1, <1>3, <1>4, <1>5 DEF Placed

\* A program starts with one activation and no handlers.
LEMMA InitSInv ==
  ASSUME Init, ProgramScoped(prog)
  PROVE  SInv
<1> DEFINE f == NewFrame("main", 0, <<>>, 0)
           cut == [j \in 0..1 |-> 0]
           own == [k \in 1..0 |-> 1]
<1>1. frames = <<f>> /\ handlers = <<>> /\ nextId = 1 /\ mode = "run"
  BY DEF Init
<1>2. IsSeq(frames) /\ Len(frames) = 1 /\ frames[1] = f
  <2>1. <<f>> \in Seq({f})
    OBVIOUS
  <2> QED
    BY <1>1, <2>1 DEF IsSeq
<1>3. IsSeq(handlers) /\ Len(handlers) = 0
  <2>1. <<>> \in Seq({0}) /\ Len(<<>>) = 0
    BY EmptySeq
  <2> QED
    BY <1>1, <2>1 DEF IsSeq
<1>4. IsFrame(f) /\ f.id = 0 /\ f.fn = "main" /\ f.block = 1 /\ f.pc = 1
  BY DEF NewFrame, IsFrame
<1> HIDE DEF f
<1>5. Numbered(frames, nextId)
  BY <1>1, <1>2, <1>4 DEF Numbered
<1>6. Placed(prog, f, <<>>)
  BY <1>4 DEF ProgramScoped, FunctionScoped, Placed
<1>7. Labels(handlers, 0, 0) = <<>>
  BY LabelsFacts, SeqFacts
<1>8. Divides(1, 0, cut, own)
  BY DEF Divides
<1>9. Shared(prog, frames, handlers, cut, own)
  <2>1. Divides(Len(frames), Len(handlers), cut, own)
    BY <1>2, <1>3, <1>8
  <2>2. cut[0] = 0 /\ cut[1] = 0
    OBVIOUS
  <2> HIDE DEF cut, own
  <2>3. ASSUME NEW j \in 1..1 PROVE Placed(prog, frames[j], Labels(handlers, cut[j - 1], cut[j]))
    <3>1. j = 1 /\ j - 1 = 0
      OBVIOUS
    <3> QED
      BY <3>1, <2>2, <1>2, <1>6, <1>7
  <2>4. \A k \in 1..0 : frames[own[k]].id = handlers[k].id
    OBVIOUS
  <2> QED
    BY <2>1, <2>3, <2>4, <1>2, <1>3 DEF Shared
<1>10. Partitioned(prog, frames, handlers)
  BY <1>9, SharedIsPartition
<1> QED
  BY <1>1, <1>2, <1>3, <1>5, <1>10 DEF SInv, IInv

\* The innermost activation has moved and keeps its handlers.
LEMMA KeepSInv ==
  ASSUME NEW cut, NEW own, SInv, Shared(prog, frames, handlers, cut, own),
         IsSeq(frames'), Len(frames') = Len(frames), \A j \in 2..Len(frames) : frames'[j] = frames[j],
         IsFrame(frames'[1]), frames'[1].id = frames[1].id,
         Placed(prog, frames'[1], Labels(handlers, 0, cut[1])),
         UNCHANGED <<prog, nextId, handlers>>, mode' # "ok"
  PROVE  SInv'
<1>1. Partitioned(prog, frames', handlers)
  BY InvFacts, KeepPart
<1>2. Numbered(frames', nextId)
  <2>1. 1 \in 1..Len(frames) /\ Len(frames) - 1 + 1 = Len(frames) /\ \A j \in 2..Len(frames) : 1 + j - 1 = j
    BY InvFacts
  <2>2. \A j \in 2..Len(frames') : frames'[j] = frames[1 + j - 1]
    BY <2>1
  <2> QED
    BY <2>1, <2>2, InvFacts, DropNumbered
<1>3. IInv'
  BY <1>1, <1>2, InvFacts DEF IInv
<1> QED
  BY <1>3, InvFacts DEF SInv

\* A step that moves nothing keeps the invariant.
LEMMA StaysSInv ==
  ASSUME SInv, Stays
  PROVE  SInv'
<1>1. Partitioned(prog', frames', handlers') /\ Numbered(frames', nextId') /\ Len(frames') \in Nat \ {0}
  BY DEF SInv, IInv, Stays
<1> QED
  BY <1>1 DEF SInv, IInv, Stays

\* An instruction that goes on keeps its handlers.
LEMMA MovesSInv ==
  ASSUME SInv, ProgramScoped(prog), Moves, mode = "run"
  PROVE  SInv'
<1>1. PICK cut, own : Shared(prog, frames, handlers, cut, own)
  BY InvFacts
<1> DEFINE s == Labels(handlers, 0, cut[1])
<1>2. /\ frames[1].fn \in DOMAIN Scopes(prog)
      /\ InstrScoped(DOMAIN Scopes(prog), Fn, Scopes(prog)[frames[1].fn], frames[1].block, frames[1].pc, s)
  BY <1>1, TopScoped
<1>3. PICK env : Advance(env)
  BY DEF Moves
<1>4. /\ IsSeq(frames') /\ Len(frames') = Len(frames) /\ \A j \in 2..Len(frames) : frames'[j] = frames[j]
      /\ IsFrame(frames'[1]) /\ frames'[1].id = frames[1].id /\ frames'[1].fn = frames[1].fn
      /\ frames'[1].block = frames[1].block /\ frames'[1].pc = frames[1].pc + 1
  BY <1>3, AdvanceTop
<1> HIDE DEF s
<1>5. Instr = Fn.blocks[frames[1].block].instrs[frames[1].pc] /\ Fn = Code(prog)[frames[1].fn]
  BY InvFacts DEF Instr, Fn
<1>6. Reaches(Fn, Scopes(prog)[frames[1].fn], frames[1].block, frames[1].pc + 1, s)
  BY <1>2, <1>5 DEF InstrScoped, Moves
<1>7. Placed(prog, frames'[1], s)
  BY <1>2, <1>4, <1>5, <1>6 DEF Placed
<1> QED
  BY <1>1, <1>4, <1>7, KeepSInv DEF Moves, s

\* Control goes to a block with the handlers it has.
LEMMA BranchSInv ==
  ASSUME SInv, ProgramScoped(prog), Branch
  PROVE  SInv'
<1>1. PICK cut, own : Shared(prog, frames, handlers, cut, own)
  BY InvFacts
<1> DEFINE s == Labels(handlers, 0, cut[1])
<1>2. /\ frames[1].fn \in DOMAIN Scopes(prog)
      /\ InstrScoped(DOMAIN Scopes(prog), Fn, Scopes(prog)[frames[1].fn], frames[1].block, frames[1].pc, s)
  BY <1>1, TopScoped
<1> HIDE DEF s
<1>5. Instr = Fn.blocks[frames[1].block].instrs[frames[1].pc] /\ Fn = Code(prog)[frames[1].fn]
  BY InvFacts DEF Instr, Fn
<1>6. PICK l : GoTo(l) /\ Enters(Fn, Scopes(prog)[frames[1].fn], l, s)
  <2>1. Instr.op \in {"jump", "branch_if", "branch_iter_has_next"}
    BY DEF Branch, At
  <2>2. CASE Instr.op = "jump"
    <3>1. GoTo(Instr.target)
      BY <2>2 DEF Branch
    <3>2. Enters(Fn, Scopes(prog)[frames[1].fn], Instr.target, s)
      BY <2>2, <1>2, <1>5 DEF InstrScoped
    <3> QED
      BY <3>1, <3>2
  <2>3. CASE Instr.op \in {"branch_if", "branch_iter_has_next"}
    <3>1. GoTo(Instr.then) \/ GoTo(Instr.else)
      BY <2>3 DEF Branch
    <3>2. /\ Enters(Fn, Scopes(prog)[frames[1].fn], Instr.then, s)
          /\ Enters(Fn, Scopes(prog)[frames[1].fn], Instr.else, s)
      BY <2>3, <1>2, <1>5 DEF InstrScoped
    <3> QED
      BY <3>1, <3>2
  <2> QED
    BY <2>1, <2>2, <2>3
<1>8. /\ IsSeq(frames') /\ Len(frames') = Len(frames) /\ \A j \in 2..Len(frames) : frames'[j] = frames[j]
      /\ IsFrame(frames'[1]) /\ frames'[1].id = frames[1].id /\ frames'[1].fn = frames[1].fn
      /\ frames'[1].block = BlockOf(Fn, l) /\ frames'[1].pc = 1
  BY <1>6, GoToTop
<1>9. Placed(prog, frames'[1], s)
  BY <1>2, <1>5, <1>6, <1>8, EntersPlaced
<1>10. UNCHANGED <<prog, nextId, handlers>> /\ mode' # "ok"
  BY DEF Branch, At, Locally
<1> QED
  BY <1>1, <1>8, <1>9, <1>10, KeepSInv DEF s

\* The part of the first handler is the first that is not empty.
LEMMA FirstOwner ==
  ASSUME NEW n \in Nat \ {0}, NEW m \in Nat \ {0}, NEW cut, NEW own, Divides(n, m, cut, own),
         NEW i, i = own[1]
  PROVE  i \in 1..n /\ cut[i - 1] = 0 /\ cut[i] \in 1..m
<1>1. 1 \in 1..m /\ own[1] \in 1..n
  BY DEF Divides
<1>2. cut[i - 1] < 1 /\ 1 <= cut[i]
  BY <1>1 DEF Divides
<1>3. i \in 1..n /\ i - 1 \in 0..n /\ i \in 0..n
  BY <1>1
<1>4. cut[i - 1] \in 0..m /\ cut[i] \in 0..m
  BY <1>3 DEF Divides
<1> QED
  BY <1>2, <1>3, <1>4

\* An exception goes to the block of the last handler, in the activation that
\* pushed it, and that handler is gone.
LEMMA RaisesSInv ==
  ASSUME SInv, ProgramScoped(prog), Raises
  PROVE  SInv'
<1>1. CASE handlers = <<>>
  <2>1. Stays
    BY <1>1 DEF Raises, RaiseException, Stays
  <2> QED
    BY <2>1, StaysSInv
<1>2. CASE handlers # <<>>
  <2>1. PICK cut, own : Shared(prog, frames, handlers, cut, own)
    BY InvFacts
  <2>2. Len(handlers) \in Nat \ {0} /\ Head(handlers) = handlers[1]
    BY <1>2, InvFacts, SeqFacts
  <2>3. PICK i : i = own[1]
    OBVIOUS
  <2>4. i \in 1..Len(frames) /\ cut[i - 1] = 0 /\ cut[i] \in 1..Len(handlers)
    <3>1. Divides(Len(frames), Len(handlers), cut, own)
      BY <2>1 DEF Shared
    <3> QED
      BY <3>1, <2>2, <2>3, InvFacts, FirstOwner
  <2>5. PICK f : f = frames[i]
    OBVIOUS
  <2>6. f.id = handlers[1].id
    <3>1. 1 \in 1..Len(handlers)
      BY <2>2
    <3> QED
      BY <3>1, <2>1, <2>3, <2>5 DEF Shared
  <2>7. {j \in DOMAIN frames : frames[j].id = handlers[1].id} = {i}
    <3>1. DOMAIN frames = 1..Len(frames)
      BY InvFacts, SeqFacts
    <3>2. i \in 1..Len(frames) /\ frames[i].id = handlers[1].id
      BY <2>4, <2>5, <2>6
    <3>3. ASSUME NEW j \in 1..Len(frames), j # i PROVE frames[j].id # frames[i].id
      <4>1. i \in 1..Len(frames) /\ Len(frames) \in Nat /\ Numbered(frames, nextId)
        BY <2>4, InvFacts
      <4>2. j < i \/ i < j
        BY <3>3, <4>1
      <4>3. frames[j].id > frames[i].id \/ frames[i].id > frames[j].id
        BY <4>1, <4>2 DEF Numbered
      <4>4. frames[i].id \in Nat /\ frames[j].id \in Nat
        BY <4>1 DEF Numbered
      <4> QED
        BY <4>3, <4>4
    <3> QED
      BY <3>1, <3>2, <3>3
  <2> DEFINE b == BlockOf(Code(prog)[f.fn], handlers[1].label)
  <2>8. PICK g : g = [f EXCEPT !.block = b, !.pc = 1]
    OBVIOUS
  <2>9. /\ handlers' = Tail(handlers) /\ mode' = mode
        /\ frames' = <<g>> \o SubSeq(frames, i + 1, Len(frames))
    <3>1. (CHOOSE k \in {i} : TRUE) = i
      OBVIOUS
    <3>2. {i} # {}
      OBVIOUS
    <3> QED
      BY <1>2, <2>2, <2>5, <2>7, <2>8, <3>1, <3>2 DEF Raises, RaiseException
  <2>10. IsFrame(g) /\ g.id = f.id /\ g.fn = f.fn /\ g.block = b /\ g.pc = 1
    <3>1. IsFrame(f)
      BY <2>4, <2>5, InvFacts DEF Numbered
    <3> QED
      BY <2>8, <3>1 DEF IsFrame
  <2>11. /\ IsSeq(frames') /\ Len(frames') = Len(frames) - i + 1 /\ frames'[1] = g
         /\ \A k \in 2..(Len(frames) - i + 1) : frames'[k] = frames[i + k - 1]
    <3>1. PICK fs : fs = <<g>> \o SubSeq(frames, i + 1, Len(frames))
      OBVIOUS
    <3>2. /\ IsSeq(fs) /\ Len(fs) = Len(frames) - i + 1 /\ fs[1] = g
          /\ \A k \in 2..(Len(frames) - i + 1) : fs[k] = frames[i + k - 1]
      <4>1. IsSeq(frames) /\ i \in 1..Len(frames)
        BY <2>4, InvFacts
      <4>2. /\ IsSeq(<<g>> \o SubSeq(frames, i + 1, Len(frames)))
            /\ Len(<<g>> \o SubSeq(frames, i + 1, Len(frames))) = Len(frames) - i + 1
            /\ (<<g>> \o SubSeq(frames, i + 1, Len(frames)))[1] = g
            /\ \A k \in 2..(Len(frames) - i + 1) :
                 (<<g>> \o SubSeq(frames, i + 1, Len(frames)))[k] = frames[i + k - 1]
        BY <4>1, RestFacts
      <4> QED
        BY <4>1, <4>2, <3>1
    <3> QED
      BY <2>9, <3>1, <3>2
  <2>12. /\ Labels(handlers, 0, cut[i]) # <<>>
         /\ Head(Labels(handlers, 0, cut[i])) = handlers[1].label
    BY <2>4, InvFacts, LabelsPopped
  <2>13. Placed(prog, f, Labels(handlers, 0, cut[i]))
    <3>1. Placed(prog, f, Labels(handlers, cut[i - 1], cut[i]))
      BY <2>1, <2>4, <2>5 DEF Shared
    <3> QED
      BY <3>1, <2>4
  <2>14. PICK t : t = Tail(Labels(handlers, 0, cut[i]))
    OBVIOUS
  <2>15. Placed(prog, g, t)
    <3>1. Enters(Code(prog)[f.fn], Scopes(prog)[f.fn], handlers[1].label, t)
      BY <2>12, <2>13, <2>14, PositionScoped DEF InstrScoped
    <3>2. f.fn \in DOMAIN Scopes(prog)
      BY <2>13 DEF Placed
    <3> QED
      BY <3>1, <3>2, <2>10, EntersPlaced
  <2>16. Partitioned(prog, frames', handlers')
    <3>1. /\ Shared(prog, frames, handlers, cut, own) /\ Len(frames) \in Nat \ {0}
          /\ IsSeq(handlers) /\ handlers # <<>> /\ i = own[1]
          /\ Len(frames') = Len(frames) - i + 1 /\ frames'[1].id = frames[i].id
          /\ \A j \in 2..Len(frames') : frames'[j] = frames[i + j - 1]
          /\ t = Tail(Labels(handlers, 0, cut[i])) /\ Placed(prog, frames'[1], t)
      BY <1>2, <2>1, <2>3, <2>5, <2>10, <2>11, <2>14, <2>15, InvFacts
    <3>2. Partitioned(prog, frames', Tail(handlers))
      BY <3>1, DropPart
    <3> QED
      BY <3>2, <2>9
  <2>17. Numbered(frames', nextId)
    <3>1. IsFrame(frames'[1]) /\ frames'[1].id = frames[i].id
      BY <2>5, <2>10, <2>11
    <3> QED
      BY <3>1, <2>4, <2>11, InvFacts, DropNumbered
  <2>18. IsSeq(handlers') /\ prog' = prog /\ nextId' = nextId /\ mode' # "ok"
    BY <1>2, <2>9, InvFacts, TailFacts DEF Raises
  <2>19. Len(frames') \in Nat \ {0}
    BY <2>4, <2>11, InvFacts
  <2> QED
    BY <2>11, <2>16, <2>17, <2>18, <2>19 DEF SInv, IInv
<1> QED
  BY <1>1, <1>2

\* push_handler puts a handler before those of its activation, or there is no room and it raises.
LEMMA PushSInv ==
  ASSUME SInv, ProgramScoped(prog), PushHandler
  PROVE  SInv'
<1>0. mode = "run" /\ Instr.op = "push_handler"
  BY DEF PushHandler, At
<1>1. CASE Len(handlers) >= MaxTries
  <2>1. Raises
    BY <1>0, <1>1 DEF PushHandler, Panic, Raises
  <2> QED
    BY <2>1, RaisesSInv
<1>2. CASE ~(Len(handlers) >= MaxTries)
  <2>1. PICK cut, own : Shared(prog, frames, handlers, cut, own)
    BY InvFacts
  <2>2. PICK h : h = [id |-> frames[1].id, label |-> Instr.target]
    OBVIOUS
  <2>3. h.id = frames[1].id /\ h.label = Instr.target
    BY <2>2
  <2>4. handlers' = <<h>> \o handlers /\ Advance(Local) /\ UNCHANGED <<prog, nextId, mode>>
    BY <1>2, <2>2, InvFacts DEF PushHandler
  <2>5. /\ IsSeq(frames') /\ Len(frames') = Len(frames) /\ \A j \in 2..Len(frames) : frames'[j] = frames[j]
        /\ IsFrame(frames'[1]) /\ frames'[1].id = frames[1].id /\ frames'[1].fn = frames[1].fn
        /\ frames'[1].block = frames[1].block /\ frames'[1].pc = frames[1].pc + 1
    BY <2>4, AdvanceTop
  <2>6. PICK t : t = <<h.label>> \o Labels(handlers, 0, cut[1])
    OBVIOUS
  <2>7. Instr = Fn.blocks[frames[1].block].instrs[frames[1].pc] /\ Fn = Code(prog)[frames[1].fn]
    BY InvFacts DEF Instr, Fn
  <2>8. Placed(prog, frames'[1], t)
    <3> DEFINE s == Labels(handlers, 0, cut[1])
    <3>1. /\ frames[1].fn \in DOMAIN Scopes(prog)
          /\ InstrScoped(DOMAIN Scopes(prog), Fn, Scopes(prog)[frames[1].fn], frames[1].block, frames[1].pc, s)
      BY <2>1, TopScoped
    <3>2. t = <<Instr.target>> \o s
      BY <2>3, <2>6
    <3> HIDE DEF s
    <3>3. Reaches(Fn, Scopes(prog)[frames[1].fn], frames[1].block, frames[1].pc + 1, t)
      BY <1>0, <2>7, <3>1, <3>2 DEF InstrScoped
    <3> QED
      BY <2>5, <2>7, <3>1, <3>3 DEF Placed
  <2>9. Partitioned(prog, frames', handlers')
    <3>1. /\ Shared(prog, frames, handlers, cut, own) /\ Len(frames) \in Nat \ {0} /\ IsSeq(handlers)
          /\ Len(frames') = Len(frames) /\ frames'[1].id = frames[1].id
          /\ \A j \in 2..Len(frames) : frames'[j] = frames[j]
          /\ h.id = frames[1].id
          /\ t = <<h.label>> \o Labels(handlers, 0, cut[1]) /\ Placed(prog, frames'[1], t)
      BY <2>1, <2>3, <2>5, <2>6, <2>8, InvFacts
    <3>2. Partitioned(prog, frames', <<h>> \o handlers)
      BY <3>1, PushPart
    <3> QED
      BY <3>2, <2>4
  <2>10. Numbered(frames', nextId)
    <3>1. 1 \in 1..Len(frames) /\ Len(frames) - 1 + 1 = Len(frames) /\ \A j \in 2..Len(frames) : 1 + j - 1 = j
      BY InvFacts
    <3>2. \A j \in 2..Len(frames') : frames'[j] = frames[1 + j - 1]
      BY <2>5, <3>1
    <3> QED
      BY <2>5, <3>1, <3>2, InvFacts, DropNumbered
  <2>11. IsSeq(handlers')
    BY <2>4, InvFacts, ConsFacts
  <2> QED
    BY <1>0, <2>4, <2>5, <2>9, <2>10, <2>11, InvFacts DEF SInv, IInv
<1> QED
  BY <1>1, <1>2

\* pop_handler takes off one of its own activation's: the last one is the activation's when it
\* has any.
LEMMA PopSInv ==
  ASSUME SInv, ProgramScoped(prog), PopHandler
  PROVE  SInv'
<1>0. mode = "run" /\ Instr.op = "pop_handler"
  BY DEF PopHandler, At
<1>1. PICK cut, own : Shared(prog, frames, handlers, cut, own)
  BY InvFacts
<1>2. PICK s : s = Labels(handlers, 0, cut[1])
  OBVIOUS
<1>3. Instr = Fn.blocks[frames[1].block].instrs[frames[1].pc] /\ Fn = Code(prog)[frames[1].fn]
  BY InvFacts DEF Instr, Fn
<1>4. /\ frames[1].fn \in DOMAIN Scopes(prog)
      /\ InstrScoped(DOMAIN Scopes(prog), Fn, Scopes(prog)[frames[1].fn], frames[1].block, frames[1].pc, s)
      /\ cut[1] \in 0..Len(handlers)
  BY <1>1, <1>2, TopScoped
<1>5. s # <<>> /\ Reaches(Fn, Scopes(prog)[frames[1].fn], frames[1].block, frames[1].pc + 1, Tail(s))
  BY <1>0, <1>3, <1>4 DEF InstrScoped
\* So the innermost activation has a handler, and the last handler is its own.
<1>6. cut[1] \in 1..Len(handlers)
  <2>1. Labels(handlers, 0, 0) = <<>>
    BY LabelsFacts, SeqFacts
  <2>2. cut[1] # 0
    BY <1>2, <1>5, <2>1
  <2> QED
    BY <1>4, <2>2, InvFacts
<1>7. handlers # <<>> /\ Len(handlers) \in Nat \ {0}
  BY <1>6, InvFacts, SeqFacts
<1>8. own[1] = 1
  <2>1. PICK w : w = own[1]
    OBVIOUS
  <2>2. Divides(Len(frames), Len(handlers), cut, own)
    BY <1>1 DEF Shared
  <2>3. w \in 1..Len(frames) /\ cut[w - 1] = 0
    BY <1>7, <2>1, <2>2, InvFacts, FirstOwner
  <2>4. ASSUME w # 1 PROVE FALSE
    <3>1. w - 1 \in 0..Len(frames) /\ 1 \in 0..Len(frames) /\ 1 <= w - 1
      BY <2>3, <2>4, InvFacts
    <3>2. cut[1] <= cut[w - 1]
      BY <2>2, <3>1 DEF Divides
    <3> QED
      BY <1>6, <2>3, <3>2
  <2> QED
    BY <2>1, <2>4
<1>9. handlers' = Tail(handlers) /\ Advance(Local) /\ UNCHANGED <<prog, nextId, mode>>
  BY <1>7 DEF PopHandler
<1>10. /\ IsSeq(frames') /\ Len(frames') = Len(frames) /\ \A j \in 2..Len(frames) : frames'[j] = frames[j]
       /\ IsFrame(frames'[1]) /\ frames'[1].id = frames[1].id /\ frames'[1].fn = frames[1].fn
       /\ frames'[1].block = frames[1].block /\ frames'[1].pc = frames[1].pc + 1
  BY <1>9, AdvanceTop
<1>11. PICK t : t = Tail(s)
  OBVIOUS
<1>12. Placed(prog, frames'[1], t)
  BY <1>3, <1>4, <1>5, <1>10, <1>11 DEF Placed
<1>13. 1 \in 1..Len(frames) /\ Len(frames) - 1 + 1 = Len(frames) /\ \A j \in 2..Len(frames) : 1 + j - 1 = j
  BY InvFacts
<1>14. \A j \in 2..Len(frames') : frames'[j] = frames[1 + j - 1]
  BY <1>10, <1>13
<1>15. Partitioned(prog, frames', handlers')
  <2>1. /\ Shared(prog, frames, handlers, cut, own) /\ Len(frames) \in Nat \ {0}
        /\ IsSeq(handlers) /\ handlers # <<>> /\ 1 = own[1]
        /\ Len(frames') = Len(frames) - 1 + 1 /\ frames'[1].id = frames[1].id
        /\ \A j \in 2..Len(frames') : frames'[j] = frames[1 + j - 1]
        /\ t = Tail(Labels(handlers, 0, cut[1])) /\ Placed(prog, frames'[1], t)
    BY <1>1, <1>2, <1>7, <1>8, <1>10, <1>11, <1>12, <1>13, <1>14, InvFacts
  <2>2. Partitioned(prog, frames', Tail(handlers))
    BY <2>1, DropPart
  <2> QED
    BY <2>2, <1>9
<1>16. Numbered(frames', nextId)
  BY <1>10, <1>13, <1>14, InvFacts, DropNumbered
<1>17. IsSeq(handlers')
  BY <1>7, <1>9, InvFacts, TailFacts
<1> QED
  BY <1>0, <1>9, <1>10, <1>15, <1>16, <1>17, InvFacts DEF SInv, IInv

\* A call begins with no handler of its own; the caller waits at its next
\* instruction with those it has.
LEMMA CallSInv ==
  ASSUME SInv, ProgramScoped(prog), CallStatic
  PROVE  SInv'
<1>0. mode = "run" /\ Instr.op = "call_static"
  BY DEF CallStatic, At
<1>1. PICK cut, own : Shared(prog, frames, handlers, cut, own)
  BY InvFacts
<1>2. PICK s : s = Labels(handlers, 0, cut[1])
  OBVIOUS
<1>3. Instr = Fn.blocks[frames[1].block].instrs[frames[1].pc] /\ Fn = Code(prog)[frames[1].fn]
  BY InvFacts DEF Instr, Fn
<1>4. /\ frames[1].fn \in DOMAIN Scopes(prog)
      /\ InstrScoped(DOMAIN Scopes(prog), Fn, Scopes(prog)[frames[1].fn], frames[1].block, frames[1].pc, s)
  BY <1>1, <1>2, TopScoped
<1>5. /\ Instr.callee \in DOMAIN Scopes(prog)
      /\ Reaches(Fn, Scopes(prog)[frames[1].fn], frames[1].block, frames[1].pc + 1, s)
  BY <1>0, <1>3, <1>4 DEF InstrScoped, Ends
<1>6. PICK new : new = NewFrame(Instr.callee, nextId, [j \in DOMAIN Instr.args |-> Local[Instr.args[j]]], Instr.dst)
  OBVIOUS
<1>7. /\ IsFrame(new) /\ new.fn = Instr.callee /\ new.id = nextId
      /\ new.block = 1 /\ new.pc = 1
  BY <1>6 DEF NewFrame, IsFrame
<1>8. PICK g : g = [frames[1] EXCEPT !.pc = @ + 1]
  OBVIOUS
<1>9. IsFrame(g) /\ g.id = frames[1].id /\ g.fn = frames[1].fn /\ g.block = frames[1].block /\ g.pc = frames[1].pc + 1
  BY <1>8, InvFacts DEF IsFrame
<1>10. PICK gs : gs = [frames EXCEPT ![1] = g]
  OBVIOUS
<1>11. frames' = <<new>> \o gs /\ nextId' = nextId + 1 /\ UNCHANGED <<prog, handlers, mode>>
  BY <1>6, <1>8, <1>10 DEF CallStatic
<1>12. /\ IsSeq(gs) /\ Len(gs) = Len(frames) /\ gs[1] = g
       /\ \A k \in 2..Len(frames) : gs[k] = frames[k]
  <2>1. /\ IsSeq([frames EXCEPT ![1] = g]) /\ Len([frames EXCEPT ![1] = g]) = Len(frames)
        /\ [frames EXCEPT ![1] = g][1] = g
        /\ \A k \in 2..Len(frames) : [frames EXCEPT ![1] = g][k] = frames[k]
    BY InvFacts, FirstFacts
  <2> QED
    BY <1>10, <2>1
<1>13. /\ IsSeq(frames') /\ Len(frames') = Len(frames) + 1 /\ frames'[1] = new /\ frames'[2] = g
       /\ \A j \in 2..Len(frames) : frames'[j + 1] = frames[j]
  <2>1. /\ IsSeq(<<new>> \o gs) /\ Len(<<new>> \o gs) = Len(gs) + 1 /\ (<<new>> \o gs)[1] = new
        /\ \A k \in 1..Len(gs) : (<<new>> \o gs)[k + 1] = gs[k]
    BY <1>12, ConsFacts
  <2>2. 1 \in 1..Len(gs) /\ 1 + 1 = 2 /\ \A j \in 2..Len(frames) : j \in 1..Len(gs)
    BY <1>12, InvFacts
  <2> QED
    BY <1>11, <1>12, <2>1, <2>2
<1>14. Placed(prog, new, <<>>)
  <2>1. FunctionScoped(DOMAIN Scopes(prog), Code(prog)[new.fn], Scopes(prog)[new.fn]) /\ new.fn \in DOMAIN Scopes(prog)
    BY <1>5, <1>7 DEF ProgramScoped
  <2> QED
    BY <1>7, <2>1 DEF FunctionScoped, Placed
<1>15. Placed(prog, g, s)
  BY <1>3, <1>4, <1>5, <1>9 DEF Placed
<1>16. Partitioned(prog, frames', handlers)
  <2>1. /\ Shared(prog, frames, handlers, cut, own) /\ Len(frames) \in Nat \ {0} /\ IsSeq(handlers)
        /\ Len(frames') = Len(frames) + 1 /\ frames'[2].id = frames[1].id
        /\ \A j \in 2..Len(frames) : frames'[j + 1] = frames[j]
        /\ Placed(prog, frames'[1], <<>>)
        /\ s = Labels(handlers, 0, cut[1]) /\ Placed(prog, frames'[2], s)
    BY <1>1, <1>2, <1>9, <1>13, <1>14, <1>15, InvFacts
  <2> QED
    BY <2>1, CallPart
<1>17. Numbered(frames', nextId + 1)
  <2>1. /\ Numbered(frames, nextId) /\ Len(frames) \in Nat \ {0}
        /\ Len(frames') = Len(frames) + 1
        /\ IsFrame(frames'[1]) /\ frames'[1].id = nextId
        /\ IsFrame(frames'[2]) /\ frames'[2].id = frames[1].id
        /\ \A j \in 2..Len(frames) : frames'[j + 1] = frames[j]
    BY <1>7, <1>9, <1>13, InvFacts
  <2> QED
    BY <2>1, CallNumbered
<1>18. Len(frames') \in Nat \ {0}
  BY <1>13, InvFacts
<1> QED
  BY <1>0, <1>11, <1>13, <1>16, <1>17, <1>18, InvFacts DEF SInv, IInv

\* An activation has no handler left when it returns, so that the caller's
\* come first; the program's own return leaves none.
LEMMA ReturnSInv ==
  ASSUME SInv, ProgramScoped(prog), Return
  PROVE  SInv'
<1>0. mode = "run" /\ Instr.op \in {"ret", "ret_void", "default_return"}
  BY DEF Return, At
<1>1. PICK cut, own : Shared(prog, frames, handlers, cut, own)
  BY InvFacts
<1>2. PICK s : s = Labels(handlers, 0, cut[1])
  OBVIOUS
<1>3. Instr = Fn.blocks[frames[1].block].instrs[frames[1].pc] /\ Fn = Code(prog)[frames[1].fn]
  BY InvFacts DEF Instr, Fn
<1>4. /\ InstrScoped(DOMAIN Scopes(prog), Fn, Scopes(prog)[frames[1].fn], frames[1].block, frames[1].pc, s)
      /\ cut[1] \in 0..Len(handlers)
  BY <1>1, <1>2, TopScoped
<1>5. s = <<>>
  BY <1>0, <1>3, <1>4 DEF InstrScoped
<1>6. cut[1] = 0
  <2>1. cut[1] \in Nat
    BY <1>4, InvFacts
  <2>2. Len(s) = cut[1] /\ IsSeq(s)
    BY <1>2, <2>1, LabelsFacts
  <2> QED
    BY <1>5, <2>2, SeqFacts
<1>7. CASE Len(frames) = 1
  <2>1. mode' = "ok" /\ UNCHANGED <<prog, frames, nextId, handlers>>
    BY <1>7 DEF Return
  <2>2. Len(handlers) = 0
    <3>1. cut[Len(frames)] = Len(handlers)
      BY <1>1 DEF Shared, Divides
    <3> QED
      BY <1>6, <1>7, <3>1
  <2>3. handlers = <<>>
    BY <2>2, InvFacts, SeqFacts
  <2>4. Partitioned(prog', frames', handlers') /\ Numbered(frames', nextId') /\ Len(frames') \in Nat \ {0}
    BY <2>1 DEF SInv, IInv
  <2> QED
    BY <2>1, <2>3, <2>4 DEF SInv, IInv
<1>8. CASE Len(frames) # 1
  <2> DEFINE result == IF Instr.op = "ret" THEN Local[Instr.value] ELSE Value("null", 0)
  <2>0. frames' = [Tail(frames) EXCEPT ![1].env = Set(@, Head(frames).dst, result)]
    BY <1>8 DEF Return
  <2> HIDE DEF result
  <2>1. PICK v : frames' = [Tail(frames) EXCEPT ![1].env = Set(@, Head(frames).dst, v)]
    BY <2>0
  <2>2. UNCHANGED <<prog, nextId, handlers, mode>>
    BY <1>8 DEF Return
  <2>3. Len(frames) \in Nat /\ Len(frames) > 1
    <3>1. PICK n : n = Len(frames)
      OBVIOUS
    <3>2. n \in Nat \ {0} /\ n # 1
      BY <1>8, <3>1, InvFacts
    <3>3. n > 1
      BY <3>2
    <3> QED
      BY <3>1, <3>2, <3>3
  <2>4. PICK rest : rest = Tail(frames)
    OBVIOUS
  <2>5. /\ IsSeq(rest) /\ Len(rest) = Len(frames) - 1
        /\ \A k \in 1..(Len(frames) - 1) : rest[k] = frames[k + 1]
    BY <2>4, InvFacts, TailFacts
  <2>6. rest # <<>> /\ 1 \in DOMAIN rest /\ rest[1] = frames[2]
    <3>1. 1 \in 1..Len(rest) /\ 1 + 1 = 2
      BY <2>3, <2>5
    <3> QED
      BY <2>5, <3>1, SeqFacts
  <2>7. IsFrame(frames[2])
    <3>1. 2 \in 1..Len(frames)
      BY <2>3
    <3> QED
      BY <3>1, InvFacts DEF Numbered
  <2>8. PICK g : g = [rest[1] EXCEPT !.env = Set(@, Head(frames).dst, v)]
    OBVIOUS
  <2>9. IsFrame(g) /\ g.id = frames[2].id /\ g.fn = frames[2].fn /\ g.block = frames[2].block /\ g.pc = frames[2].pc
    BY <2>6, <2>7, <2>8 DEF IsFrame
  <2>10. frames' = [rest EXCEPT ![1] = g]
    BY <2>1, <2>4, <2>8
  <2>11. /\ IsSeq([rest EXCEPT ![1] = g]) /\ Len([rest EXCEPT ![1] = g]) = Len(rest)
         /\ [rest EXCEPT ![1] = g][1] = g
         /\ \A k \in 2..Len(rest) : [rest EXCEPT ![1] = g][k] = rest[k]
    BY <2>5, <2>6, FirstFacts
  <2>12. /\ IsSeq(frames') /\ Len(frames') = Len(frames) - 1 /\ frames'[1] = g
         /\ \A k \in 2..Len(rest) : frames'[k] = rest[k]
    BY <2>5, <2>10, <2>11
  <2>13. \A k \in 2..Len(frames') : frames'[k] = frames[k + 1]
    <3>1. \A k \in 2..Len(frames') : k \in 2..Len(rest) /\ k \in 1..(Len(frames) - 1)
      BY <2>3, <2>5, <2>12
    <3> QED
      BY <2>5, <2>12, <3>1
  <2>14. PICK t : t = Labels(handlers, cut[1], cut[2])
    OBVIOUS
  <2>15. Placed(prog, frames[2], t)
    <3>1. 2 \in 1..Len(frames) /\ 2 - 1 = 1
      BY <2>3
    <3>2. Placed(prog, frames[2], Labels(handlers, cut[2 - 1], cut[2]))
      BY <1>1, <3>1 DEF Shared
    <3> QED
      BY <2>14, <3>1, <3>2
  <2>16. Placed(prog, g, t)
    BY <2>9, <2>15 DEF Placed
  <2>17. Partitioned(prog, frames', handlers)
    <3>1. /\ Shared(prog, frames, handlers, cut, own) /\ Len(frames) \in Nat \ {0} /\ Len(frames) > 1 /\ IsSeq(handlers)
          /\ cut[1] = 0
          /\ Len(frames') = Len(frames) - 1 /\ frames'[1].id = frames[2].id
          /\ \A j \in 2..Len(frames') : frames'[j] = frames[j + 1]
          /\ t = Labels(handlers, cut[1], cut[2]) /\ Placed(prog, frames'[1], t)
      BY <1>1, <1>6, <2>3, <2>9, <2>12, <2>13, <2>14, <2>16, InvFacts
    <3> QED
      BY <3>1, ReturnPart
  <2>18. Numbered(frames', nextId)
    <3>1. 2 \in 1..Len(frames) /\ Len(frames') = Len(frames) - 2 + 1
      BY <2>3, <2>12
    <3>2. \A j \in 2..Len(frames') : frames'[j] = frames[2 + j - 1]
      <4>1. \A j \in 2..Len(frames') : 2 + j - 1 = j + 1
        OBVIOUS
      <4> QED
        BY <2>13, <4>1
    <3>3. IsFrame(frames'[1]) /\ frames'[1].id = frames[2].id
      BY <2>9, <2>12
    <3> QED
      BY <3>1, <3>2, <3>3, InvFacts, DropNumbered
  <2>19. Len(frames') \in Nat \ {0}
    <3>1. PICK n \in Nat : n = Len(frames) /\ n > 1
      BY <2>3
    <3>2. Len(frames') = n - 1
      BY <2>12, <3>1
    <3> QED
      BY <3>1, <3>2
  <2>20. Partitioned(prog', frames', handlers') /\ Numbered(frames', nextId') /\ mode' # "ok"
    <3>1. prog' = prog /\ handlers' = handlers /\ nextId' = nextId /\ mode' = mode
      BY <2>2
    <3>2. Partitioned(prog', frames', handlers')
      BY <2>17, <3>1
    <3>3. Numbered(frames', nextId')
      BY <2>18, <3>1
    <3> QED
      BY <1>0, <3>1, <3>2, <3>3
  <2>21. IsSeq(frames') /\ IsSeq(handlers')
    BY <2>2, <2>12, InvFacts
  <2> QED
    BY <2>19, <2>20, <2>21 DEF SInv, IInv
<1> QED
  BY <1>7, <1>8

\* Only a program that runs takes a step.
LEMMA NextRuns ==
  ASSUME Next
  PROVE  mode = "run"
BY DEF Next, At, IsList, UseUndefined, ConstInstr, Nothing, Copying, CheckArith, BinOp, UnaryOp,
       Select, PrintValue, Branch, CallStatic, Return, PushHandler, PopHandler, GetException,
       ExceptionIs, Throw, MakeList, Push, Pop, Reorder, ListContains, LengthOrNone, CheckBounds,
       MakeView, IndexGet, IndexSet, IterBegin, IterNext, MakeObject, MemberGet, MemberSet

\* Every step of a scoped program keeps the inductive invariant.
LEMMA NextSInv ==
  ASSUME SInv, ProgramScoped(prog), [Next]_vars
  PROVE  SInv'
<1>1. CASE Next
  <2>1. CASE Plain
    BY <1>1, <2>1, NextRuns, StaysSInv, MovesSInv, RaisesSInv DEF Plain
  <2> QED
    BY <1>1, <2>1, StepKinds, BranchSInv, CallSInv, ReturnSInv, PushSInv, PopSInv
<1>2. CASE UNCHANGED vars
  <2>1. IsSeq(frames') /\ IsSeq(handlers')
    BY <1>2, InvFacts DEF vars
  <2>2. IInv'
    BY <1>2 DEF vars, SInv, IInv
  <2> QED
    BY <2>1, <2>2 DEF SInv
<1> QED
  BY <1>1, <1>2

\* The parts say where each handler's activation is, and the inner ones come first.
LEMMA PartsLive ==
  ASSUME SInv
  PROVE  BuffersAreLive
<1>1. PICK cut, own : Shared(prog, frames, handlers, cut, own)
  BY InvFacts
<1>2. Divides(Len(frames), Len(handlers), cut, own)
  BY <1>1 DEF Shared
<1>3. DOMAIN frames = 1..Len(frames) /\ DOMAIN handlers = 1..Len(handlers)
      /\ Len(frames) \in Nat /\ Len(handlers) \in Nat
  BY InvFacts, SeqFacts
<1>4. own \in [DOMAIN handlers -> DOMAIN frames]
  BY <1>2, <1>3 DEF Divides
<1>5. \A h \in DOMAIN handlers : frames[own[h]].id = handlers[h].id
  BY <1>1, <1>3 DEF Shared
<1>6. ASSUME NEW g \in DOMAIN handlers, NEW h \in DOMAIN handlers, g < h PROVE own[g] <= own[h]
  <2>1. PICK a, b : a = own[g] /\ b = own[h]
    OBVIOUS
  <2>2. a \in 1..Len(frames) /\ b \in 1..Len(frames)
    BY <1>3, <1>4, <2>1
  <2>3. cut[a - 1] < g /\ h <= cut[b]
    BY <1>2, <1>3, <2>1 DEF Divides
  <2>4. ASSUME b < a PROVE FALSE
    <3>1. b \in 0..Len(frames) /\ a - 1 \in 0..Len(frames) /\ b <= a - 1
      BY <1>3, <2>2, <2>4
    <3>2. cut[b] <= cut[a - 1] /\ cut[b] \in 0..Len(handlers) /\ cut[a - 1] \in 0..Len(handlers)
      BY <1>2, <3>1 DEF Divides
    <3>3. PICK x, y : x = cut[b] /\ y = cut[a - 1]
      OBVIOUS
    <3>4. x <= y /\ x \in Nat /\ y \in Nat /\ y < g /\ h <= x /\ g < h /\ g \in Nat /\ h \in Nat
      BY <1>3, <1>6, <2>3, <3>2, <3>3
    <3> QED
      BY <3>4
  <2>5. a <= b
    BY <1>3, <2>2, <2>4
  <2> QED
    BY <2>1, <2>5
<1>7. mode = "ok" => handlers = <<>>
  BY DEF SInv, IInv
<1> QED
  BY <1>4, <1>5, <1>6, <1>7 DEF BuffersAreLive

\* The program that runs stays the one that runs.
LEMMA ProgramKept ==
  ASSUME [Next]_vars
  PROVE  ProgramScoped(prog)' <=> ProgramScoped(prog)
<1>1. prog' = prog
  <2>1. CASE UNCHANGED vars
    BY <2>1 DEF vars
  <2>2. CASE Plain
    BY <2>2 DEF Plain, Stays, Moves, Raises
  <2>3. CASE Branch
    BY <2>3 DEF Branch, Locally
  <2>4. CASE CallStatic
    BY <2>4 DEF CallStatic
  <2>5. CASE Return
    BY <2>5 DEF Return
  <2>6. CASE PushHandler
    BY <2>6 DEF PushHandler, Panic
  <2>7. CASE PopHandler
    BY <2>7 DEF PopHandler
  <2> QED
    BY <2>1, <2>2, <2>3, <2>4, <2>5, <2>6, <2>7, StepKinds
<1> QED
  BY <1>1 DEF ProgramScoped

\* Whatever the program, if its code keeps to some scopes, then in every state
\* the handlers fall into parts, one for each activation.
THEOREM ScopedInvariant == Spec => [](ProgramScoped(prog) => IInv)
<1>1. Init => (ProgramScoped(prog) => SInv)
  BY InitSInv
<1>2. (ProgramScoped(prog) => SInv) /\ [Next]_vars => (ProgramScoped(prog) => SInv)'
  BY NextSInv, ProgramKept
<1>3. (ProgramScoped(prog) => SInv) => (ProgramScoped(prog) => IInv)
  BY DEF SInv
<1> QED
  BY <1>1, <1>2, <1>3, PTL DEF Spec

\* And so every jump buffer on ps_try_stack is of an activation that has not
\* returned, inner ones of inner activations, and none is left at the end.
THEOREM ScopedHandlersAreLive == Spec => []HandlersAreLive
<1>1. Init => (ProgramScoped(prog) => SInv)
  BY InitSInv
<1>2. (ProgramScoped(prog) => SInv) /\ [Next]_vars => (ProgramScoped(prog) => SInv)'
  BY NextSInv, ProgramKept
<1>3. (ProgramScoped(prog) => SInv) => HandlersAreLive
  BY PartsLive DEF HandlersAreLive
<1> QED
  BY <1>1, <1>2, <1>3, PTL DEF Spec

-----------------------------------------------------------------------------
\* A set of natural numbers that is not empty has a least element.
LEMMA LeastIndex ==
  ASSUME NEW T \in SUBSET Nat, T # {}
  PROVE  \E x \in T : \A y \in T : x <= y
<1> DEFINE Less == {p \in Nat \X Nat : p[1] < p[2]}
<1>1. IsWellFoundedOn(Less, Nat)
  BY NatLessThanWellFounded, Zenon DEF OpToRel
<1>2. \A a, b \in Nat : a < b => <<a, b>> \in Less
  OBVIOUS
<1> HIDE DEF Less
<1>3. PICK x \in T : \A y \in T : ~(<<y, x>> \in Less)
  BY <1>1, WFMin
<1>4. ASSUME NEW y \in T PROVE x <= y
  <2>1. x \in Nat /\ y \in Nat
    OBVIOUS
  <2>2. ~(<<y, x>> \in Less)
    BY <1>3, Zenon
  <2>3. ~(y < x)
    BY <1>2, <2>1, <2>2, Zenon
  <2> QED
    BY <2>1, <2>3
<1> QED
  BY <1>4

\* Induction over the numbers, said of a set of them.
LEMMA EveryNat ==
  ASSUME NEW T \in SUBSET Nat, 0 \in T, \A n \in T : n + 1 \in T
  PROVE  T = Nat
<1> SUFFICES ASSUME Nat \ T # {} PROVE FALSE
  OBVIOUS
<1>1. PICK m \in Nat \ T : \A y \in Nat \ T : m <= y
  BY LeastIndex
<1>2. m - 1 \in Nat /\ ~(m - 1 \in Nat \ T)
  BY <1>1
<1> QED
  BY <1>1, <1>2

\* What holds at first and then one step further each time holds to the end.
LEMMA UpTo ==
  ASSUME NEW n \in Nat, NEW T \in SUBSET (0..n), 0 \in T,
         \A k \in 0..n : k \in T /\ k # n => k + 1 \in T
  PROVE  \A k \in 0..n : k \in T
<1> DEFINE U == {k \in Nat : k <= n => k \in T}
<1>1. 0 \in U
  OBVIOUS
<1>2. ASSUME NEW k \in U PROVE k + 1 \in U
  <2>1. CASE k + 1 <= n
    <3>1. k \in 0..n /\ k # n /\ k \in T
      BY <2>1
    <3> QED
      BY <3>1
  <2>2. CASE ~(k + 1 <= n)
    BY <2>2
  <2> QED
    BY <2>1, <2>2
<1> HIDE DEF U
<1>3. U = Nat
  BY <1>1, <1>2, EveryNat DEF U
<1> QED
  BY <1>3 DEF U

-----------------------------------------------------------------------------
(* The passes of the optimizer and of the C generator over instructions and blocks. *)
Opt == INSTANCE Optimizer
Gen == INSTANCE CBackend
Validator == INSTANCE IrValidator

\* What pass p makes of the accumulator acc at the element i.
Stage(p, acc, i) ==
  CASE p.pass = "rename"    -> Opt!RenameInstr(acc, i, p.call)
    [] p.pass = "inline"    -> Opt!InlineInstr(acc, i, p.fns)
    [] p.pass = "blocks"    -> Opt!InlineBlock(acc, i, p.fns)
    [] p.pass = "propagate" -> Opt!PropagateInstr(acc, i)
    [] p.pass = "reduce"    -> Opt!ReduceInstr(acc, i)
    [] p.pass = "optimize"  -> Opt!OptimizeBlock(acc, i)
    [] p.pass = "emit"      -> Gen!EmitNext(acc, i)
    [] p.pass = "write"     -> Gen!EmitBlock(acc, i)

\* g[k] is what pass p has made of base after k elements of s.
Runs(g, n, p, base, s) ==
  g = [i \in 0..n |-> IF i = 0 THEN base ELSE Stage(p, g[i - 1], s[i])]

\* A pass can be taken element by element.
LEMMA RunExists ==
  ASSUME NEW p, NEW base, NEW s
  PROVE  \A n \in Nat : \E g : Runs(g, n, p, base, s)
<1> DEFINE T == {n \in Nat : \E g : Runs(g, n, p, base, s)}
<1>1. 0 \in T
  <2> DEFINE g == [i \in 0..0 |-> base]
  <2>1. g = [i \in 0..0 |-> IF i = 0 THEN base ELSE Stage(p, g[i - 1], s[i])]
    OBVIOUS
  <2> QED
    BY <2>1 DEF Runs
<1>2. ASSUME NEW n \in T PROVE n + 1 \in T
  <2>1. PICK g : Runs(g, n, p, base, s)
    OBVIOUS
  <2> DEFINE h == [i \in 0..n + 1 |-> IF i = n + 1 THEN Stage(p, g[n], s[n + 1]) ELSE g[i]]
  <2>2. n \in Nat
    OBVIOUS
  <2>3. \A i \in 0..n : g[i] = IF i = 0 THEN base ELSE Stage(p, g[i - 1], s[i])
    BY <2>1, <2>2 DEF Runs
  <2>4. \A i \in 0..n : h[i] = g[i]
    BY <2>2
  <2>5. h[n + 1] = Stage(p, g[n], s[n + 1])
    BY <2>2
  <2>6. h = [i \in 0..n + 1 |-> h[i]]
    OBVIOUS
  <2> HIDE DEF h
  <2>7. ASSUME NEW i \in 0..n + 1 PROVE h[i] = IF i = 0 THEN base ELSE Stage(p, h[i - 1], s[i])
    <3>1. CASE i = n + 1
      <4>1. n \in 0..n /\ (n + 1) - 1 = n /\ n + 1 # 0
        BY <2>2
      <4>2. h[n + 1] = Stage(p, h[n], s[n + 1])
        BY <2>4, <2>5, <4>1
      <4> QED
        BY <3>1, <4>1, <4>2
    <3>2. CASE i = 0
      BY <2>2, <2>3, <2>4, <3>2
    <3>3. CASE i # 0 /\ i # n + 1
      <4>1. i \in 0..n /\ i - 1 \in 0..n
        BY <2>2, <3>3
      <4> QED
        BY <2>3, <2>4, <3>3, <4>1
    <3> QED
      BY <3>1, <3>2, <3>3
  <2>8. h = [i \in 0..n + 1 |-> IF i = 0 THEN base ELSE Stage(p, h[i - 1], s[i])]
    BY <2>6, <2>7
  <2> QED
    BY <2>2, <2>8 DEF Runs
<1> HIDE DEF T
<1>3. T = Nat
  BY <1>1, <1>2, EveryNat DEF T
<1> QED
  BY <1>3 DEF T

\* g[k] is what pass p has made of base after k elements of s, and x what it makes of all.
Passed(p, base, s, x) ==
  \E g : /\ g[0] = base
         /\ \A k \in 1..Len(s) : g[k] = Stage(p, g[k - 1], s[k])
         /\ x = g[Len(s)]

\* constantPropagation takes the instructions of a block one by one.
LEMMA PropagatePasses ==
  ASSUME NEW is, Len(is) \in Nat
  PROVE  \E x : /\ Passed([pass |-> "propagate"], [cst |-> <<>>, is |-> <<>>], is, x)
                /\ Opt!PropagateBlock(is) = x.is
<1> DEFINE p == [pass |-> "propagate"]
           base == [cst |-> <<>>, is |-> <<>>]
           n == Len(is)
           after == CHOOSE f : f = [i \in 0..n |-> IF i = 0 THEN base
                      ELSE CHOOSE r \in {Opt!PropagateInstr(before, is[i]) : before \in {f[i - 1]}} : TRUE]
<1>1. \A acc, i : Stage(p, acc, i) = Opt!PropagateInstr(acc, i)
  BY DEF Stage
<1>2. PICK g : Runs(g, n, p, base, is)
  BY RunExists
<1>3. \A i \in 0..n : (IF i = 0 THEN base ELSE Stage(p, g[i - 1], is[i]))
                      = (IF i = 0 THEN base ELSE CHOOSE r \in {Opt!PropagateInstr(before, is[i]) : before \in {g[i - 1]}} : TRUE)
  BY <1>1
<1>4. g = [i \in 0..n |-> IF i = 0 THEN base
             ELSE CHOOSE r \in {Opt!PropagateInstr(before, is[i]) : before \in {g[i - 1]}} : TRUE]
  BY <1>2, <1>3 DEF Runs
<1>5. after = [i \in 0..n |-> IF i = 0 THEN base
             ELSE CHOOSE r \in {Opt!PropagateInstr(before, is[i]) : before \in {after[i - 1]}} : TRUE]
  BY <1>4
<1>6. Opt!PropagateBlock(is) = after[n].is
  BY DEF Opt!PropagateBlock, Opt!Pass
<1> HIDE DEF after
<1>7. /\ after[0] = base
      /\ \A k \in 1..n : after[k] = Stage(p, after[k - 1], is[k])
  BY <1>1, <1>5
<1> QED
  BY <1>6, <1>7 DEF Passed

-----------------------------------------------------------------------------
\* Code that follows other code.

\* A sequence with an element at its end.
LEMMA AppendFacts ==
  ASSUME NEW s, IsSeq(s), NEW e
  PROVE  /\ IsSeq(Append(s, e)) /\ Len(Append(s, e)) = Len(s) + 1
         /\ Append(s, e)[Len(s) + 1] = e
         /\ \A k \in 1..Len(s) : Append(s, e)[k] = s[k]
<1>1. PICK S : s \in Seq(S)
  BY DEF IsSeq
<1> DEFINE T == S \cup {e}
<1>2. s \in Seq(T) /\ e \in T
  BY <1>1, SeqMonotonic
<1> HIDE DEF T
<1>3. /\ Append(s, e) \in Seq(T) /\ Len(Append(s, e)) = Len(s) + 1
      /\ \A i \in 1..Len(s) : Append(s, e)[i] = s[i]
      /\ Append(s, e)[Len(s) + 1] = e
  BY <1>2, AppendProperties
<1> QED
  BY <1>3 DEF IsSeq

\* The instructions that say where control goes and which handlers there are.
Control == Ends \cup {"push_handler", "pop_handler"} \cup Gen!Cuts

\* The others that a pass may write in place of some such.
ListOps == {"call_method_static", "make_view", "index_get", "index_set", "iter_begin", "iter_next"}
NewOps == Opt!InlineOps \cup ListOps
New(i) == Validator!InstrIsValid(i) /\ i.op \in NewOps

\* t is made of the first k instructions of s: t[j] in the place of s[m[j]].  It has
\* all of Control of s, each once and in order; the rest of s may be left out
\* or have several new ones in its place.
Along(m, s, k, t) ==
  /\ m \in [1..Len(t) -> 1..k]
  /\ \A i, j \in 1..Len(t) : i <= j => m[i] <= m[j]
  /\ \A j \in 1..Len(t) : t[j] = s[m[j]] \/ (New(t[j]) /\ s[m[j]].op \notin Control)
  /\ \A h \in 1..k : s[h].op \in Control =>
       \E j \in 1..Len(t) : m[j] = h /\ \A i \in 1..Len(t) : m[i] = h => i = j
  /\ k # 0 => Len(t) # 0
Follows(s, k, t) == IsSeq(t) /\ \E m : Along(m, s, k, t)

\* No new instruction is one of Control, or a call.
LEMMA NewFacts ==
  ASSUME NEW i, New(i)
  PROVE  i.op \notin Control /\ i.op # "call_static" /\ Validator!InstrIsValid(i)
BY DEF New, NewOps, Opt!InlineOps, ListOps, Control, Ends, Gen!Cuts

\* Nothing follows nothing.
LEMMA FollowsNone ==
  ASSUME NEW s
  PROVE  Follows(s, 0, <<>>)
<1>1. <<>> \in Seq({}) /\ Len(<<>>) = 0
  OBVIOUS
<1>2. Along(<<>>, s, 0, <<>>)
  <2>1. 1..0 = {} /\ <<>> \in [1..0 -> 1..0]
    OBVIOUS
  <2> QED
    BY <1>1, <2>1 DEF Along
<1> QED
  BY <1>1, <1>2 DEF Follows, IsSeq

\* One more instruction: the next one of s, or a new one in the place of the
\* next or of the one before.
LEMMA FollowsMore ==
  ASSUME NEW s, NEW k \in Nat, NEW t, Follows(s, k, t), NEW x, NEW h \in {k, k + 1}, h # 0,
         (h = k + 1 /\ x = s[h]) \/ (New(x) /\ s[h].op \notin Control)
  PROVE  Follows(s, h, Append(t, x))
<1>1. PICK m : Along(m, s, k, t)
  BY DEF Follows
<1>2. IsSeq(t)
  BY DEF Follows
<1>3. PICK n \in Nat : n = Len(t)
  BY <1>2, SeqFacts
<1>4. PICK u : u = Append(t, x)
  OBVIOUS
<1>5. /\ IsSeq(u) /\ Len(u) = n + 1 /\ u[n + 1] = x /\ \A j \in 1..n : u[j] = t[j]
  BY <1>2, <1>3, <1>4, AppendFacts
<1>6. /\ m \in [1..n -> 1..k]
      /\ \A i, j \in 1..n : i <= j => m[i] <= m[j]
      /\ \A j \in 1..n : t[j] = s[m[j]] \/ (New(t[j]) /\ s[m[j]].op \notin Control)
      /\ \A c \in 1..k : s[c].op \in Control =>
           \E j \in 1..n : m[j] = c /\ \A i \in 1..n : m[i] = c => i = j
  BY <1>1, <1>3 DEF Along
<1>7. h \in Nat \ {0} /\ k <= h /\ h <= k + 1
  OBVIOUS
<1> DEFINE w == [j \in 1..n + 1 |-> IF j = n + 1 THEN h ELSE m[j]]
<1>8. \A j \in 1..n : j \in 1..n + 1 /\ j # n + 1 /\ m[j] \in 1..h
  BY <1>6, <1>7
<1>9. w[n + 1] = h /\ \A j \in 1..n : w[j] = m[j]
  BY <1>8
<1>10. \A j \in 1..n + 1 : j = n + 1 \/ j \in 1..n
  OBVIOUS
<1>11. w = [j \in 1..n + 1 |-> w[j]]
  OBVIOUS
<1> HIDE DEF w
<1>12. \A j \in 1..n + 1 : w[j] \in 1..h
  BY <1>7, <1>8, <1>9, <1>10
<1>13. w \in [1..n + 1 -> 1..h]
  BY <1>11, <1>12
<1>14. ASSUME NEW i \in 1..n + 1, NEW j \in 1..n + 1, i <= j PROVE w[i] <= w[j]
  <2>1. CASE j = n + 1
    BY <1>7, <1>9, <1>12, <2>1
  <2>2. CASE j # n + 1
    <3>1. i \in 1..n /\ j \in 1..n
      BY <1>14, <2>2
    <3> QED
      BY <1>6, <1>9, <1>14, <3>1
  <2> QED
    BY <2>1, <2>2
<1>15. ASSUME NEW j \in 1..n + 1 PROVE u[j] = s[w[j]] \/ (New(u[j]) /\ s[w[j]].op \notin Control)
  <2>1. CASE j = n + 1
    BY <1>5, <1>9, <2>1
  <2>2. CASE j \in 1..n
    BY <1>5, <1>6, <1>9, <2>2
  <2> QED
    BY <1>10, <2>1, <2>2
<1>16. ASSUME NEW c \in 1..h, s[c].op \in Control
       PROVE  \E j \in 1..n + 1 : w[j] = c /\ \A i \in 1..n + 1 : w[i] = c => i = j
  <2>1. CASE c \in 1..k /\ c # h
    <3>1. PICK j \in 1..n : m[j] = c /\ \A i \in 1..n : m[i] = c => i = j
      BY <1>6, <1>16, <2>1
    <3> QED
      BY <1>8, <1>9, <1>10, <2>1, <3>1
  <2>2. CASE c \in 1..k /\ c = h
    <3>1. h = k
      BY <1>7, <2>2
    <3> QED
      BY <1>16, <2>2, <3>1
  <2>3. CASE c \notin 1..k
    <3>1. c = h /\ h = k + 1
      BY <1>7, <2>3
    <3>2. \A i \in 1..n : w[i] # c
      BY <1>6, <1>9, <2>3
    <3>3. n + 1 \in 1..n + 1
      OBVIOUS
    <3> QED
      BY <1>9, <1>10, <3>1, <3>2, <3>3
  <2> QED
    BY <2>1, <2>2, <2>3
<1>17. n + 1 # 0
  OBVIOUS
<1>18. Along(w, s, h, u)
  BY <1>5, <1>13, <1>14, <1>15, <1>16, <1>17 DEF Along
<1> QED
  BY <1>4, <1>5, <1>18 DEF Follows

\* An instruction of s left out.
LEMMA FollowsLess ==
  ASSUME NEW s, NEW k \in Nat, NEW t, Follows(s, k, t), t # <<>>, s[k + 1].op \notin Control
  PROVE  Follows(s, k + 1, t)
<1>1. PICK m : Along(m, s, k, t)
  BY DEF Follows
<1>2. IsSeq(t) /\ Len(t) # 0
  BY SeqFacts DEF Follows
<1>3. 1..k \subseteq 1..k + 1 /\ \A h \in 1..k + 1 : h \in 1..k \/ h = k + 1
  OBVIOUS
<1>4. m \in [1..Len(t) -> 1..k + 1]
  BY <1>1, <1>3 DEF Along
<1>5. Along(m, s, k + 1, t)
  BY <1>1, <1>2, <1>3, <1>4 DEF Along
<1> QED
  BY <1>2, <1>5 DEF Follows

\* What follows t follows what t follows.
LEMMA FollowsThrough ==
  ASSUME NEW s, NEW k \in Nat, NEW t, NEW u, Follows(s, k, t), Follows(t, Len(t), u)
  PROVE  Follows(s, k, u)
<1>1. PICK m : Along(m, s, k, t)
  BY DEF Follows
<1>2. PICK v : Along(v, t, Len(t), u)
  BY DEF Follows
<1>3. PICK n \in Nat : n = Len(t)
  BY SeqFacts DEF Follows
<1>4. PICK q \in Nat : q = Len(u)
  BY SeqFacts DEF Follows
<1>5. /\ m \in [1..n -> 1..k]
      /\ \A i, j \in 1..n : i <= j => m[i] <= m[j]
      /\ \A j \in 1..n : t[j] = s[m[j]] \/ (New(t[j]) /\ s[m[j]].op \notin Control)
      /\ \A c \in 1..k : s[c].op \in Control =>
           \E j \in 1..n : m[j] = c /\ \A i \in 1..n : m[i] = c => i = j
      /\ k # 0 => n # 0
  BY <1>1, <1>3 DEF Along
<1>6. /\ v \in [1..q -> 1..n]
      /\ \A i, j \in 1..q : i <= j => v[i] <= v[j]
      /\ \A j \in 1..q : u[j] = t[v[j]] \/ (New(u[j]) /\ t[v[j]].op \notin Control)
      /\ \A c \in 1..n : t[c].op \in Control =>
           \E j \in 1..q : v[j] = c /\ \A i \in 1..q : v[i] = c => i = j
      /\ n # 0 => q # 0
  BY <1>2, <1>3, <1>4 DEF Along
<1> DEFINE w == [j \in 1..q |-> m[v[j]]]
<1>7. w \in [1..q -> 1..k] /\ \A j \in 1..q : w[j] = m[v[j]]
  BY <1>5, <1>6
<1> HIDE DEF w
<1>8. ASSUME NEW i \in 1..q, NEW j \in 1..q, i <= j PROVE w[i] <= w[j]
  <2>1. v[i] \in 1..n /\ v[j] \in 1..n /\ v[i] <= v[j]
    BY <1>6, <1>8
  <2> QED
    BY <1>5, <1>7, <2>1
<1>9. ASSUME NEW j \in 1..q PROVE u[j] = s[w[j]] \/ (New(u[j]) /\ s[w[j]].op \notin Control)
  <2>1. v[j] \in 1..n /\ w[j] = m[v[j]]
    BY <1>6, <1>7
  <2>2. t[v[j]] = s[w[j]] \/ (New(t[v[j]]) /\ s[w[j]].op \notin Control)
    BY <1>5, <2>1
  <2>3. u[j] = t[v[j]] \/ (New(u[j]) /\ t[v[j]].op \notin Control)
    BY <1>6
  <2> QED
    BY <2>2, <2>3
<1>10. ASSUME NEW c \in 1..k, s[c].op \in Control
       PROVE  \E j \in 1..q : w[j] = c /\ \A i \in 1..q : w[i] = c => i = j
  <2>1. PICK a \in 1..n : m[a] = c /\ \A i \in 1..n : m[i] = c => i = a
    BY <1>5, <1>10
  <2>2. t[a] = s[c]
    BY <1>5, <1>10, <2>1
  <2>3. PICK j \in 1..q : v[j] = a /\ \A i \in 1..q : v[i] = a => i = j
    BY <1>6, <1>10, <2>2
  <2>4. \A i \in 1..q : v[i] \in 1..n
    BY <1>6
  <2>5. w[j] = c /\ \A i \in 1..q : w[i] = c => i = j
    <3>1. w[j] = c
      BY <1>7, <2>1, <2>3
    <3>2. ASSUME NEW i \in 1..q, w[i] = c PROVE i = j
      <4>1. m[v[i]] = c
        BY <1>7, <3>2
      <4>2. v[i] = a
        BY <2>1, <2>4, <4>1
      <4> QED
        BY <2>3, <4>2
    <3> QED
      BY <3>1, <3>2
  <2> QED
    BY <2>5
<1>11. k # 0 => q # 0
  BY <1>5, <1>6
<1>12. Along(w, s, k, u)
  BY <1>4, <1>7, <1>8, <1>9, <1>10, <1>11 DEF Along
<1> QED
  BY <1>12 DEF Follows

-----------------------------------------------------------------------------
\* What the validator asks of the instructions that passes write.

\* An instruction that has the fields of a constant or of a copy is new.
LEMMA ConstIsNew ==
  ASSUME NEW x, x.op = "const", {"op", "dst", "type"} \subseteq DOMAIN x
  PROVE  New(x)
<1>1. Validator!Required["const"] = {"dst", "type"} /\ "const" \in DOMAIN Validator!Required
  BY DEF Validator!Required
<1>2. x.op \in Validator!KnownOps
  BY DEF Validator!KnownOps
<1> QED
  BY <1>1, <1>2 DEF New, NewOps, Opt!InlineOps, Validator!InstrIsValid

\* A copy is one of the new instructions.
LEMMA CopyIsNew ==
  ASSUME NEW x, x.op = "copy", {"op", "dst", "src"} \subseteq DOMAIN x
  PROVE  New(x)
<1>1. Validator!Required["copy"] = {"dst", "src"} /\ "copy" \in DOMAIN Validator!Required
  BY DEF Validator!Required
<1>2. x.op \in Validator!KnownOps
  BY DEF Validator!KnownOps
<1> QED
  BY <1>1, <1>2 DEF New, NewOps, Opt!InlineOps, Validator!InstrIsValid

-----------------------------------------------------------------------------
\* constantPropagation and reduceRedundantChecks.

\* An instruction is written as it is, or a constant or a copy is in its place.
LEMMA PropagateStep ==
  ASSUME NEW acc, NEW i
  PROVE  \E x : /\ Opt!PropagateInstr(acc, i).is = Append(acc.is, x)
                /\ x = i \/ (New(x) /\ i.op \notin Control)
<1> DEFINE r == Opt!PropagateInstr(acc, i)
           k == Opt!Folded(i, acc.cst)
           chosen == IF Opt!IsTrueText(acc.cst[i.cond]) THEN i.then ELSE i.else
           folded == [op |-> "const", dst |-> i.dst, type |-> k[1].type, v |-> Opt!Trunc(k[1].p, k[1].q)]
           copied == [op |-> "copy", dst |-> i.dst, src |-> chosen]
<1>1. New(folded)
  <2>1. folded.op = "const" /\ {"op", "dst", "type"} \subseteq DOMAIN folded
    OBVIOUS
  <2> QED
    BY <2>1, ConstIsNew
<1>2. New(copied)
  <2>1. copied.op = "copy" /\ {"op", "dst", "src"} \subseteq DOMAIN copied
    OBVIOUS
  <2> QED
    BY <2>1, CopyIsNew
<1>3. k # <<>> => i.op \in {"unary_op", "bin_op"}
  BY DEF Opt!Folded
<1>4. {"unary_op", "bin_op", "select"} \cap Control = {}
  BY DEF Control, Ends, Gen!Cuts
<1> HIDE DEF k
<1>5. CASE i.op \in {"const", "copy"}
  <2>1. r.is = Append(acc.is, i)
    BY <1>3, <1>5 DEF Opt!PropagateInstr, k
  <2> QED
    BY <2>1
<1>6. CASE k # <<>>
  <2>1. r.is = Append(acc.is, folded)
    BY <1>3, <1>6 DEF Opt!PropagateInstr, k
  <2> QED
    BY <1>1, <1>3, <1>4, <1>6, <2>1
<1>7. CASE i.op = "select" /\ i.cond \in DOMAIN acc.cst
  <2>1. k = <<>>
    BY <1>3, <1>7
  <2>2. r.is = Append(acc.is, copied)
    BY <1>7, <2>1 DEF Opt!PropagateInstr, k
  <2> QED
    BY <1>2, <1>4, <1>7, <2>2
<1>8. CASE i.op \notin {"const", "copy"} /\ k = <<>> /\ ~(i.op = "select" /\ i.cond \in DOMAIN acc.cst)
  <2>1. r.is = Append(acc.is, i)
    BY <1>8 DEF Opt!PropagateInstr, k
  <2> QED
    BY <2>1
<1> QED
  BY <1>5, <1>6, <1>7, <1>8

\* What constantPropagation writes follows the block.
LEMMA PropagateFollows ==
  ASSUME NEW is, IsSeq(is)
  PROVE  Follows(is, Len(is), Opt!PropagateBlock(is))
<1>1. PICK n \in Nat : n = Len(is)
  BY SeqFacts
<1>2. PICK x : /\ Passed([pass |-> "propagate"], [cst |-> <<>>, is |-> <<>>], is, x)
               /\ Opt!PropagateBlock(is) = x.is
  BY <1>1, PropagatePasses
<1>3. PICK g : /\ g[0].is = <<>>
               /\ \A k \in 1..n : g[k] = Opt!PropagateInstr(g[k - 1], is[k])
               /\ x = g[n]
  BY <1>1, <1>2 DEF Passed, Stage
<1> DEFINE T == {k \in 0..n : Follows(is, k, g[k].is)}
<1>4. 0 \in T
  BY <1>3, FollowsNone
<1>5. ASSUME NEW k \in 0..n, k \in T, k # n PROVE k + 1 \in T
  <2>1. k \in Nat /\ k + 1 \in 1..n /\ (k + 1) - 1 = k
    BY <1>5
  <2>2. g[k + 1] = Opt!PropagateInstr(g[k], is[k + 1])
    BY <1>3, <2>1
  <2>3. PICK y : g[k + 1].is = Append(g[k].is, y) /\ (y = is[k + 1] \/ (New(y) /\ is[k + 1].op \notin Control))
    BY <2>2, PropagateStep
  <2>4. Follows(is, k, g[k].is)
    BY <1>5
  <2>5. PICK h \in {k, k + 1} : h = k + 1 /\ h # 0
    BY <2>1
  <2>6. Follows(is, h, Append(g[k].is, y))
    BY <2>1, <2>3, <2>4, <2>5, FollowsMore
  <2>7. Follows(is, h, g[h].is)
    BY <2>3, <2>5, <2>6
  <2> QED
    BY <2>1, <2>5, <2>7
<1> HIDE DEF T
<1>6. \A k \in 0..n : k \in T
  BY <1>4, <1>5, UpTo DEF T
<1> QED
  BY <1>1, <1>2, <1>3, <1>6 DEF T

\* reduceRedundantChecks takes the instructions of a block one by one.
LEMMA ReducePasses ==
  ASSUME NEW is, Len(is) \in Nat
  PROVE  Passed([pass |-> "reduce"], <<>>, is, Opt!ReduceBlock(is))
<1> DEFINE p == [pass |-> "reduce"]
           n == Len(is)
           after == CHOOSE f : f = [i \in 0..n |-> IF i = 0 THEN <<>>
                      ELSE CHOOSE r \in {Opt!ReduceInstr(before, is[i]) : before \in {f[i - 1]}} : TRUE]
<1>1. \A acc, i : Stage(p, acc, i) = Opt!ReduceInstr(acc, i)
  BY DEF Stage
<1>2. PICK g : Runs(g, n, p, <<>>, is)
  BY RunExists
<1>3. \A i \in 0..n : (IF i = 0 THEN <<>> ELSE Stage(p, g[i - 1], is[i]))
                      = (IF i = 0 THEN <<>> ELSE CHOOSE r \in {Opt!ReduceInstr(before, is[i]) : before \in {g[i - 1]}} : TRUE)
  BY <1>1
<1>4. g = [i \in 0..n |-> IF i = 0 THEN <<>>
             ELSE CHOOSE r \in {Opt!ReduceInstr(before, is[i]) : before \in {g[i - 1]}} : TRUE]
  BY <1>2, <1>3 DEF Runs
<1>5. after = [i \in 0..n |-> IF i = 0 THEN <<>>
             ELSE CHOOSE r \in {Opt!ReduceInstr(before, is[i]) : before \in {after[i - 1]}} : TRUE]
  BY <1>4
<1>6. Opt!ReduceBlock(is) = after[n]
  BY DEF Opt!ReduceBlock, Opt!Pass
<1> HIDE DEF after
<1>7. /\ after[0] = <<>>
      /\ \A k \in 1..n : after[k] = Stage(p, after[k - 1], is[k])
  BY <1>1, <1>5
<1> QED
  BY <1>6, <1>7 DEF Passed

\* A check is left out only where some other instruction was written.
LEMMA ReduceFollows ==
  ASSUME NEW is, IsSeq(is)
  PROVE  Follows(is, Len(is), Opt!ReduceBlock(is))
<1>1. PICK n \in Nat : n = Len(is)
  BY SeqFacts
<1>2. PICK p, g : /\ p = [pass |-> "reduce"]
                  /\ g[0] = <<>>
                  /\ \A k \in 1..n : g[k] = Stage(p, g[k - 1], is[k])
                  /\ Opt!ReduceBlock(is) = g[n]
  BY <1>1, ReducePasses DEF Passed
<1>3. \A k \in 1..n : g[k] = Opt!ReduceInstr(g[k - 1], is[k])
  BY <1>2 DEF Stage
<1>4. Opt!CheckOps \cap Control = {}
  BY DEF Opt!CheckOps, Control, Ends, Gen!Cuts
<1> DEFINE T == {k \in 0..n : Follows(is, k, g[k])}
<1>5. 0 \in T
  BY <1>2, FollowsNone
<1>6. ASSUME NEW k \in 0..n, k \in T, k # n PROVE k + 1 \in T
  <2>1. k \in Nat /\ k + 1 \in 1..n /\ (k + 1) - 1 = k
    BY <1>6
  <2>2. g[k + 1] = Opt!ReduceInstr(g[k], is[k + 1])
    BY <1>3, <2>1
  <2>3. Follows(is, k, g[k])
    BY <1>6
  <2>4. CASE is[k + 1].op \in Opt!CheckOps /\ Opt!Contains(g[k], is[k + 1])
    <3>1. g[k + 1] = g[k]
      BY <2>2, <2>4 DEF Opt!ReduceInstr
    <3>2. g[k] # <<>>
      <4>1. PICK j \in 1..Len(g[k]) : TRUE
        BY <2>4 DEF Opt!Contains
      <4> QED
        BY <4>1, <2>3, SeqFacts DEF Follows
    <3>3. Follows(is, k + 1, g[k + 1])
      BY <1>4, <2>1, <2>3, <2>4, <3>1, <3>2, FollowsLess
    <3> QED
      BY <2>1, <3>3
  <2>5. CASE ~(is[k + 1].op \in Opt!CheckOps /\ Opt!Contains(g[k], is[k + 1]))
    <3>1. g[k + 1] = Append(g[k], is[k + 1])
      BY <2>2, <2>5 DEF Opt!ReduceInstr
    <3>2. PICK h \in {k, k + 1} : h = k + 1 /\ h # 0
      BY <2>1
    <3>3. Follows(is, h, Append(g[k], is[h]))
      BY <2>1, <2>3, <3>2, FollowsMore
    <3>4. Follows(is, h, g[h])
      BY <3>1, <3>2, <3>3
    <3> QED
      BY <2>1, <3>2, <3>4
  <2> QED
    BY <2>4, <2>5
<1> HIDE DEF T
<1>7. \A k \in 0..n : k \in T
  BY <1>5, <1>6, UpTo DEF T
<1> QED
  BY <1>1, <1>2, <1>7 DEF T

-----------------------------------------------------------------------------
\* inlineCalls.

\* A renamed instruction has the fields it had, or is a copy.
LEMMA RenamedIsNew ==
  ASSUME NEW i, Validator!InstrIsValid(i), i.op \in Opt!InlineOps, NEW m, NEW x
  PROVE  New(Opt!Renamed(i, m, x))
<1> DEFINE r == Opt!Renamed(i, m, x)
<1>1. CASE i.op = "load_var"
  <2>1. r.op = "copy" /\ {"op", "dst", "src"} \subseteq DOMAIN r
    BY <1>1 DEF Opt!Renamed
  <2> HIDE DEF r
  <2>2. New(r)
    BY <2>1, CopyIsNew
  <2> QED
    BY <2>2 DEF r
<1>2. CASE i.op # "load_var"
  <2>1. "op" \in DOMAIN i
    BY DEF Validator!InstrIsValid
  <2>2. DOMAIN r = DOMAIN i /\ r.op = i.op
    <3>1. CASE i.op = "const"
      BY <2>1, <3>1 DEF Opt!Renamed
    <3>2. CASE i.op \in {"copy", "unary_op"}
      BY <2>1, <3>2 DEF Opt!Renamed
    <3>3. CASE i.op = "bin_op"
      BY <2>1, <3>3 DEF Opt!Renamed
    <3>4. CASE i.op = "select"
      BY <2>1, <3>4 DEF Opt!Renamed
    <3>5. CASE i.op = "check_int_overflow"
      BY <2>1, <3>5 DEF Opt!Renamed
    <3>6. CASE i.op = "check_int_overflow_unary_minus"
      BY <2>1, <3>6 DEF Opt!Renamed
    <3>7. CASE i.op = "check_div_zero"
      BY <2>1, <3>7 DEF Opt!Renamed
    <3>8. CASE i.op = "check_shift_range"
      BY <2>1, <3>8 DEF Opt!Renamed
    <3> QED
      BY <1>2, <3>1, <3>2, <3>3, <3>4, <3>5, <3>6, <3>7, <3>8 DEF Opt!InlineOps
  <2> HIDE DEF r
  <2>3. Validator!InstrIsValid(r)
    BY <2>2 DEF Validator!InstrIsValid
  <2>4. New(r)
    BY <2>2, <2>3 DEF New, NewOps
  <2> QED
    BY <2>4 DEF r
<1> QED
  BY <1>1, <1>2

\* What a pass of inlineCalls carries from one instruction to the next.
IsInlining(acc) == DOMAIN acc = {"next", "m", "is", "blocks"}

\* It writes one new instruction for each of the function called.
LEMMA RenameStep ==
  ASSUME NEW a, IsInlining(a), NEW i, Validator!InstrIsValid(i), NEW call,
         i.op = "ret" \/ i.op \in Opt!InlineOps
  PROVE  /\ IsInlining(Opt!RenameInstr(a, i, call))
         /\ Opt!RenameInstr(a, i, call).blocks = a.blocks
         /\ \E x : New(x) /\ Opt!RenameInstr(a, i, call).is = Append(a.is, x)
<1> DEFINE r == Opt!RenameInstr(a, i, call)
<1>1. CASE i.op = "ret"
  <2> DEFINE x == [op |-> "copy", dst |-> call.dst, src |-> a.m[i.value]]
  <2>1. r = [a EXCEPT !.is = Append(@, x)]
    BY <1>1 DEF Opt!RenameInstr
  <2>2. x.op = "copy" /\ {"op", "dst", "src"} \subseteq DOMAIN x
    OBVIOUS
  <2> HIDE DEF x, r
  <2>3. New(x)
    BY <2>2, CopyIsNew
  <2>4. IsInlining(r) /\ r.blocks = a.blocks /\ r.is = Append(a.is, x)
    BY <2>1 DEF IsInlining
  <2> QED
    BY <2>3, <2>4 DEF r
<1>2. CASE i.op # "ret"
  <2> DEFINE x == Opt!Renamed(i, a.m, a.next)
  <2>1. New(x)
    BY <1>2, RenamedIsNew
  <2> HIDE DEF x
  <2>2. IsInlining(r) /\ r.blocks = a.blocks /\ r.is = Append(a.is, x)
    BY <1>2 DEF Opt!RenameInstr, IsInlining, x
  <2> QED
    BY <2>1, <2>2
<1> QED
  BY <1>1, <1>2

\* inlineCalls takes the instructions of the function called one by one.
LEMMA RenamePasses ==
  ASSUME NEW acc, NEW call, NEW fn, NEW is, is = fn.blocks[1].instrs, Len(is) \in Nat
  PROVE  Passed([pass |-> "rename", call |-> call], [acc EXCEPT !.m = call.args], is,
                Opt!InlineCall(acc, call, fn))
<1> DEFINE p == [pass |-> "rename", call |-> call]
           base == [acc EXCEPT !.m = call.args]
           n == Len(is)
           after == CHOOSE f : f = [i \in 0..n |-> IF i = 0 THEN base
                      ELSE CHOOSE r \in {Opt!RenameInstr(before, is[i], call) : before \in {f[i - 1]}} : TRUE]
<1>1. \A a, i : Stage(p, a, i) = Opt!RenameInstr(a, i, call)
  BY DEF Stage
<1>2. Opt!InlineCall(acc, call, fn) = after[n]
  BY DEF Opt!InlineCall, Opt!Pass
<1> HIDE DEF base
<1>3. PICK g : Runs(g, n, p, base, is)
  BY RunExists
<1>4. \A i \in 0..n : (IF i = 0 THEN base ELSE Stage(p, g[i - 1], is[i]))
                      = (IF i = 0 THEN base ELSE CHOOSE r \in {Opt!RenameInstr(before, is[i], call) : before \in {g[i - 1]}} : TRUE)
  BY <1>1
<1>5. g = [i \in 0..n |-> IF i = 0 THEN base
             ELSE CHOOSE r \in {Opt!RenameInstr(before, is[i], call) : before \in {g[i - 1]}} : TRUE]
  BY <1>3, <1>4 DEF Runs
<1>6. after = [i \in 0..n |-> IF i = 0 THEN base
             ELSE CHOOSE r \in {Opt!RenameInstr(before, is[i], call) : before \in {after[i - 1]}} : TRUE]
  BY <1>5
<1> HIDE DEF after
<1>7. /\ after[0] = base
      /\ \A k \in 1..n : after[k] = Opt!RenameInstr(after[k - 1], is[k], call)
  BY <1>6
<1>8. Passed(p, base, is, Opt!InlineCall(acc, call, fn))
  BY <1>1, <1>2, <1>7 DEF Passed
<1> QED
  BY <1>8 DEF base

\* The body of a function that may be inlined.
LEMMA CandidateBody ==
  ASSUME NEW fn, Validator!IsValid(fn), Opt!IsInlineCandidate(fn)
  PROVE  /\ IsSeq(fn.blocks[1].instrs) /\ Len(fn.blocks[1].instrs) \in Nat \ {0}
         /\ \A j \in 1..Len(fn.blocks[1].instrs) :
              /\ Validator!InstrIsValid(fn.blocks[1].instrs[j])
              /\ fn.blocks[1].instrs[j].op = "ret" \/ fn.blocks[1].instrs[j].op \in Opt!InlineOps
<1> DEFINE is == fn.blocks[1].instrs
<1>1. IsSeq(fn.blocks) /\ Len(fn.blocks) = 1
  BY DEF Validator!IsValid, Validator!IsArray, IsSeq, Opt!IsInlineCandidate
<1>2. 1 \in DOMAIN fn.blocks
  BY <1>1, SeqFacts
<1>3. Validator!BlockIsValid(fn.blocks[1])
  BY <1>2 DEF Validator!IsValid
<1>4. IsSeq(is) /\ is # <<>>
  BY <1>3 DEF Validator!BlockIsValid, Validator!IsArray, IsSeq
<1>5. Len(is) \in Nat \ {0} /\ DOMAIN is = 1..Len(is)
  BY <1>4, SeqFacts
<1>6. \A j \in 1..Len(is) : Validator!InstrIsValid(is[j])
  BY <1>3, <1>5 DEF Validator!BlockIsValid
<1>7. is[Len(is)].op = "ret" /\ \A j \in 1..(Len(is) - 1) : is[j].op \in Opt!InlineOps
  BY DEF Opt!IsInlineCandidate, Opt!Last
<1> HIDE DEF is
<1>8. \A j \in 1..Len(is) : is[j].op = "ret" \/ is[j].op \in Opt!InlineOps
  <2>1. PICK n \in Nat : n = Len(is)
    BY <1>5
  <2>2. \A j \in 1..n : j = n \/ j \in 1..(n - 1)
    BY <2>1
  <2> QED
    BY <1>7, <2>1, <2>2
<1>9. /\ IsSeq(is) /\ Len(is) \in Nat \ {0}
      /\ \A j \in 1..Len(is) : Validator!InstrIsValid(is[j]) /\ (is[j].op = "ret" \/ is[j].op \in Opt!InlineOps)
  BY <1>4, <1>5, <1>6, <1>8
<1> QED
  BY <1>9 DEF is

\* The instructions of the function called are in the place of the call.
LEMMA InlineCallFollows ==
  ASSUME NEW acc, IsInlining(acc), NEW is, NEW k \in Nat, Follows(is, k, acc.is), is[k + 1].op = "call_static",
         NEW fn, Validator!IsValid(fn), Opt!IsInlineCandidate(fn), NEW call
  PROVE  /\ IsInlining(Opt!InlineCall(acc, call, fn))
         /\ Opt!InlineCall(acc, call, fn).blocks = acc.blocks
         /\ Follows(is, k + 1, Opt!InlineCall(acc, call, fn).is)
<1>1. PICK body : body = fn.blocks[1].instrs
  OBVIOUS
<1>2. /\ IsSeq(body) /\ Len(body) \in Nat \ {0}
      /\ \A j \in 1..Len(body) : Validator!InstrIsValid(body[j]) /\ (body[j].op = "ret" \/ body[j].op \in Opt!InlineOps)
  BY <1>1, CandidateBody
<1>3. PICK n \in Nat \ {0} : n = Len(body)
  BY <1>2
<1>4. Passed([pass |-> "rename", call |-> call], [acc EXCEPT !.m = call.args], body, Opt!InlineCall(acc, call, fn))
  BY <1>1, <1>2, RenamePasses
<1>5. PICK g : /\ g[0] = [acc EXCEPT !.m = call.args]
               /\ \A j \in 1..n : g[j] = Opt!RenameInstr(g[j - 1], body[j], call)
               /\ Opt!InlineCall(acc, call, fn) = g[n]
  BY <1>3, <1>4 DEF Passed, Stage
<1>6. PICK c : c = k + 1 /\ c \in Nat /\ c # 0 /\ is[c].op = "call_static"
  OBVIOUS
<1>7. "call_static" \notin Control
  BY DEF Control, Ends, Gen!Cuts
<1> DEFINE T == {j \in 0..n : /\ IsInlining(g[j]) /\ g[j].blocks = acc.blocks
                              /\ Follows(is, IF j = 0 THEN k ELSE c, g[j].is)}
<1>8. 0 \in T
  BY <1>5 DEF IsInlining
<1>9. ASSUME NEW j \in 0..n, j \in T, j # n PROVE j + 1 \in T
  <2>1. PICK h \in 1..n : h = j + 1 /\ h - 1 = j /\ h # 0
    BY <1>9
  <2>2. g[h] = Opt!RenameInstr(g[j], body[h], call)
    BY <1>5, <2>1
  <2>3. Validator!InstrIsValid(body[h]) /\ (body[h].op = "ret" \/ body[h].op \in Opt!InlineOps)
    BY <1>2, <1>3, <2>1
  <2>4. IsInlining(g[h]) /\ g[h].blocks = g[j].blocks /\ \E x : New(x) /\ g[h].is = Append(g[j].is, x)
    BY <1>9, <2>2, <2>3, RenameStep
  <2>5. PICK x : New(x) /\ g[h].is = Append(g[j].is, x)
    BY <2>4
  <2>6. Follows(is, c, g[h].is)
    <3>1. CASE j = 0
      <4>1. Follows(is, k, g[j].is) /\ c \in {k, k + 1}
        BY <1>6, <1>9, <3>1
      <4> QED
        BY <1>6, <1>7, <2>5, <4>1, FollowsMore
    <3>2. CASE j # 0
      <4>1. Follows(is, c, g[j].is) /\ c \in {c, c + 1}
        BY <1>9, <3>2
      <4> QED
        BY <1>6, <1>7, <2>5, <4>1, FollowsMore
    <3> QED
      BY <3>1, <3>2
  <2>7. h # 0 /\ h \in 0..n /\ IsInlining(g[h]) /\ g[h].blocks = acc.blocks
    BY <1>9, <2>1, <2>4
  <2>8. h \in T
    BY <2>6, <2>7
  <2> QED
    BY <2>1, <2>8
<1> HIDE DEF T
<1>10. \A j \in 0..n : j \in T
  BY <1>8, <1>9, <1>3, UpTo DEF T
<1>11. n \in T /\ n # 0
  BY <1>3, <1>10
<1> QED
  BY <1>5, <1>6, <1>11 DEF T

\* An instruction that is no call of a candidate is written as it is.
LEMMA InlineStep ==
  ASSUME NEW acc, IsInlining(acc), NEW is, NEW k \in Nat, Follows(is, k, acc.is),
         NEW fns, \A f \in DOMAIN fns : Validator!IsValid(fns[f])
  PROVE  /\ IsInlining(Opt!InlineInstr(acc, is[k + 1], fns))
         /\ Opt!InlineInstr(acc, is[k + 1], fns).blocks = acc.blocks
         /\ Follows(is, k + 1, Opt!InlineInstr(acc, is[k + 1], fns).is)
<1>1. PICK i : i = is[k + 1]
  OBVIOUS
<1> DEFINE called == /\ i.op = "call_static"
                     /\ i.callee \in DOMAIN fns
                     /\ Opt!IsInlineCandidate(fns[i.callee])
                     /\ Len(fns[i.callee].params) = Len(i.args)
<1>2. CASE called
  <2>1. Opt!InlineInstr(acc, i, fns) = Opt!InlineCall(acc, i, fns[i.callee])
    BY <1>2 DEF Opt!InlineInstr
  <2>2. Validator!IsValid(fns[i.callee]) /\ Opt!IsInlineCandidate(fns[i.callee]) /\ is[k + 1].op = "call_static"
    BY <1>1, <1>2
  <2> HIDE DEF called
  <2>3. /\ IsInlining(Opt!InlineCall(acc, i, fns[i.callee]))
        /\ Opt!InlineCall(acc, i, fns[i.callee]).blocks = acc.blocks
        /\ Follows(is, k + 1, Opt!InlineCall(acc, i, fns[i.callee]).is)
    BY <2>2, InlineCallFollows
  <2> QED
    BY <1>1, <2>1, <2>3
<1>3. CASE ~called
  <2>1. Opt!InlineInstr(acc, i, fns) = [acc EXCEPT !.is = Append(@, i)]
    BY <1>3 DEF Opt!InlineInstr
  <2> HIDE DEF called
  <2>2. PICK r : r = Opt!InlineInstr(acc, i, fns)
    OBVIOUS
  <2>3. IsInlining(r) /\ r.blocks = acc.blocks /\ r.is = Append(acc.is, i)
    BY <2>1, <2>2 DEF IsInlining
  <2>4. PICK h \in {k, k + 1} : h = k + 1 /\ h # 0
    OBVIOUS
  <2>5. Follows(is, h, Append(acc.is, i))
    BY <1>1, <2>4, FollowsMore
  <2> QED
    BY <1>1, <2>2, <2>3, <2>4, <2>5
<1> QED
  BY <1>2, <1>3

\* acc with block b, of the instructions acc has, at its end.
WithBlock(acc, b) == [acc EXCEPT !.blocks = Append(@, [b EXCEPT !.instrs = acc.is])]

\* inlineCalls takes the instructions of a block one by one.
LEMMA InlinePasses ==
  ASSUME NEW acc, NEW b, NEW is, is = b.instrs, Len(is) \in Nat, NEW fns
  PROVE  \E x : /\ Passed([pass |-> "inline", fns |-> fns], [acc EXCEPT !.is = <<>>], is, x)
                /\ Opt!InlineBlock(acc, b, fns) = WithBlock(x, b)
<1> DEFINE p == [pass |-> "inline", fns |-> fns]
           base == [acc EXCEPT !.is = <<>>]
           n == Len(is)
           after == CHOOSE f : f = [i \in 0..n |-> IF i = 0 THEN base
                      ELSE CHOOSE r \in {Opt!InlineInstr(before, is[i], fns) : before \in {f[i - 1]}} : TRUE]
<1>1. \A a, i : Stage(p, a, i) = Opt!InlineInstr(a, i, fns)
  BY DEF Stage
<1>2. Opt!InlineBlock(acc, b, fns) = WithBlock(after[n], b)
  BY DEF Opt!InlineBlock, Opt!Pass, WithBlock
<1> HIDE DEF base
<1>3. PICK g : Runs(g, n, p, base, is)
  BY RunExists
<1>4. \A i \in 0..n : (IF i = 0 THEN base ELSE Stage(p, g[i - 1], is[i]))
                      = (IF i = 0 THEN base ELSE CHOOSE r \in {Opt!InlineInstr(before, is[i], fns) : before \in {g[i - 1]}} : TRUE)
  BY <1>1
<1>5. g = [i \in 0..n |-> IF i = 0 THEN base
             ELSE CHOOSE r \in {Opt!InlineInstr(before, is[i], fns) : before \in {g[i - 1]}} : TRUE]
  BY <1>3, <1>4 DEF Runs
<1>6. after = [i \in 0..n |-> IF i = 0 THEN base
             ELSE CHOOSE r \in {Opt!InlineInstr(before, is[i], fns) : before \in {after[i - 1]}} : TRUE]
  BY <1>5
<1> HIDE DEF after
<1>7. /\ after[0] = base
      /\ \A k \in 1..n : after[k] = Opt!InlineInstr(after[k - 1], is[k], fns)
  BY <1>6
<1>8. Passed(p, base, is, after[n])
  BY <1>1, <1>7 DEF Passed
<1> QED
  BY <1>2, <1>8 DEF base

\* Blocks that follow blocks: those with the same labels, one after the other.
BlockFollows(b, c) ==
  /\ {"label", "instrs"} \subseteq DOMAIN c
  /\ c.label = b.label
  /\ Follows(b.instrs, Len(b.instrs), c.instrs)
BlocksFollow(bs, k, cs) ==
  IsSeq(cs) /\ Len(cs) = k /\ \A b \in 1..k : BlockFollows(bs[b], cs[b])

\* Lists of blocks that follow, with one more block that does.
LEMMA BlocksMore ==
  ASSUME NEW bs, NEW k \in Nat, NEW cs, BlocksFollow(bs, k, cs), NEW c, NEW h, h = k + 1, BlockFollows(bs[h], c)
  PROVE  BlocksFollow(bs, h, Append(cs, c))
<1>1. /\ IsSeq(cs) /\ Len(cs) = k /\ \A b \in 1..k : BlockFollows(bs[b], cs[b])
  BY DEF BlocksFollow
<1>2. PICK ds : ds = Append(cs, c)
  OBVIOUS
<1>3. /\ IsSeq(ds) /\ Len(ds) = h /\ ds[h] = c /\ \A b \in 1..k : ds[b] = cs[b]
  BY <1>1, <1>2, AppendFacts
<1>4. \A b \in 1..h : b = h \/ b \in 1..k
  OBVIOUS
<1>5. \A b \in 1..h : BlockFollows(bs[b], ds[b])
  BY <1>1, <1>3, <1>4
<1> QED
  BY <1>2, <1>3, <1>5 DEF BlocksFollow

\* No blocks follow none.
LEMMA BlocksNone ==
  ASSUME NEW bs
  PROVE  BlocksFollow(bs, 0, <<>>)
<1>1. <<>> \in Seq({}) /\ Len(<<>>) = 0 /\ 1..0 = {}
  OBVIOUS
<1> QED
  BY <1>1 DEF BlocksFollow, IsSeq

\* Following is passed on, for blocks as for instructions.
LEMMA BlocksThrough ==
  ASSUME NEW bs, NEW n \in Nat, NEW cs, NEW ds, BlocksFollow(bs, n, cs), BlocksFollow(cs, n, ds),
         \A b \in 1..n : Len(bs[b].instrs) \in Nat
  PROVE  BlocksFollow(bs, n, ds)
<1>1. ASSUME NEW b \in 1..n PROVE BlockFollows(bs[b], ds[b])
  <2>1. BlockFollows(bs[b], cs[b]) /\ BlockFollows(cs[b], ds[b]) /\ Len(bs[b].instrs) \in Nat
    BY DEF BlocksFollow
  <2>2. PICK s, t, u : s = bs[b].instrs /\ t = cs[b].instrs /\ u = ds[b].instrs
    OBVIOUS
  <2>3. Follows(s, Len(s), t) /\ Follows(t, Len(t), u) /\ Len(s) \in Nat
    BY <2>1, <2>2 DEF BlockFollows
  <2>4. Follows(s, Len(s), u)
    BY <2>3, FollowsThrough
  <2> QED
    BY <2>1, <2>2, <2>4 DEF BlockFollows
<1> QED
  BY <1>1 DEF BlocksFollow

\* A block of the function after its calls are replaced.
LEMMA InlineBlockFollows ==
  ASSUME NEW acc, IsInlining(acc), NEW b, Validator!BlockIsValid(b),
         NEW fns, \A f \in DOMAIN fns : Validator!IsValid(fns[f])
  PROVE  /\ IsInlining(Opt!InlineBlock(acc, b, fns))
         /\ \E c : BlockFollows(b, c) /\ Opt!InlineBlock(acc, b, fns).blocks = Append(acc.blocks, c)
<1>1. PICK is : is = b.instrs
  OBVIOUS
<1>2. IsSeq(is) /\ {"label", "instrs"} \subseteq DOMAIN b
  BY <1>1 DEF Validator!BlockIsValid, Validator!IsArray, IsSeq
<1>3. PICK n \in Nat : n = Len(is)
  BY <1>2, SeqFacts
<1>4. PICK x : /\ Passed([pass |-> "inline", fns |-> fns], [acc EXCEPT !.is = <<>>], is, x)
               /\ Opt!InlineBlock(acc, b, fns) = WithBlock(x, b)
  BY <1>1, <1>3, InlinePasses
<1>5. PICK p, base : p = [pass |-> "inline", fns |-> fns] /\ base = [acc EXCEPT !.is = <<>>]
  OBVIOUS
<1>6. \A a, i : Stage(p, a, i) = Opt!InlineInstr(a, i, fns)
  BY <1>5 DEF Stage
<1>7. PICK g : /\ g[0] = base
               /\ \A k \in 1..n : g[k] = Opt!InlineInstr(g[k - 1], is[k], fns)
               /\ x = g[n]
  BY <1>3, <1>4, <1>5, <1>6 DEF Passed
<1> DEFINE T == {k \in 0..n : /\ IsInlining(g[k]) /\ g[k].blocks = acc.blocks /\ Follows(is, k, g[k].is)}
<1>8. 0 \in T
  <2>1. IsInlining(g[0]) /\ g[0].blocks = acc.blocks /\ g[0].is = <<>>
    BY <1>7, <1>5 DEF IsInlining
  <2> QED
    BY <2>1, FollowsNone
<1>9. ASSUME NEW k \in 0..n, k \in T, k # n PROVE k + 1 \in T
  <2>1. PICK h \in 1..n : h = k + 1 /\ h - 1 = k
    BY <1>9
  <2>2. g[h] = Opt!InlineInstr(g[k], is[k + 1], fns)
    BY <1>7, <2>1
  <2>3. IsInlining(g[k]) /\ Follows(is, k, g[k].is) /\ k \in Nat
    BY <1>9
  <2>4. /\ IsInlining(Opt!InlineInstr(g[k], is[k + 1], fns))
        /\ Opt!InlineInstr(g[k], is[k + 1], fns).blocks = g[k].blocks
        /\ Follows(is, k + 1, Opt!InlineInstr(g[k], is[k + 1], fns).is)
    BY <2>3, InlineStep
  <2>5. h \in T
    BY <1>9, <2>1, <2>2, <2>4
  <2> QED
    BY <2>1, <2>5
<1> HIDE DEF T
<1>10. \A k \in 0..n : k \in T
  BY <1>8, <1>9, UpTo DEF T
<1>11. IsInlining(x) /\ x.blocks = acc.blocks /\ Follows(is, n, x.is)
  BY <1>7, <1>10 DEF T
<1>12. PICK c : c = [b EXCEPT !.instrs = x.is]
  OBVIOUS
<1>13. BlockFollows(b, c)
  <2>1. DOMAIN c = DOMAIN b /\ c.label = b.label /\ c.instrs = x.is
    BY <1>2, <1>12
  <2> QED
    BY <1>1, <1>2, <1>3, <1>11, <2>1 DEF BlockFollows
<1>14. PICK r : r = Opt!InlineBlock(acc, b, fns)
  OBVIOUS
<1>15. r = [x EXCEPT !.blocks = Append(@, c)]
  BY <1>4, <1>12, <1>14 DEF WithBlock
<1>16. IsInlining(r) /\ r.blocks = Append(acc.blocks, c)
  BY <1>11, <1>15 DEF IsInlining
<1> QED
  BY <1>13, <1>14, <1>16

\* What inlineCalls starts a function with.
InlineStart == [next |-> Opt!FirstNewTemp, m |-> <<>>, is |-> <<>>, blocks |-> <<>>]

\* It takes the blocks of a function one by one.
LEMMA BlockPasses ==
  ASSUME NEW fn, NEW fns, NEW bs, bs = fn.blocks, Len(bs) \in Nat, "blocks" \in DOMAIN fn
  PROVE  \E x : /\ Passed([pass |-> "blocks", fns |-> fns], InlineStart, bs, x)
                /\ DOMAIN Opt!InlineFunction(fn, fns) = DOMAIN fn
                /\ Opt!InlineFunction(fn, fns).blocks = x.blocks
<1> DEFINE p == [pass |-> "blocks", fns |-> fns]
           n == Len(bs)
           after == CHOOSE f : f = [i \in 0..n |-> IF i = 0 THEN InlineStart
                      ELSE CHOOSE r \in {Opt!InlineBlock(before, bs[i], fns) : before \in {f[i - 1]}} : TRUE]
<1>1. \A a, i : Stage(p, a, i) = Opt!InlineBlock(a, i, fns)
  BY DEF Stage
<1>2. Opt!InlineFunction(fn, fns) = [fn EXCEPT !.blocks = after[n].blocks]
  BY DEF Opt!InlineFunction, Opt!Pass, InlineStart
<1>3. PICK g : Runs(g, n, p, InlineStart, bs)
  BY RunExists
<1>4. \A i \in 0..n : (IF i = 0 THEN InlineStart ELSE Stage(p, g[i - 1], bs[i]))
                      = (IF i = 0 THEN InlineStart ELSE CHOOSE r \in {Opt!InlineBlock(before, bs[i], fns) : before \in {g[i - 1]}} : TRUE)
  BY <1>1
<1>5. g = [i \in 0..n |-> IF i = 0 THEN InlineStart
             ELSE CHOOSE r \in {Opt!InlineBlock(before, bs[i], fns) : before \in {g[i - 1]}} : TRUE]
  BY <1>3, <1>4 DEF Runs
<1>6. after = [i \in 0..n |-> IF i = 0 THEN InlineStart
             ELSE CHOOSE r \in {Opt!InlineBlock(before, bs[i], fns) : before \in {after[i - 1]}} : TRUE]
  BY <1>5
<1> HIDE DEF after
<1>7. /\ after[0] = InlineStart
      /\ \A k \in 1..n : after[k] = Opt!InlineBlock(after[k - 1], bs[k], fns)
  BY <1>6
<1>8. Passed(p, InlineStart, bs, after[n])
  BY <1>1, <1>7 DEF Passed
<1> QED
  BY <1>2, <1>8

\* The two later passes take the blocks of a function one by one.
LEMMA OptimizePasses ==
  ASSUME NEW fn, NEW fns, NEW bs, bs = Opt!InlineFunction(fn, fns).blocks, Len(bs) \in Nat,
         "blocks" \in DOMAIN Opt!InlineFunction(fn, fns)
  PROVE  /\ DOMAIN Opt!OptimizeIR(fn, fns) = DOMAIN Opt!InlineFunction(fn, fns)
         /\ Passed([pass |-> "optimize"], <<>>, bs, Opt!OptimizeIR(fn, fns).blocks)
<1> DEFINE p == [pass |-> "optimize"]
           n == Len(bs)
           after == CHOOSE f : f = [i \in 0..n |-> IF i = 0 THEN <<>>
                      ELSE CHOOSE r \in {Opt!OptimizeBlock(before, bs[i]) : before \in {f[i - 1]}} : TRUE]
<1>1. \A a, i : Stage(p, a, i) = Opt!OptimizeBlock(a, i)
  BY DEF Stage
<1>2. Opt!OptimizeIR(fn, fns) = [Opt!InlineFunction(fn, fns) EXCEPT !.blocks = after[n]]
  BY DEF Opt!OptimizeIR, Opt!Pass
<1>3. PICK g : Runs(g, n, p, <<>>, bs)
  BY RunExists
<1>4. \A i \in 0..n : (IF i = 0 THEN <<>> ELSE Stage(p, g[i - 1], bs[i]))
                      = (IF i = 0 THEN <<>> ELSE CHOOSE r \in {Opt!OptimizeBlock(before, bs[i]) : before \in {g[i - 1]}} : TRUE)
  BY <1>1
<1>5. g = [i \in 0..n |-> IF i = 0 THEN <<>>
             ELSE CHOOSE r \in {Opt!OptimizeBlock(before, bs[i]) : before \in {g[i - 1]}} : TRUE]
  BY <1>3, <1>4 DEF Runs
<1>6. after = [i \in 0..n |-> IF i = 0 THEN <<>>
             ELSE CHOOSE r \in {Opt!OptimizeBlock(before, bs[i]) : before \in {after[i - 1]}} : TRUE]
  BY <1>5
<1> HIDE DEF after
<1>7. /\ after[0] = <<>>
      /\ \A k \in 1..n : after[k] = Opt!OptimizeBlock(after[k - 1], bs[k])
  BY <1>6
<1>8. Passed(p, <<>>, bs, after[n])
  BY <1>1, <1>7 DEF Passed
<1> QED
  BY <1>2, <1>8

\* The blocks of a function after its calls are replaced ...
LEMMA InlinedFollows ==
  ASSUME NEW fn, Validator!IsValid(fn), NEW fns, \A f \in DOMAIN fns : Validator!IsValid(fns[f])
  PROVE  /\ DOMAIN Opt!InlineFunction(fn, fns) = DOMAIN fn
         /\ BlocksFollow(fn.blocks, Len(fn.blocks), Opt!InlineFunction(fn, fns).blocks)
<1>1. PICK bs : bs = fn.blocks
  OBVIOUS
<1>2. IsSeq(bs) /\ "blocks" \in DOMAIN fn /\ \A b \in DOMAIN bs : Validator!BlockIsValid(bs[b])
  BY <1>1 DEF Validator!IsValid, Validator!IsArray, IsSeq
<1>3. PICK n \in Nat : n = Len(bs) /\ DOMAIN bs = 1..n
  BY <1>2, SeqFacts
<1>4. PICK x : /\ Passed([pass |-> "blocks", fns |-> fns], InlineStart, bs, x)
               /\ DOMAIN Opt!InlineFunction(fn, fns) = DOMAIN fn
               /\ Opt!InlineFunction(fn, fns).blocks = x.blocks
  BY <1>1, <1>2, <1>3, BlockPasses
<1>5. PICK p : p = [pass |-> "blocks", fns |-> fns]
  OBVIOUS
<1>6. \A a, i : Stage(p, a, i) = Opt!InlineBlock(a, i, fns)
  BY <1>5 DEF Stage
<1>7. PICK g : /\ g[0] = InlineStart
               /\ \A k \in 1..n : g[k] = Opt!InlineBlock(g[k - 1], bs[k], fns)
               /\ x = g[n]
  BY <1>3, <1>4, <1>5, <1>6 DEF Passed
<1> DEFINE T == {k \in 0..n : IsInlining(g[k]) /\ BlocksFollow(bs, k, g[k].blocks)}
<1>8. 0 \in T
  <2>1. IsInlining(g[0]) /\ g[0].blocks = <<>>
    BY <1>7 DEF IsInlining, InlineStart
  <2> QED
    BY <2>1, BlocksNone
<1>9. ASSUME NEW k \in 0..n, k \in T, k # n PROVE k + 1 \in T
  <2>1. PICK h \in 1..n : h = k + 1 /\ h - 1 = k /\ k \in Nat
    BY <1>9
  <2>2. g[h] = Opt!InlineBlock(g[k], bs[h], fns)
    BY <1>7, <2>1
  <2>3. Validator!BlockIsValid(bs[h])
    BY <1>2, <1>3, <2>1
  <2>4. IsInlining(g[k]) /\ BlocksFollow(bs, k, g[k].blocks)
    BY <1>9
  <2>5. PICK a, b : a = g[k] /\ b = bs[h]
    OBVIOUS
  <2>6. IsInlining(a) /\ Validator!BlockIsValid(b)
    BY <2>3, <2>5, <2>4
  <2>7. /\ IsInlining(Opt!InlineBlock(a, b, fns))
         /\ \E c : BlockFollows(b, c) /\ Opt!InlineBlock(a, b, fns).blocks = Append(a.blocks, c)
    BY <2>6, InlineBlockFollows
  <2>8. PICK c : BlockFollows(b, c) /\ Opt!InlineBlock(a, b, fns).blocks = Append(a.blocks, c)
    BY <2>7
  <2>9. BlocksFollow(bs, h, Append(g[k].blocks, c))
    BY <2>1, <2>5, <2>8, <2>4, BlocksMore
  <2>10. h \in 0..n /\ IsInlining(g[h]) /\ BlocksFollow(bs, h, g[h].blocks)
    BY <2>1, <2>2, <2>5, <2>8, <2>9, <2>7
  <2>11. h \in T
    BY <2>10
  <2> QED
    BY <2>1, <2>11
<1> HIDE DEF T
<1>10. \A k \in 0..n : k \in T
  BY <1>8, <1>9, UpTo DEF T
<1>11. BlocksFollow(bs, n, x.blocks)
  BY <1>7, <1>10 DEF T
<1> QED
  BY <1>1, <1>3, <1>4, <1>11

\* ... and after the passes over each block.
LEMMA OptimizeBlockFollows ==
  ASSUME NEW b, {"label", "instrs"} \subseteq DOMAIN b, IsSeq(b.instrs), NEW bs
  PROVE  \E c : BlockFollows(b, c) /\ Opt!OptimizeBlock(bs, b) = Append(bs, c)
<1>1. PICK is : is = b.instrs
  OBVIOUS
<1>2. PICK ps : ps = Opt!PropagateBlock(is)
  OBVIOUS
<1>3. PICK rs : rs = Opt!ReduceBlock(ps)
  OBVIOUS
<1>4. Follows(is, Len(is), ps)
  BY <1>1, <1>2, PropagateFollows
<1>5. Follows(ps, Len(ps), rs)
  BY <1>3, <1>4, ReduceFollows DEF Follows
<1>6. Len(is) \in Nat
  BY <1>1, SeqFacts
<1>7. Follows(is, Len(is), rs)
  BY <1>4, <1>5, <1>6, FollowsThrough
<1>8. PICK c : c = [b EXCEPT !.instrs = rs]
  OBVIOUS
<1>9. BlockFollows(b, c)
  BY <1>1, <1>7, <1>8 DEF BlockFollows
<1>10. Opt!OptimizeBlock(bs, b) = Append(bs, c)
  BY <1>1, <1>2, <1>3, <1>8 DEF Opt!OptimizeBlock
<1> QED
  BY <1>9, <1>10

\* The blocks of what optimizeIR makes follow those of the function.
LEMMA OptimizedFollows ==
  ASSUME NEW fn, Validator!IsValid(fn), NEW fns, \A f \in DOMAIN fns : Validator!IsValid(fns[f])
  PROVE  /\ DOMAIN Opt!OptimizeIR(fn, fns) = DOMAIN fn
         /\ BlocksFollow(fn.blocks, Len(fn.blocks), Opt!OptimizeIR(fn, fns).blocks)
<1>1. PICK bs : bs = Opt!InlineFunction(fn, fns).blocks
  OBVIOUS
<1>2. /\ DOMAIN Opt!InlineFunction(fn, fns) = DOMAIN fn
      /\ BlocksFollow(fn.blocks, Len(fn.blocks), bs)
  BY <1>1, InlinedFollows
<1>3. /\ IsSeq(fn.blocks) /\ "blocks" \in DOMAIN fn
      /\ \A b \in DOMAIN fn.blocks : IsSeq(fn.blocks[b].instrs)
  BY DEF Validator!IsValid, Validator!BlockIsValid, Validator!IsArray, IsSeq
<1>4. PICK n \in Nat : n = Len(fn.blocks) /\ DOMAIN fn.blocks = 1..n
  BY <1>3, SeqFacts
<1>5. IsSeq(bs) /\ Len(bs) = n /\ \A b \in 1..n : BlockFollows(fn.blocks[b], bs[b])
  BY <1>2, <1>4 DEF BlocksFollow
<1>6. /\ DOMAIN Opt!OptimizeIR(fn, fns) = DOMAIN fn
      /\ Passed([pass |-> "optimize"], <<>>, bs, Opt!OptimizeIR(fn, fns).blocks)
  BY <1>1, <1>2, <1>3, <1>5, OptimizePasses
<1>7. PICK g : /\ g[0] = <<>>
               /\ \A k \in 1..n : g[k] = Opt!OptimizeBlock(g[k - 1], bs[k])
               /\ Opt!OptimizeIR(fn, fns).blocks = g[n]
  BY <1>5, <1>6 DEF Passed, Stage
<1> DEFINE T == {k \in 0..n : BlocksFollow(bs, k, g[k])}
<1>8. 0 \in T
  BY <1>7, BlocksNone
<1>9. ASSUME NEW k \in 0..n, k \in T, k # n PROVE k + 1 \in T
  <2>1. PICK h \in 1..n : h = k + 1 /\ h - 1 = k /\ k \in Nat
    BY <1>9
  <2>2. g[h] = Opt!OptimizeBlock(g[k], bs[h])
    BY <1>7, <2>1
  <2>3. {"label", "instrs"} \subseteq DOMAIN bs[h] /\ IsSeq(bs[h].instrs)
    BY <1>5 DEF BlockFollows, Follows
  <2>4. PICK c : BlockFollows(bs[h], c) /\ Opt!OptimizeBlock(g[k], bs[h]) = Append(g[k], c)
    BY <2>3, OptimizeBlockFollows
  <2>5. BlocksFollow(bs, h, Append(g[k], c))
    BY <1>9, <2>1, <2>4, BlocksMore
  <2>6. h \in 0..n /\ BlocksFollow(bs, h, g[h])
    BY <2>1, <2>2, <2>4, <2>5
  <2>7. h \in T
    BY <2>6
  <2> QED
    BY <2>1, <2>7
<1> HIDE DEF T
<1>10. \A k \in 0..n : k \in T
  BY <1>8, <1>9, UpTo DEF T
<1>11. BlocksFollow(bs, n, g[n])
  BY <1>10 DEF T
<1>12. \A b \in 1..n : Len(fn.blocks[b].instrs) \in Nat
  BY <1>3, <1>4, SeqFacts
<1>13. BlocksFollow(fn.blocks, n, g[n])
  BY <1>2, <1>4, <1>11, <1>12, BlocksThrough
<1> QED
  BY <1>4, <1>6, <1>7, <1>13

-----------------------------------------------------------------------------
\* The IR that leaves the optimizer.

\* A sequence is what the validator takes for an array.
LEMMA SeqIsArray ==
  ASSUME NEW s, IsSeq(s)
  PROVE  Validator!IsArray(s)
<1>1. PICK S : s \in Seq(S)
  BY DEF IsSeq
<1>2. PICK n \in Nat : s \in [1..n -> S] /\ n = Len(s)
  BY <1>1, LenProperties, SeqDef
<1> DEFINE R == Validator!Range(s)
<1>3. s \in [1..n -> R]
  BY <1>2 DEF Validator!Range
<1> HIDE DEF R
<1>4. s \in Seq(R)
  BY <1>3, SeqDef
<1> QED
  BY <1>4 DEF Validator!IsArray, R

\* What follows valid instructions is valid, and jumps to no other targets.
LEMMA FollowingIsValid ==
  ASSUME NEW s, IsSeq(s), s # <<>>, \A j \in DOMAIN s : Validator!InstrIsValid(s[j]),
         NEW t, Follows(s, Len(s), t)
  PROVE  /\ Validator!IsArray(t) /\ t # <<>>
         /\ \A j \in DOMAIN t : Validator!InstrIsValid(t[j])
         /\ \A j \in DOMAIN t : Validator!Targets(t[j]) = {} \/ \E h \in DOMAIN s : t[j] = s[h]
<1>1. Len(s) \in Nat /\ DOMAIN s = 1..Len(s) /\ Len(s) # 0
  BY SeqFacts
<1>2. PICK m : Along(m, s, Len(s), t)
  BY DEF Follows
<1>3. IsSeq(t) /\ Len(t) \in Nat /\ DOMAIN t = 1..Len(t) /\ Len(t) # 0
  BY <1>1, <1>2, SeqFacts DEF Follows, Along
<1>4. ASSUME NEW j \in DOMAIN t
      PROVE  /\ Validator!InstrIsValid(t[j])
             /\ Validator!Targets(t[j]) = {} \/ \E h \in DOMAIN s : t[j] = s[h]
  <2>1. m[j] \in DOMAIN s /\ (t[j] = s[m[j]] \/ New(t[j]))
    BY <1>1, <1>2, <1>3 DEF Along
  <2>2. CASE New(t[j])
    <3>1. t[j].op \notin {"jump", "branch_if", "branch_iter_has_next"} /\ Validator!InstrIsValid(t[j])
      BY <2>2, NewFacts DEF Control, Ends
    <3> QED
      BY <3>1 DEF Validator!Targets
  <2> QED
    BY <2>1, <2>2
<1> QED
  BY <1>3, <1>4, SeqIsArray, SeqFacts

\* Of a valid function, in a program of valid functions, the optimizer makes
\* a valid function: what inlineCalls, constantPropagation and
\* reduceRedundantChecks of src/optimizer.js write passes validateSerializedIR.
THEOREM OptimizedIsValid ==
  ASSUME NEW fn, Validator!IsValid(fn), NEW fns, \A f \in DOMAIN fns : Validator!IsValid(fns[f])
  PROVE  Validator!IsValid(Opt!OptimizeIR(fn, fns))
<1>1. PICK r, bs, cs : r = Opt!OptimizeIR(fn, fns) /\ bs = fn.blocks /\ cs = r.blocks
  OBVIOUS
<1>2. DOMAIN r = DOMAIN fn /\ BlocksFollow(bs, Len(bs), cs)
  BY <1>1, OptimizedFollows
<1>3. /\ {"params", "ret", "blocks"} \subseteq DOMAIN fn
      /\ IsSeq(bs) /\ bs # <<>>
      /\ \A b \in DOMAIN bs : Validator!BlockIsValid(bs[b])
      /\ Validator!LabelsDiffer(fn) /\ Validator!Entry \in Validator!Labels(fn) /\ Validator!TargetsExist(fn)
  BY <1>1 DEF Validator!IsValid, Validator!IsArray, IsSeq
<1>4. Len(bs) \in Nat /\ DOMAIN bs = 1..Len(bs) /\ Len(bs) # 0
  BY <1>3, SeqFacts
<1>5. /\ IsSeq(cs) /\ DOMAIN cs = DOMAIN bs /\ cs # <<>>
      /\ \A b \in DOMAIN bs : BlockFollows(bs[b], cs[b])
  <2>1. IsSeq(cs) /\ Len(cs) = Len(bs) /\ \A b \in 1..Len(bs) : BlockFollows(bs[b], cs[b])
    BY <1>2 DEF BlocksFollow
  <2>2. DOMAIN cs = 1..Len(cs) /\ cs # <<>>
    BY <1>4, <2>1, SeqFacts
  <2> QED
    BY <1>4, <2>1, <2>2
<1>6. \A b \in DOMAIN bs : cs[b].label = bs[b].label
  BY <1>5 DEF BlockFollows
<1>7. Validator!Labels(r) = Validator!Labels(fn)
  BY <1>1, <1>5, <1>6 DEF Validator!Labels
<1>8. Validator!LabelsDiffer(r)
  BY <1>1, <1>3, <1>5, <1>6 DEF Validator!LabelsDiffer
<1>9. ASSUME NEW b \in DOMAIN bs
      PROVE  /\ Validator!BlockIsValid(cs[b])
             /\ \A j \in DOMAIN cs[b].instrs : Validator!Targets(cs[b].instrs[j]) \subseteq Validator!Labels(fn)
  <2>1. PICK s, t : s = bs[b].instrs /\ t = cs[b].instrs
    OBVIOUS
  <2>2. /\ IsSeq(s) /\ s # <<>>
        /\ \A j \in DOMAIN s : Validator!InstrIsValid(s[j])
    BY <1>3, <2>1 DEF Validator!BlockIsValid, Validator!IsArray, IsSeq
  <2>3. Follows(s, Len(s), t) /\ {"label", "instrs"} \subseteq DOMAIN cs[b]
    BY <1>5, <2>1 DEF BlockFollows
  <2>4. /\ Validator!IsArray(t) /\ t # <<>>
        /\ \A j \in DOMAIN t : Validator!InstrIsValid(t[j])
        /\ \A j \in DOMAIN t : Validator!Targets(t[j]) = {} \/ \E h \in DOMAIN s : t[j] = s[h]
    BY <2>2, <2>3, FollowingIsValid
  <2>5. Validator!BlockIsValid(cs[b])
    BY <2>1, <2>3, <2>4 DEF Validator!BlockIsValid
  <2>6. \A h \in DOMAIN s : Validator!Targets(s[h]) \subseteq Validator!Labels(fn)
    BY <1>1, <1>3, <2>1 DEF Validator!TargetsExist
  <2> QED
    BY <2>1, <2>4, <2>5, <2>6
<1>10. Validator!TargetsExist(r)
  BY <1>1, <1>5, <1>7, <1>9 DEF Validator!TargetsExist
<1>11. Validator!IsArray(cs)
  BY <1>5, SeqIsArray
<1>12. Validator!IsValid(r)
  BY <1>1, <1>2, <1>3, <1>5, <1>7, <1>8, <1>9, <1>10, <1>11 DEF Validator!IsValid
<1> QED
  BY <1>1, <1>12

-----------------------------------------------------------------------------
\* Where the C generator cuts a block.

\* The first elements of a sequence.
LEMMA FirstsFacts ==
  ASSUME NEW s, IsSeq(s), NEW h \in 1..Len(s)
  PROVE  /\ IsSeq(SubSeq(s, 1, h)) /\ Len(SubSeq(s, 1, h)) = h
         /\ \A k \in 1..h : SubSeq(s, 1, h)[k] = s[k]
<1>1. PICK S : s \in Seq(S)
  BY DEF IsSeq
<1>2. Len(s) \in Nat
  BY SeqFacts
<1> DEFINE r == SubSeq(s, 1, h)
<1>3. \A i \in 1..h : s[i] \in S
  BY <1>1, <1>2, ElementOfSeq
<1>4. /\ r \in Seq(S)
      /\ Len(r) = IF 1 <= h THEN h - 1 + 1 ELSE 0
      /\ \A i \in 1..(h - 1 + 1) : r[i] = s[1 + i - 1]
  BY <1>2, <1>3, SubSeqProperties
<1> HIDE DEF r
<1>5. Len(r) = h /\ \A k \in 1..h : r[k] = s[k]
  BY <1>2, <1>4
<1> QED
  BY <1>4, <1>5 DEF r, IsSeq

\* It is cut behind the first of its cuts, or has none and gets a return.
LEMMA CutFacts ==
  ASSUME NEW b, "instrs" \in DOMAIN b, NEW s, s = b.instrs, IsSeq(s)
  PROVE  /\ (\A j \in 1..Len(s) : s[j].op \notin Gen!Cuts)
              => Gen!CutBlock(b).instrs = Append(s, [op |-> "default_return"])
         /\ \A h \in 1..Len(s) :
              s[h].op \in Gen!Cuts /\ (\A j \in 1..Len(s) : j < h => s[j].op \notin Gen!Cuts)
                => Gen!CutBlock(b).instrs = SubSeq(s, 1, h)
<1> DEFINE at == {j \in DOMAIN b.instrs : b.instrs[j].op \in Gen!Cuts}
           first == CHOOSE j \in at : \A h \in at : j <= h
<1>1. PICK n \in Nat : n = Len(s) /\ DOMAIN s = 1..n
  BY SeqFacts
<1>2. at = {j \in 1..n : s[j].op \in Gen!Cuts}
  BY <1>1
<1>3. Gen!CutBlock(b).instrs = IF at = {} THEN Append(s, [op |-> "default_return"]) ELSE SubSeq(s, 1, first)
  BY DEF Gen!CutBlock
<1>4. ASSUME NEW h \in 1..n, s[h].op \in Gen!Cuts, \A j \in 1..n : j < h => s[j].op \notin Gen!Cuts
      PROVE  at # {} /\ first = h
  <2>1. h \in at
    BY <1>2, <1>4
  <2>2. \A j \in at : j \in 1..n /\ h <= j
    BY <1>2, <1>4
  <2> HIDE DEF at
  <2>3. first \in at /\ \A j \in at : first <= j
    BY <2>1, <2>2
  <2> HIDE DEF first
  <2>4. first \in 1..n /\ h <= first /\ first <= h
    BY <2>1, <2>2, <2>3
  <2> QED
    BY <2>1, <2>4
<1>5. (\A j \in 1..n : s[j].op \notin Gen!Cuts) => at = {}
  BY <1>2
<1> HIDE DEF at, first
<1> QED
  BY <1>1, <1>3, <1>4, <1>5

\* Of a sequence only the first k elements matter to what follows them.
LEMMA FollowsPrefix ==
  ASSUME NEW s, NEW k \in Nat, NEW t, Follows(s, k, t), NEW u, \A j \in 1..k : u[j] = s[j]
  PROVE  Follows(u, k, t)
<1>1. PICK m : Along(m, s, k, t)
  BY DEF Follows
<1>2. \A j \in 1..Len(t) : m[j] \in 1..k
  BY <1>1 DEF Along
<1>3. Along(m, u, k, t)
  BY <1>1, <1>2 DEF Along
<1> QED
  BY <1>3 DEF Follows

\* The part that is written of a block follows that of the block it follows.
LEMMA CutFollows ==
  ASSUME NEW b, "instrs" \in DOMAIN b, IsSeq(b.instrs),
         NEW c, "instrs" \in DOMAIN c, Follows(b.instrs, Len(b.instrs), c.instrs)
  PROVE  /\ IsSeq(Gen!CutBlock(b).instrs)
         /\ Follows(Gen!CutBlock(b).instrs, Len(Gen!CutBlock(b).instrs), Gen!CutBlock(c).instrs)
<1>1. PICK s, t : s = b.instrs /\ t = c.instrs
  OBVIOUS
<1>2. PICK n \in Nat : n = Len(s)
  BY <1>1, SeqFacts
<1>3. IsSeq(s) /\ IsSeq(t) /\ Follows(s, n, t)
  BY <1>1, <1>2 DEF Follows
<1>4. PICK q \in Nat : q = Len(t)
  BY <1>3, SeqFacts
<1>5. PICK m : Along(m, s, n, t)
  BY <1>3 DEF Follows
<1>6. /\ m \in [1..q -> 1..n]
      /\ \A i, j \in 1..q : i <= j => m[i] <= m[j]
      /\ \A j \in 1..q : t[j] = s[m[j]] \/ (New(t[j]) /\ s[m[j]].op \notin Control)
      /\ \A h \in 1..n : s[h].op \in Control =>
           \E j \in 1..q : m[j] = h /\ \A i \in 1..q : m[i] = h => i = j
      /\ n # 0 => q # 0
  BY <1>4, <1>5 DEF Along
<1>7. Gen!Cuts \subseteq Control
  BY DEF Control
<1>8. \A j \in 1..q : s[m[j]].op \notin Gen!Cuts => t[j].op \notin Gen!Cuts
  BY <1>6, <1>7, NewFacts
<1>9. CASE \A j \in 1..n : s[j].op \notin Gen!Cuts
  <2>1. \A j \in 1..q : t[j].op \notin Gen!Cuts
    BY <1>6, <1>8, <1>9
  <2>2. PICK d : d = [op |-> "default_return"]
    OBVIOUS
  <2>3. Gen!CutBlock(b).instrs = Append(s, d) /\ Gen!CutBlock(c).instrs = Append(t, d)
    BY <1>1, <1>2, <1>3, <1>4, <1>9, <2>1, <2>2, CutFacts
  <2>4. PICK u : u = Append(s, d)
    OBVIOUS
  <2>5. IsSeq(u) /\ Len(u) = n + 1 /\ u[n + 1] = d /\ \A k \in 1..n : u[k] = s[k]
    BY <1>2, <1>3, <2>4, AppendFacts
  <2>6. Follows(u, n, t)
    BY <1>3, <2>5, FollowsPrefix
  <2>7. PICK h \in {n, n + 1} : h = n + 1 /\ h # 0
    OBVIOUS
  <2>8. Follows(u, h, Append(t, d))
    BY <2>5, <2>6, <2>7, FollowsMore
  <2> QED
    BY <2>3, <2>4, <2>5, <2>7, <2>8
<1>10. CASE \E j \in 1..n : s[j].op \in Gen!Cuts
  <2> DEFINE at == {j \in 1..n : s[j].op \in Gen!Cuts}
  <2>1. PICK h \in at : \A j \in at : h <= j
    <3>1. at \in SUBSET Nat /\ at # {}
      BY <1>10
    <3> HIDE DEF at
    <3> QED
      BY <3>1, LeastIndex
  <2>2. h \in 1..n /\ s[h].op \in Gen!Cuts /\ \A j \in 1..n : j < h => s[j].op \notin Gen!Cuts
    BY <2>1
  <2> HIDE DEF at
  <2>3. PICK a \in 1..q : m[a] = h /\ \A i \in 1..q : m[i] = h => i = a
    BY <1>6, <1>7, <2>2
  <2>4. t[a] = s[h]
    BY <1>6, <1>7, <2>2, <2>3
  <2>5. ASSUME NEW j \in 1..q, j < a PROVE t[j].op \notin Gen!Cuts
    <3>1. m[j] \in 1..n /\ m[j] <= h /\ m[j] # h
      BY <1>6, <2>3, <2>5
    <3>2. m[j] < h
      BY <2>2, <3>1
    <3> QED
      BY <1>8, <2>2, <3>1, <3>2
  <2>6. Gen!CutBlock(b).instrs = SubSeq(s, 1, h)
    BY <1>1, <1>2, <1>3, <2>2, CutFacts
  <2>7. Gen!CutBlock(c).instrs = SubSeq(t, 1, a)
    BY <1>1, <1>3, <1>4, <2>2, <2>3, <2>4, <2>5, CutFacts
  <2>8. PICK u, w : u = SubSeq(s, 1, h) /\ w = SubSeq(t, 1, a)
    OBVIOUS
  <2>9. /\ IsSeq(u) /\ Len(u) = h /\ \A k \in 1..h : u[k] = s[k]
        /\ IsSeq(w) /\ Len(w) = a /\ \A k \in 1..a : w[k] = t[k]
    BY <1>2, <1>3, <1>4, <2>2, <2>8, FirstsFacts
  <2> DEFINE v == [j \in 1..a |-> m[j]]
  <2>10. \A j \in 1..a : j \in 1..q /\ m[j] \in 1..h
    <3>1. ASSUME NEW j \in 1..a PROVE j \in 1..q /\ m[j] \in 1..h
      <4>1. j \in 1..q /\ j <= a
        BY <2>3
      <4>2. m[j] <= h /\ m[j] \in 1..n
        BY <1>6, <2>3, <4>1
      <4> QED
        BY <4>1, <4>2, <2>2
    <3> QED
      BY <3>1
  <2>11. v \in [1..a -> 1..h] /\ \A j \in 1..a : v[j] = m[j]
    BY <2>10
  <2> HIDE DEF v
  <2>12. ASSUME NEW k \in 1..h, u[k].op \in Control
         PROVE  \E j \in 1..a : v[j] = k /\ \A i \in 1..a : v[i] = k => i = j
    <3>1. k \in 1..n /\ s[k].op \in Control
      BY <2>2, <2>9, <2>12
    <3>2. PICK j \in 1..q : m[j] = k /\ \A i \in 1..q : m[i] = k => i = j
      BY <1>6, <3>1
    <3>3. j \in 1..a
      <4>1. CASE k = h
        BY <2>3, <3>2, <4>1
      <4>2. CASE k # h
        <5>1. ~(a <= j)
          <6>1. a <= j => h <= k
            BY <1>6, <2>3, <3>2
          <6>2. ~(h <= k)
            BY <2>2, <3>1, <4>2
          <6> QED
            BY <6>1, <6>2
        <5> QED
          BY <2>3, <3>2, <5>1
      <4> QED
        BY <4>1, <4>2
    <3> QED
      BY <2>10, <2>11, <3>2, <3>3
  <2>13. ASSUME NEW j \in 1..a PROVE w[j] = u[v[j]] \/ (New(w[j]) /\ u[v[j]].op \notin Control)
    <3>1. j \in 1..q /\ m[j] \in 1..h /\ v[j] = m[j]
      BY <2>10, <2>11
    <3>2. w[j] = t[j] /\ u[v[j]] = s[m[j]]
      BY <2>9, <3>1
    <3> QED
      BY <1>6, <3>1, <3>2
  <2>14. \A i, j \in 1..a : i <= j => v[i] <= v[j]
    BY <1>6, <2>10, <2>11
  <2>15. a # 0
    BY <1>4
  <2>16. Along(v, u, h, w)
    BY <2>9, <2>11, <2>12, <2>13, <2>14, <2>15 DEF Along
  <2>17. IsSeq(u) /\ Follows(u, Len(u), w)
    BY <2>9, <2>16 DEF Follows
  <2> QED
    BY <2>6, <2>7, <2>8, <2>17
<1> QED
  BY <1>9, <1>10

-----------------------------------------------------------------------------
\* What the C generator writes of a block.

\* t is the first k instructions of s, with what is written of list operations
\* in their places.
Writes(s, k, t) ==
  /\ IsSeq(t) /\ Len(t) = k
  /\ \A j \in 1..k : t[j] = s[j] \/ (New(t[j]) /\ s[j].op \in ListOps)

\* An instruction with the fields of a list operation is new.
LEMMA ListOpIsNew ==
  ASSUME NEW x, x.op \in ListOps, "op" \in DOMAIN x, Validator!Required[x.op] \subseteq DOMAIN x
  PROVE  New(x)
<1>1. x.op \in Validator!KnownOps
  BY DEF Validator!KnownOps, ListOps
<1> QED
  BY <1>1 DEF New, NewOps, Validator!InstrIsValid

\* What is written of an instruction is the instruction, or a valid one in its place.
LEMMA EmitInstrWrites ==
  ASSUME NEW i, NEW a, NEW types
  PROVE  Gen!EmitInstr(i, a, types) = i \/ (New(Gen!EmitInstr(i, a, types)) /\ i.op \in ListOps)
<1> DEFINE x == Gen!EmitInstr(i, a, types)
<1>1. CASE i.op = "call_method_static"
  <2>1. x.op = i.op /\ {"op", "dst", "receiver", "method", "args"} \subseteq DOMAIN x
    BY <1>1 DEF Gen!EmitInstr
  <2>2. Validator!Required["call_method_static"] = {"dst", "receiver", "method", "args"}
    BY DEF Validator!Required
  <2> HIDE DEF x
  <2>3. New(x)
    BY <1>1, <2>1, <2>2, ListOpIsNew DEF ListOps
  <2> QED
    BY <1>1, <2>3 DEF x, ListOps
<1>2. CASE i.op = "make_view"
  <2>1. x.op = i.op /\ {"op", "dst", "source", "offset", "len", "readonly"} \subseteq DOMAIN x
    BY <1>2 DEF Gen!EmitInstr
  <2>2. Validator!Required["make_view"] = {"dst", "source", "offset", "len", "readonly"}
    BY DEF Validator!Required
  <2> HIDE DEF x
  <2>3. New(x)
    BY <1>2, <2>1, <2>2, ListOpIsNew DEF ListOps
  <2> QED
    BY <1>2, <2>3 DEF x, ListOps
<1>3. CASE i.op \in {"index_get", "index_set"}
  <2>1. x.op = i.op /\ {"op", "dst", "target", "index", "src"} \subseteq DOMAIN x
    BY <1>3 DEF Gen!EmitInstr
  <2>2. /\ Validator!Required["index_get"] = {"dst", "target", "index"}
        /\ Validator!Required["index_set"] = {"target", "index", "src"}
    BY DEF Validator!Required
  <2> HIDE DEF x
  <2>3. New(x)
    BY <1>3, <2>1, <2>2, ListOpIsNew DEF ListOps
  <2> QED
    BY <1>3, <2>3 DEF x, ListOps
<1>4. CASE i.op = "iter_begin"
  <2>1. x.op = i.op /\ {"op", "dst", "source"} \subseteq DOMAIN x
    BY <1>4 DEF Gen!EmitInstr
  <2>2. Validator!Required["iter_begin"] = {"dst", "source"}
    BY DEF Validator!Required
  <2> HIDE DEF x
  <2>3. New(x)
    BY <1>4, <2>1, <2>2, ListOpIsNew DEF ListOps
  <2> QED
    BY <1>4, <2>3 DEF x, ListOps
<1>5. CASE i.op = "iter_next"
  <2>1. x.op = i.op /\ {"op", "dst", "iter", "source"} \subseteq DOMAIN x
    BY <1>5 DEF Gen!EmitInstr
  <2>2. Validator!Required["iter_next"] = {"dst", "iter", "source"}
    BY DEF Validator!Required
  <2> HIDE DEF x
  <2>3. New(x)
    BY <1>5, <2>1, <2>2, ListOpIsNew DEF ListOps
  <2> QED
    BY <1>5, <2>3 DEF x, ListOps
<1>6. CASE i.op \notin ListOps
  BY <1>6 DEF Gen!EmitInstr, ListOps
<1> QED
  BY <1>1, <1>2, <1>3, <1>4, <1>5, <1>6 DEF ListOps

\* What is written follows what it is written of, and the other way.
LEMMA WritesFollows ==
  ASSUME NEW s, IsSeq(s), NEW t, Writes(s, Len(s), t)
  PROVE  /\ Follows(s, Len(s), t)
         /\ (\A j \in 1..Len(s) : s[j].op \in ListOps => Validator!InstrIsValid(s[j])) => Follows(t, Len(t), s)
<1>1. PICK n \in Nat : n = Len(s)
  BY SeqFacts
<1>2. IsSeq(t) /\ n = Len(t) /\ \A j \in 1..n : t[j] = s[j] \/ (New(t[j]) /\ s[j].op \in ListOps)
  BY <1>1 DEF Writes
<1> DEFINE m == [j \in 1..n |-> j]
<1>3. m \in [1..n -> 1..n] /\ \A j \in 1..n : m[j] = j
  OBVIOUS
<1> HIDE DEF m
<1>4. ListOps \cap Control = {} /\ ListOps \subseteq NewOps
  BY DEF ListOps, NewOps, Control, Ends, Gen!Cuts
<1>5. /\ \A i, j \in 1..n : i <= j => m[i] <= m[j]
      /\ \A h \in 1..n : \E j \in 1..n : m[j] = h /\ \A i \in 1..n : m[i] = h => i = j
  BY <1>3
<1>6. \A j \in 1..n : t[j] = s[m[j]] \/ (New(t[j]) /\ s[m[j]].op \notin Control)
  BY <1>2, <1>3, <1>4
<1>7. Along(m, s, n, t)
  BY <1>1, <1>2, <1>3, <1>5, <1>6 DEF Along
<1>8. ASSUME \A j \in 1..n : s[j].op \in ListOps => Validator!InstrIsValid(s[j])
      PROVE  Along(m, t, n, s)
  <2>1. \A j \in 1..n : s[j] = t[m[j]] \/ (New(s[j]) /\ t[m[j]].op \notin Control)
    BY <1>2, <1>3, <1>4, <1>8, NewFacts DEF New
  <2> QED
    BY <1>1, <1>2, <1>3, <1>5, <2>1 DEF Along
<1> QED
  BY <1>1, <1>2, <1>7, <1>8 DEF Follows

\* What emitFunctionBody carries from one block to the next.
IsEmitting(acc) == DOMAIN acc = {"types", "a", "is", "blocks"}

\* acc with block b, of the instructions acc has, at its end.
WithWritten(acc, b) == [acc EXCEPT !.blocks = Append(@, [label |-> b.label, instrs |-> acc.is])]

\* emitFunctionBody takes the instructions of a block one by one.
LEMMA EmitPasses ==
  ASSUME NEW acc, NEW b, NEW is, is = Gen!CutBlock(b).instrs, Len(is) \in Nat
  PROVE  \E x : /\ Passed([pass |-> "emit"], [acc EXCEPT !.is = <<>>], is, x)
                /\ Gen!EmitBlock(acc, b) = WithWritten(x, b)
<1> DEFINE p == [pass |-> "emit"]
           base == [acc EXCEPT !.is = <<>>]
           n == Len(is)
           after == CHOOSE f : f = [i \in 0..n |-> IF i = 0 THEN base
                      ELSE CHOOSE r \in {Gen!EmitNext(before, is[i]) : before \in {f[i - 1]}} : TRUE]
<1>1. \A a, i : Stage(p, a, i) = Gen!EmitNext(a, i)
  BY DEF Stage
<1>2. Gen!EmitBlock(acc, b) = WithWritten(after[n], b)
  BY DEF Gen!EmitBlock, Gen!Pass, WithWritten
<1> HIDE DEF base
<1>3. PICK g : Runs(g, n, p, base, is)
  BY RunExists
<1>4. \A i \in 0..n : (IF i = 0 THEN base ELSE Stage(p, g[i - 1], is[i]))
                      = (IF i = 0 THEN base ELSE CHOOSE r \in {Gen!EmitNext(before, is[i]) : before \in {g[i - 1]}} : TRUE)
  BY <1>1
<1>5. g = [i \in 0..n |-> IF i = 0 THEN base
             ELSE CHOOSE r \in {Gen!EmitNext(before, is[i]) : before \in {g[i - 1]}} : TRUE]
  BY <1>3, <1>4 DEF Runs
<1>6. after = [i \in 0..n |-> IF i = 0 THEN base
             ELSE CHOOSE r \in {Gen!EmitNext(before, is[i]) : before \in {after[i - 1]}} : TRUE]
  BY <1>5
<1> HIDE DEF after
<1>7. /\ after[0] = base
      /\ \A k \in 1..n : after[k] = Gen!EmitNext(after[k - 1], is[k])
  BY <1>6
<1>8. Passed(p, base, is, after[n])
  BY <1>1, <1>7 DEF Passed
<1> QED
  BY <1>2, <1>8 DEF base

\* d is written of block b, under its label.
BlockWritten(b, d) ==
  /\ {"label", "instrs"} \subseteq DOMAIN d
  /\ d.label = b.label
  /\ Writes(Gen!CutBlock(b).instrs, Len(Gen!CutBlock(b).instrs), d.instrs)

\* What is written of a block is written of its instructions up to the cut.
LEMMA EmitBlockWrites ==
  ASSUME NEW acc, IsEmitting(acc), NEW b, IsSeq(Gen!CutBlock(b).instrs)
  PROVE  /\ IsEmitting(Gen!EmitBlock(acc, b))
         /\ \E d : BlockWritten(b, d) /\ Gen!EmitBlock(acc, b).blocks = Append(acc.blocks, d)
<1>1. PICK is : is = Gen!CutBlock(b).instrs
  OBVIOUS
<1>2. PICK n \in Nat : n = Len(is)
  BY <1>1, SeqFacts
<1>3. PICK p, base : p = [pass |-> "emit"] /\ base = [acc EXCEPT !.is = <<>>]
  OBVIOUS
<1>4. PICK x : /\ Passed(p, base, is, x)
               /\ Gen!EmitBlock(acc, b) = WithWritten(x, b)
  BY <1>1, <1>2, <1>3, EmitPasses
<1>5. \A a, i : Stage(p, a, i) = Gen!EmitNext(a, i)
  BY <1>3 DEF Stage
<1>6. PICK g : /\ g[0] = base
               /\ \A k \in 1..n : g[k] = Gen!EmitNext(g[k - 1], is[k])
               /\ x = g[n]
  BY <1>2, <1>4, <1>5 DEF Passed
<1> DEFINE T == {k \in 0..n : IsEmitting(g[k]) /\ g[k].blocks = acc.blocks /\ Writes(is, k, g[k].is)}
<1>7. 0 \in T
  <2>1. IsEmitting(g[0]) /\ g[0].blocks = acc.blocks /\ g[0].is = <<>>
    BY <1>3, <1>6 DEF IsEmitting
  <2>2. <<>> \in Seq({}) /\ Len(<<>>) = 0 /\ 1..0 = {}
    OBVIOUS
  <2>3. Writes(is, 0, <<>>)
    BY <2>2 DEF Writes, IsSeq
  <2> QED
    BY <2>1, <2>3
<1>8. ASSUME NEW k \in 0..n, k \in T, k # n PROVE k + 1 \in T
  <2>1. PICK h \in 1..n : h = k + 1 /\ h - 1 = k /\ k \in Nat
    BY <1>8
  <2>2. PICK a, t, u : a = g[k] /\ t = a.is /\ u = g[h].is
    OBVIOUS
  <2>3. IsEmitting(a) /\ a.blocks = acc.blocks /\ Writes(is, k, t)
    BY <1>8, <2>2
  <2>4. g[h] = Gen!EmitNext(a, is[h])
    BY <1>6, <2>1, <2>2
  <2>5. PICK y : y = Gen!EmitInstr(is[h], a.a, a.types)
    OBVIOUS
  <2>6. IsEmitting(g[h]) /\ g[h].blocks = a.blocks /\ u = Append(t, y)
    BY <2>2, <2>3, <2>4, <2>5 DEF Gen!EmitNext, IsEmitting
  <2>7. y = is[h] \/ (New(y) /\ is[h].op \in ListOps)
    BY <2>5, EmitInstrWrites
  <2>8. IsSeq(t) /\ Len(t) = k /\ \A j \in 1..k : t[j] = is[j] \/ (New(t[j]) /\ is[j].op \in ListOps)
    BY <2>3 DEF Writes
  <2>9. IsSeq(u) /\ Len(u) = h /\ u[h] = y /\ \A j \in 1..k : u[j] = t[j]
    BY <2>1, <2>6, <2>8, AppendFacts
  <2>10. \A j \in 1..h : j = h \/ j \in 1..k
    BY <2>1
  <2>11. \A j \in 1..h : u[j] = is[j] \/ (New(u[j]) /\ is[j].op \in ListOps)
    BY <2>7, <2>8, <2>9, <2>10
  <2>12. Writes(is, h, g[h].is)
    BY <2>2, <2>9, <2>11 DEF Writes
  <2>13. h \in 0..n /\ IsEmitting(g[h]) /\ g[h].blocks = acc.blocks
    BY <2>1, <2>3, <2>6
  <2>14. h \in T
    BY <2>12, <2>13
  <2> QED
    BY <2>1, <2>14
<1> HIDE DEF T
<1>9. \A k \in 0..n : k \in T
  BY <1>7, <1>8, UpTo DEF T
<1>10. IsEmitting(x) /\ x.blocks = acc.blocks /\ Writes(is, n, x.is)
  BY <1>6, <1>9 DEF T
<1>11. PICK r, d : r = Gen!EmitBlock(acc, b) /\ d = [label |-> b.label, instrs |-> x.is]
  OBVIOUS
<1>12. IsEmitting(r) /\ r.blocks = Append(acc.blocks, d)
  BY <1>4, <1>10, <1>11 DEF IsEmitting, WithWritten
<1>13. BlockWritten(b, d)
  BY <1>1, <1>2, <1>10, <1>11 DEF BlockWritten
<1> QED
  BY <1>11, <1>12, <1>13

\* What emitFunctionBody starts a function with.
EmitStart(fn, ret) == [types |-> Gen!InferTempTypes(fn, ret), a |-> Gen!NoAliases, is |-> <<>>, blocks |-> <<>>]

\* It takes the blocks of a function one by one.
LEMMA WritePasses ==
  ASSUME NEW fn, NEW ret, NEW bs, bs = fn.blocks, Len(bs) \in Nat
  PROVE  \E x : /\ Passed([pass |-> "write"], EmitStart(fn, ret), bs, x)
                /\ Gen!EmitFunctionBody(fn, ret).blocks = x.blocks
<1> DEFINE p == [pass |-> "write"]
           base == EmitStart(fn, ret)
           n == Len(bs)
           after == CHOOSE f : f = [i \in 0..n |-> IF i = 0 THEN base
                      ELSE CHOOSE r \in {Gen!EmitBlock(before, bs[i]) : before \in {f[i - 1]}} : TRUE]
<1>1. \A a, i : Stage(p, a, i) = Gen!EmitBlock(a, i)
  BY DEF Stage
<1>2. Gen!EmitFunctionBody(fn, ret).blocks = after[n].blocks
  BY DEF Gen!EmitFunctionBody, Gen!Pass, EmitStart
<1> HIDE DEF base
<1>3. PICK g : Runs(g, n, p, base, bs)
  BY RunExists
<1>4. \A i \in 0..n : (IF i = 0 THEN base ELSE Stage(p, g[i - 1], bs[i]))
                      = (IF i = 0 THEN base ELSE CHOOSE r \in {Gen!EmitBlock(before, bs[i]) : before \in {g[i - 1]}} : TRUE)
  BY <1>1
<1>5. g = [i \in 0..n |-> IF i = 0 THEN base
             ELSE CHOOSE r \in {Gen!EmitBlock(before, bs[i]) : before \in {g[i - 1]}} : TRUE]
  BY <1>3, <1>4 DEF Runs
<1>6. after = [i \in 0..n |-> IF i = 0 THEN base
             ELSE CHOOSE r \in {Gen!EmitBlock(before, bs[i]) : before \in {after[i - 1]}} : TRUE]
  BY <1>5
<1> HIDE DEF after
<1>7. /\ after[0] = base
      /\ \A k \in 1..n : after[k] = Gen!EmitBlock(after[k - 1], bs[k])
  BY <1>6
<1>8. Passed(p, base, bs, after[n])
  BY <1>1, <1>7 DEF Passed
<1> QED
  BY <1>2, <1>8 DEF base

\* A block is written of each, one after the other.
BlocksWritten(bs, k, ds) ==
  IsSeq(ds) /\ Len(ds) = k /\ \A b \in 1..k : BlockWritten(bs[b], ds[b])

\* What is written of a function is written of its blocks.
LEMMA FunctionWrites ==
  ASSUME NEW fn, NEW bs, bs = fn.blocks, IsSeq(bs),
         \A b \in DOMAIN bs : IsSeq(Gen!CutBlock(bs[b]).instrs), NEW ret
  PROVE  BlocksWritten(bs, Len(bs), Gen!EmitFunctionBody(fn, ret).blocks)
<1>1. PICK n \in Nat : n = Len(bs) /\ DOMAIN bs = 1..n
  BY SeqFacts
<1>2. PICK p, base : p = [pass |-> "write"] /\ base = EmitStart(fn, ret)
  OBVIOUS
<1>3. PICK x : /\ Passed(p, base, bs, x)
               /\ Gen!EmitFunctionBody(fn, ret).blocks = x.blocks
  BY <1>1, <1>2, WritePasses
<1>4. \A a, i : Stage(p, a, i) = Gen!EmitBlock(a, i)
  BY <1>2 DEF Stage
<1>5. PICK g : /\ g[0] = base
               /\ \A k \in 1..n : g[k] = Gen!EmitBlock(g[k - 1], bs[k])
               /\ x = g[n]
  BY <1>1, <1>3, <1>4 DEF Passed
<1> DEFINE T == {k \in 0..n : IsEmitting(g[k]) /\ BlocksWritten(bs, k, g[k].blocks)}
<1>6. 0 \in T
  <2>1. IsEmitting(g[0]) /\ g[0].blocks = <<>>
    BY <1>2, <1>5 DEF IsEmitting, EmitStart
  <2>2. <<>> \in Seq({}) /\ Len(<<>>) = 0 /\ 1..0 = {}
    OBVIOUS
  <2>3. BlocksWritten(bs, 0, <<>>)
    BY <2>2 DEF BlocksWritten, IsSeq
  <2> QED
    BY <2>1, <2>3
<1>7. ASSUME NEW k \in 0..n, k \in T, k # n PROVE k + 1 \in T
  <2>1. PICK h \in 1..n : h = k + 1 /\ h - 1 = k /\ k \in Nat
    BY <1>7
  <2>2. PICK a, b, ds, es : a = g[k] /\ b = bs[h] /\ ds = a.blocks /\ es = g[h].blocks
    OBVIOUS
  <2>3. IsEmitting(a) /\ BlocksWritten(bs, k, ds)
    BY <1>7, <2>2
  <2>4. IsSeq(Gen!CutBlock(b).instrs)
    BY <1>1, <2>1, <2>2
  <2>5. g[h] = Gen!EmitBlock(a, b)
    BY <1>5, <2>1, <2>2
  <2>6. /\ IsEmitting(Gen!EmitBlock(a, b))
        /\ \E d : BlockWritten(b, d) /\ Gen!EmitBlock(a, b).blocks = Append(a.blocks, d)
    BY <2>3, <2>4, EmitBlockWrites
  <2>7. PICK d : BlockWritten(b, d) /\ es = Append(ds, d)
    BY <2>2, <2>5, <2>6
  <2>8. IsSeq(ds) /\ Len(ds) = k /\ \A j \in 1..k : BlockWritten(bs[j], ds[j])
    BY <2>3 DEF BlocksWritten
  <2>9. IsSeq(es) /\ Len(es) = h /\ es[h] = d /\ \A j \in 1..k : es[j] = ds[j]
    BY <2>1, <2>7, <2>8, AppendFacts
  <2>10. \A j \in 1..h : j = h \/ j \in 1..k
    BY <2>1
  <2>11. \A j \in 1..h : BlockWritten(bs[j], es[j])
    BY <2>2, <2>7, <2>8, <2>9, <2>10
  <2>12. BlocksWritten(bs, h, g[h].blocks)
    BY <2>2, <2>9, <2>11 DEF BlocksWritten
  <2>13. h \in 0..n /\ IsEmitting(g[h])
    BY <2>1, <2>5, <2>6
  <2>14. h \in T
    BY <2>12, <2>13
  <2> QED
    BY <2>1, <2>14
<1> HIDE DEF T
<1>8. \A k \in 0..n : k \in T
  BY <1>6, <1>7, UpTo DEF T
<1>9. BlocksWritten(bs, n, x.blocks)
  BY <1>5, <1>8 DEF T
<1> QED
  BY <1>1, <1>3, <1>9

\* A list operation in the part that is written of a valid block is valid.
LEMMA CutIsValid ==
  ASSUME NEW b, "instrs" \in DOMAIN b, IsSeq(b.instrs),
         \A j \in DOMAIN b.instrs : Validator!InstrIsValid(b.instrs[j]),
         NEW j \in 1..Len(Gen!CutBlock(b).instrs), Gen!CutBlock(b).instrs[j].op \in ListOps
  PROVE  Validator!InstrIsValid(Gen!CutBlock(b).instrs[j])
<1>1. PICK s : s = b.instrs
  OBVIOUS
<1>2. PICK n \in Nat : n = Len(s) /\ DOMAIN s = 1..n
  BY <1>1, SeqFacts
<1>3. PICK u : u = Gen!CutBlock(b).instrs
  OBVIOUS
<1>4. CASE \A i \in 1..n : s[i].op \notin Gen!Cuts
  <2>1. PICK d : d = [op |-> "default_return"]
    OBVIOUS
  <2>2. u = Append(s, d)
    BY <1>1, <1>2, <1>3, <1>4, <2>1, CutFacts
  <2>3. Len(u) = n + 1 /\ u[n + 1] = d /\ \A i \in 1..n : u[i] = s[i]
    BY <1>1, <1>2, <2>2, AppendFacts
  <2>4. d.op \notin ListOps
    BY <2>1 DEF ListOps
  <2>5. j \in 1..n + 1 /\ j # n + 1
    BY <1>3, <2>3, <2>4
  <2>6. j \in 1..n
    BY <2>5
  <2> QED
    BY <1>1, <1>2, <1>3, <2>3, <2>6
<1>5. CASE \E i \in 1..n : s[i].op \in Gen!Cuts
  <2> DEFINE at == {i \in 1..n : s[i].op \in Gen!Cuts}
  <2>1. PICK h \in at : \A i \in at : h <= i
    <3>1. at \in SUBSET Nat /\ at # {}
      BY <1>5
    <3> HIDE DEF at
    <3> QED
      BY <3>1, LeastIndex
  <2>2. h \in 1..n /\ s[h].op \in Gen!Cuts /\ \A i \in 1..n : i < h => s[i].op \notin Gen!Cuts
    BY <2>1
  <2> HIDE DEF at
  <2>3. u = SubSeq(s, 1, h)
    BY <1>1, <1>2, <1>3, <2>2, CutFacts
  <2>4. Len(u) = h /\ \A i \in 1..h : u[i] = s[i]
    BY <1>1, <1>2, <2>2, <2>3, FirstsFacts
  <2>5. j \in 1..h /\ j \in 1..n
    BY <1>3, <2>2, <2>4
  <2> QED
    BY <1>1, <1>2, <1>3, <2>4, <2>5
<1> QED
  BY <1>4, <1>5

\* The C written of the blocks of an optimized function follows that of the
\* function.
LEMMA WrittenFollows ==
  ASSUME NEW b, Validator!BlockIsValid(b), NEW c, BlockFollows(b, c),
         NEW s, Writes(Gen!CutBlock(b).instrs, Len(Gen!CutBlock(b).instrs), s),
         NEW t, Writes(Gen!CutBlock(c).instrs, Len(Gen!CutBlock(c).instrs), t)
  PROVE  Follows(s, Len(s), t)
<1>1. PICK u, w : u = Gen!CutBlock(b).instrs /\ w = Gen!CutBlock(c).instrs
  OBVIOUS
<1>2. /\ "instrs" \in DOMAIN b /\ IsSeq(b.instrs)
      /\ \A j \in DOMAIN b.instrs : Validator!InstrIsValid(b.instrs[j])
  BY DEF Validator!BlockIsValid, Validator!IsArray, IsSeq
<1>3. "instrs" \in DOMAIN c /\ Follows(b.instrs, Len(b.instrs), c.instrs)
  BY DEF BlockFollows
<1>4. IsSeq(u) /\ Follows(u, Len(u), w)
  BY <1>1, <1>2, <1>3, CutFollows
<1>5. \A j \in 1..Len(u) : u[j].op \in ListOps => Validator!InstrIsValid(u[j])
  BY <1>1, <1>2, CutIsValid
<1>6. Follows(s, Len(s), u)
  BY <1>1, <1>4, <1>5, WritesFollows
<1>7. IsSeq(w) /\ Follows(w, Len(w), t)
  <2>1. IsSeq(w)
    BY <1>4 DEF Follows
  <2> QED
    BY <1>1, <2>1, WritesFollows
<1>8. Len(s) \in Nat /\ Len(u) \in Nat
  <2>1. IsSeq(s)
    BY DEF Writes
  <2> QED
    BY <1>4, <2>1, SeqFacts
<1>9. Follows(s, Len(s), w)
  BY <1>4, <1>6, <1>8, FollowsThrough
<1> QED
  BY <1>7, <1>8, <1>9, FollowsThrough

-----------------------------------------------------------------------------
\* Code that follows scoped code is scoped.

\* Control that comes to a with the handlers s comes with them to where the
\* first instruction of Control is, or any before.
LEMMA SkipsPlain ==
  ASSUME NEW F, NEW fn, NEW at, FunctionScoped(F, fn, at), NEW b \in DOMAIN fn.blocks,
         NEW n \in Nat, DOMAIN fn.blocks[b].instrs = 1..n,
         NEW a \in Nat, NEW s, Reaches(fn, at, b, a, s),
         NEW c \in Nat, a <= c, c <= n + 1,
         \A j \in 1..n : a <= j /\ j < c => fn.blocks[b].instrs[j].op \notin Control
  PROVE  Reaches(fn, at, b, c, s)
<1> DEFINE T == {k \in 0..(c - a) : Reaches(fn, at, b, a + k, s)}
<1>1. c - a \in Nat
  OBVIOUS
<1>2. 0 \in T
  OBVIOUS
<1>3. ASSUME NEW k \in 0..(c - a), k \in T, k # c - a PROVE k + 1 \in T
  <2>1. PICK j \in Nat : j = a + k /\ j + 1 = a + (k + 1) /\ a <= j /\ j < c
    BY <1>3
  <2>2. Reaches(fn, at, b, j, s)
    BY <1>3, <2>1
  <2>3. j \in 1..n /\ s \in at[b][j]
    BY <2>2 DEF Reaches
  <2>4. InstrScoped(F, fn, at, b, j, s)
    BY <2>3 DEF FunctionScoped
  <2>5. fn.blocks[b].instrs[j].op \notin Ends \cup {"push_handler", "pop_handler"}
    BY <2>1, <2>3 DEF Control
  <2>6. Reaches(fn, at, b, j + 1, s)
    BY <2>4, <2>5 DEF InstrScoped
  <2>7. k + 1 \in 0..(c - a)
    BY <1>1, <1>3
  <2> QED
    BY <2>1, <2>6, <2>7
<1> HIDE DEF T
<1>4. \A k \in 0..(c - a) : k \in T
  BY <1>1, <1>2, <1>3, UpTo DEF T
<1>5. c - a \in T /\ a + (c - a) = c
  BY <1>1, <1>4
<1> QED
  BY <1>5 DEF T

\* gn follows fn, and M says how; au are the scopes of fn, at the places of gn.
Carried(fn, at, gn, au, M) ==
  /\ DOMAIN gn.blocks = DOMAIN fn.blocks
  /\ \A b \in DOMAIN fn.blocks :
       /\ gn.blocks[b].label = fn.blocks[b].label
       /\ IsSeq(fn.blocks[b].instrs) /\ IsSeq(gn.blocks[b].instrs)
       /\ Along(M[b], fn.blocks[b].instrs, Len(fn.blocks[b].instrs), gn.blocks[b].instrs)
       /\ \A j \in DOMAIN gn.blocks[b].instrs : au[b][j] = at[b][M[b][j]]

\* Control that comes to the beginning of a block of fn comes to that of gn.
LEMMA CarriedEnters ==
  ASSUME NEW F, NEW fn, NEW at, FunctionScoped(F, fn, at), NEW gn, NEW au, NEW M, Carried(fn, at, gn, au, M),
         NEW b, NEW s, Reaches(fn, at, b, 1, s)
  PROVE  Reaches(gn, au, b, 1, s)
<1>1. b \in DOMAIN fn.blocks /\ b \in DOMAIN gn.blocks
  BY DEF Reaches, Carried
<1>2. PICK u, w, m : u = fn.blocks[b].instrs /\ w = gn.blocks[b].instrs /\ m = M[b]
  OBVIOUS
<1>3. /\ IsSeq(u) /\ IsSeq(w) /\ Along(m, u, Len(u), w)
      /\ \A j \in DOMAIN w : au[b][j] = at[b][m[j]]
  BY <1>1, <1>2 DEF Carried
<1>4. PICK n, q \in Nat : n = Len(u) /\ q = Len(w) /\ DOMAIN u = 1..n /\ DOMAIN w = 1..q
  BY <1>3, SeqFacts
<1>5. /\ m \in [1..q -> 1..n] /\ (n # 0 => q # 0)
      /\ \A i, j \in 1..q : i <= j => m[i] <= m[j]
      /\ \A h \in 1..n : u[h].op \in Control => \E j \in 1..q : m[j] = h
  BY <1>3, <1>4 DEF Along
<1>6. 1 \in 1..n
  BY <1>2, <1>4 DEF Reaches
<1>7. 1 \in 1..q /\ m[1] \in 1..n
  BY <1>4, <1>5, <1>6
<1>8. PICK c \in 1..n : c = m[1]
  BY <1>7
<1>9. ASSUME NEW j \in 1..n, 1 <= j /\ j < c PROVE u[j].op \notin Control
  <2>1. \A i \in 1..q : 1 <= i /\ m[i] \in 1..n /\ c <= m[i]
    BY <1>5, <1>7, <1>8
  <2>2. \A i \in 1..q : m[i] # j
    BY <1>9, <2>1
  <2> QED
    BY <1>5, <2>2
<1>10. Reaches(fn, at, b, c, s)
  <2>1. 1 \in Nat /\ c \in Nat /\ 1 <= c /\ c <= n + 1
    BY <1>8
  <2> QED
    BY <1>1, <1>2, <1>4, <1>9, <2>1, SkipsPlain
<1> QED
  BY <1>1, <1>2, <1>3, <1>4, <1>7, <1>8, <1>10 DEF Reaches

\* Control that comes behind an instruction of fn comes behind what is in its
\* place in gn.
LEMMA CarriedNext ==
  ASSUME NEW F, NEW fn, NEW at, FunctionScoped(F, fn, at), NEW gn, NEW au, NEW M, Carried(fn, at, gn, au, M),
         NEW b \in DOMAIN fn.blocks, NEW j \in DOMAIN gn.blocks[b].instrs, NEW a, NEW s, Reaches(fn, at, b, a, s),
         \/ a = M[b][j] /\ fn.blocks[b].instrs[M[b][j]].op \notin Control
         \/ a = M[b][j] + 1 /\ fn.blocks[b].instrs[M[b][j]].op \in Control
  PROVE  Reaches(gn, au, b, j + 1, s)
<1>1. b \in DOMAIN gn.blocks
  BY DEF Carried
<1>2. PICK u, w, m : u = fn.blocks[b].instrs /\ w = gn.blocks[b].instrs /\ m = M[b]
  OBVIOUS
<1>3. /\ IsSeq(u) /\ IsSeq(w) /\ Along(m, u, Len(u), w)
      /\ \A i \in DOMAIN w : au[b][i] = at[b][m[i]]
  BY <1>2 DEF Carried
<1>4. PICK n, q \in Nat : n = Len(u) /\ q = Len(w) /\ DOMAIN u = 1..n /\ DOMAIN w = 1..q
  BY <1>3, SeqFacts
<1>5. /\ m \in [1..q -> 1..n]
      /\ \A i, k \in 1..q : i <= k => m[i] <= m[k]
      /\ \A h \in 1..n : u[h].op \in Control =>
           \E i \in 1..q : m[i] = h /\ \A k \in 1..q : m[k] = h => k = i
  BY <1>3, <1>4 DEF Along
<1>6. j \in 1..q /\ m[j] \in 1..n
  BY <1>2, <1>4, <1>5
<1>7. PICK d \in 1..n : d = m[j]
  BY <1>6
<1>8. \/ a = d /\ u[d].op \notin Control
      \/ a = d + 1 /\ u[d].op \in Control
  BY <1>2, <1>7
\* Where the next instruction of gn comes from, or the end of the block.
<1>9. PICK c : c = IF j = q THEN n + 1 ELSE m[j + 1]
  OBVIOUS
<1>10. j # q => j + 1 \in 1..q /\ m[j + 1] \in 1..n /\ d <= m[j + 1]
  <2>1. ASSUME j # q PROVE j + 1 \in 1..q /\ m[j + 1] \in 1..n /\ d <= m[j + 1]
    <3>1. PICK k \in 1..q : k = j + 1 /\ j <= k
      BY <1>4, <1>6, <2>1
    <3>2. m[k] \in 1..n /\ m[j] <= m[k]
      BY <1>5, <1>6, <3>1
    <3> QED
      BY <1>7, <3>1, <3>2
  <2> QED
    BY <2>1
<1>11. a \in Nat /\ c \in Nat /\ a <= c /\ c <= n + 1
  <2>1. CASE j = q
    <3>1. c = n + 1
      BY <1>9, <2>1
    <3> QED
      BY <1>4, <1>7, <1>8, <3>1
  <2>2. CASE j # q
    <3>1. PICK k \in 1..q : k = j + 1 /\ c = m[k] /\ c \in 1..n /\ d <= c
      BY <1>9, <1>10, <2>2
    <3>2. a = d + 1 => c # d
      <4>1. SUFFICES ASSUME a = d + 1, c = d PROVE FALSE
        OBVIOUS
      <4>2. u[d].op \in Control
        BY <1>7, <1>8, <4>1
      <4>3. PICK i \in 1..q : \A e \in 1..q : m[e] = d => e = i
        BY <1>5, <4>2
      <4>4. j = i /\ k = i
        BY <1>6, <1>7, <3>1, <4>1, <4>3
      <4> QED
        BY <1>6, <3>1, <4>4
    <3> QED
      BY <1>4, <1>7, <1>8, <3>1, <3>2
  <2> QED
    BY <2>1, <2>2
<1>12. ASSUME NEW h \in 1..n, a <= h /\ h < c PROVE u[h].op \notin Control
  <2>1. CASE h = d
    BY <1>7, <1>8, <1>12, <2>1
  <2>2. CASE h # d
    <3>1. d < h
      BY <1>7, <1>8, <1>12, <2>2
    <3>2. ASSUME NEW i \in 1..q, m[i] = h PROVE FALSE
      <4>1. CASE i <= j
        <5>1. m[i] <= m[j]
          BY <1>5, <1>6, <4>1
        <5> QED
          BY <1>7, <3>1, <3>2, <5>1
      <4>2. CASE ~(i <= j)
        <5>1. j # q /\ j + 1 <= i
          BY <1>4, <1>6, <4>2
        <5>2. PICK k \in 1..q : k = j + 1 /\ c = m[k]
          BY <1>9, <1>10, <5>1
        <5>3. c <= m[i]
          BY <1>5, <5>1, <5>2
        <5> QED
          BY <1>11, <1>12, <3>2, <5>3
      <4> QED
        BY <4>1, <4>2
    <3> QED
      BY <1>5, <3>2
  <2> QED
    BY <2>1, <2>2
<1>13. Reaches(fn, at, b, c, s)
  BY <1>2, <1>4, <1>11, <1>12, SkipsPlain
<1>14. j # q
  <2>1. c \in 1..n
    BY <1>2, <1>4, <1>13 DEF Reaches
  <2> QED
    BY <1>4, <1>9, <2>1
<1>15. c = m[j + 1] /\ j + 1 \in 1..q
  BY <1>9, <1>10, <1>14
<1> QED
  BY <1>1, <1>2, <1>3, <1>4, <1>13, <1>15 DEF Reaches

\* Labels stand for the same blocks.
LEMMA CarriedLabels ==
  ASSUME NEW fn, NEW at, NEW gn, NEW au, NEW M, Carried(fn, at, gn, au, M), NEW l
  PROVE  BlockOf(gn, l) = BlockOf(fn, l)
<1>1. DOMAIN gn.blocks = DOMAIN fn.blocks /\ \A b \in DOMAIN fn.blocks : gn.blocks[b].label = fn.blocks[b].label
  BY DEF Carried
<1>2. \A b : (b \in DOMAIN gn.blocks /\ gn.blocks[b].label = l) <=> (b \in DOMAIN fn.blocks /\ fn.blocks[b].label = l)
  BY <1>1
<1> QED
  BY <1>2 DEF BlockOf

\* What an instruction of fn makes of the handlers, what is in its place does.
LEMMA CarriedInstr ==
  ASSUME NEW F, NEW fn, NEW at, FunctionScoped(F, fn, at), NEW gn, NEW au, NEW M, Carried(fn, at, gn, au, M),
         NEW b \in DOMAIN fn.blocks, NEW j \in DOMAIN gn.blocks[b].instrs, NEW s \in au[b][j]
  PROVE  InstrScoped(F, gn, au, b, j, s)
<1>1. PICK d : d = M[b][j]
  OBVIOUS
<1>2. PICK i, x : i = gn.blocks[b].instrs[j] /\ x = fn.blocks[b].instrs[d]
  OBVIOUS
<1>3. d \in DOMAIN fn.blocks[b].instrs /\ (i = x \/ (New(i) /\ x.op \notin Control))
  <2>1. PICK u, w, m : u = fn.blocks[b].instrs /\ w = gn.blocks[b].instrs /\ m = M[b]
    OBVIOUS
  <2>2. IsSeq(u) /\ IsSeq(w) /\ Along(m, u, Len(u), w)
    BY <2>1 DEF Carried
  <2>3. DOMAIN u = 1..Len(u) /\ DOMAIN w = 1..Len(w)
    BY <2>2, SeqFacts
  <2> QED
    BY <1>1, <1>2, <2>1, <2>2, <2>3 DEF Along
<1>4. s \in at[b][d]
  BY <1>1 DEF Carried
<1>5. InstrScoped(F, fn, at, b, d, s) /\ Reaches(fn, at, b, d, s)
  BY <1>3, <1>4 DEF FunctionScoped, Reaches
<1>6. ASSUME NEW l, NEW t, Enters(fn, at, l, t) PROVE Enters(gn, au, l, t)
  <2>1. Reaches(fn, at, BlockOf(fn, l), 1, t)
    BY <1>6 DEF Enters
  <2>2. Reaches(gn, au, BlockOf(fn, l), 1, t)
    BY <2>1, CarriedEnters
  <2> QED
    BY <2>2, CarriedLabels DEF Enters
<1>7. s # <<>> => Enters(gn, au, Head(s), Tail(s))
  BY <1>5, <1>6 DEF InstrScoped
<1>8. CASE x.op \in Control
  <2>1. i = x
    BY <1>3, <1>8
  <2>2. ASSUME NEW t, Reaches(fn, at, b, d + 1, t) PROVE Reaches(gn, au, b, j + 1, t)
    BY <1>1, <1>2, <1>8, <2>2, CarriedNext
  <2>3. x.op # "call_static"
    BY <1>8 DEF Control, Ends, Gen!Cuts
  <2>4. /\ x.op = "jump" => Enters(fn, at, x.target, s)
        /\ x.op \in {"branch_if", "branch_iter_has_next"} => Enters(fn, at, x.then, s) /\ Enters(fn, at, x.else, s)
        /\ x.op \in {"ret", "ret_void", "default_return"} => s = <<>>
        /\ x.op = "push_handler" => Reaches(fn, at, b, d + 1, <<x.target>> \o s)
        /\ x.op = "pop_handler"  => s # <<>> /\ Reaches(fn, at, b, d + 1, Tail(s))
        /\ x.op \notin Ends \cup {"push_handler", "pop_handler"} => Reaches(fn, at, b, d + 1, s)
    BY <1>2, <1>5 DEF InstrScoped
  <2>5. /\ i.op = "jump" => Enters(gn, au, i.target, s)
        /\ i.op \in {"branch_if", "branch_iter_has_next"} => Enters(gn, au, i.then, s) /\ Enters(gn, au, i.else, s)
        /\ i.op \in {"ret", "ret_void", "default_return"} => s = <<>>
        /\ i.op = "push_handler" => Reaches(gn, au, b, j + 1, <<i.target>> \o s)
        /\ i.op = "pop_handler"  => s # <<>> /\ Reaches(gn, au, b, j + 1, Tail(s))
        /\ i.op \notin Ends \cup {"push_handler", "pop_handler"} => Reaches(gn, au, b, j + 1, s)
        /\ i.op # "call_static"
    BY <1>6, <2>1, <2>2, <2>3, <2>4
  <2> QED
    BY <1>2, <1>7, <2>5 DEF InstrScoped
<1>9. CASE x.op \notin Control
  <2>1. i.op \notin Control
    BY <1>3, <1>9, NewFacts
  <2>2. i.op = "call_static" => i.callee \in F
    <3>1. i.op = "call_static" => i = x
      BY <1>3, NewFacts
    <3> QED
      BY <1>2, <1>5, <3>1 DEF InstrScoped
  <2>3. Reaches(gn, au, b, j + 1, s)
    BY <1>1, <1>2, <1>5, <1>9, CarriedNext
  <2>4. /\ i.op # "jump" /\ i.op \notin {"branch_if", "branch_iter_has_next"}
        /\ i.op \notin {"ret", "ret_void", "default_return"}
        /\ i.op # "push_handler" /\ i.op # "pop_handler"
    BY <2>1 DEF Control, Ends
  <2> QED
    BY <1>2, <1>7, <2>2, <2>3, <2>4 DEF InstrScoped
<1> QED
  BY <1>8, <1>9

\* A function whose blocks follow those of a scoped one is scoped: the handlers at
\* an instruction are those at its place in the other.
LEMMA FollowingIsScoped ==
  ASSUME NEW F, NEW fn, NEW at, FunctionScoped(F, fn, at), NEW gn,
         IsSeq(fn.blocks), \A b \in DOMAIN fn.blocks : IsSeq(fn.blocks[b].instrs),
         BlocksFollow(fn.blocks, Len(fn.blocks), gn.blocks)
  PROVE  \E au : FunctionScoped(F, gn, au)
<1> DEFINE Way(m, b) == Along(m, fn.blocks[b].instrs, Len(fn.blocks[b].instrs), gn.blocks[b].instrs)
           M == [b \in DOMAIN fn.blocks |-> CHOOSE m : Way(m, b)]
           au == [b \in DOMAIN fn.blocks |-> [j \in DOMAIN gn.blocks[b].instrs |-> at[b][M[b][j]]]]
<1>1. /\ DOMAIN fn.blocks = 1..Len(fn.blocks)
      /\ IsSeq(gn.blocks) /\ Len(gn.blocks) = Len(fn.blocks)
      /\ \A b \in DOMAIN fn.blocks : BlockFollows(fn.blocks[b], gn.blocks[b])
  BY SeqFacts DEF BlocksFollow
<1>2. DOMAIN gn.blocks = DOMAIN fn.blocks
  BY <1>1, SeqFacts
<1>3. ASSUME NEW b \in DOMAIN fn.blocks
      PROVE  /\ gn.blocks[b].label = fn.blocks[b].label
             /\ IsSeq(fn.blocks[b].instrs) /\ IsSeq(gn.blocks[b].instrs)
             /\ Along(M[b], fn.blocks[b].instrs, Len(fn.blocks[b].instrs), gn.blocks[b].instrs)
             /\ \A j \in DOMAIN gn.blocks[b].instrs : au[b][j] = at[b][M[b][j]]
  <2>1. BlockFollows(fn.blocks[b], gn.blocks[b])
    BY <1>1
  <2>2. \E m : Way(m, b)
    BY <2>1 DEF BlockFollows, Follows
  <2>3. \A j \in DOMAIN gn.blocks[b].instrs : au[b][j] = at[b][M[b][j]]
    OBVIOUS
  <2>4. M[b] = CHOOSE m : Way(m, b)
    OBVIOUS
  <2> HIDE DEF M, Way, au
  <2>5. Way(M[b], b)
    BY <2>2, <2>4
  <2> QED
    BY <2>1, <2>3, <2>5 DEF BlockFollows, Follows, Way
<1> HIDE DEF M, au
<1>4. Carried(fn, at, gn, au, M)
  BY <1>2, <1>3 DEF Carried
<1>5. Reaches(gn, au, 1, 1, <<>>)
  <2>1. Reaches(fn, at, 1, 1, <<>>)
    BY DEF FunctionScoped
  <2> QED
    BY <1>4, <2>1, CarriedEnters
<1>6. \A b \in DOMAIN gn.blocks : \A j \in DOMAIN gn.blocks[b].instrs :
        \A s \in au[b][j] : InstrScoped(F, gn, au, b, j, s)
  BY <1>2, <1>4, CarriedInstr
<1>7. FunctionScoped(F, gn, au)
  BY <1>5, <1>6 DEF FunctionScoped
<1> QED
  BY <1>7

\* If the C written of a valid function keeps to scopes, then so does the C
\* written of what the optimizer makes of it: optimizeIR of src/optimizer.js
\* and emitFunctionBody of src/c_backend.js take no handler from where one
\* is needed and leave none behind.
THEOREM OptimizedCodeIsScoped ==
  ASSUME NEW fn, Validator!IsValid(fn), NEW fns, \A f \in DOMAIN fns : Validator!IsValid(fns[f]),
         NEW ret, NEW F, NEW at, FunctionScoped(F, Gen!EmitFunctionBody(fn, ret), at)
  PROVE  \E au : FunctionScoped(F, Gen!EmitFunctionBody(Opt!OptimizeIR(fn, fns), ret), au)
<1>1. PICK r, bs, cs : r = Opt!OptimizeIR(fn, fns) /\ bs = fn.blocks /\ cs = r.blocks
  OBVIOUS
<1>2. PICK c, d : c = Gen!EmitFunctionBody(fn, ret) /\ d = Gen!EmitFunctionBody(r, ret)
  OBVIOUS
<1>3. BlocksFollow(bs, Len(bs), cs)
  BY <1>1, OptimizedFollows
<1>4. IsSeq(bs) /\ \A b \in DOMAIN bs : Validator!BlockIsValid(bs[b])
  BY <1>1 DEF Validator!IsValid, Validator!IsArray, IsSeq
<1>5. PICK n \in Nat : n = Len(bs) /\ DOMAIN bs = 1..n
  BY <1>4, SeqFacts
<1>6. IsSeq(cs) /\ Len(cs) = n /\ \A b \in 1..n : BlockFollows(bs[b], cs[b])
  BY <1>3, <1>5 DEF BlocksFollow
<1>7. ASSUME NEW b \in 1..n PROVE IsSeq(Gen!CutBlock(bs[b]).instrs) /\ IsSeq(Gen!CutBlock(cs[b]).instrs)
  <2>1. "instrs" \in DOMAIN bs[b] /\ IsSeq(bs[b].instrs)
    BY <1>4, <1>5 DEF Validator!BlockIsValid, Validator!IsArray, IsSeq
  <2>2. "instrs" \in DOMAIN cs[b] /\ Follows(bs[b].instrs, Len(bs[b].instrs), cs[b].instrs)
    BY <1>6 DEF BlockFollows
  <2> QED
    BY <2>1, <2>2, CutFollows DEF Follows
<1>8. BlocksWritten(bs, n, c.blocks)
  BY <1>1, <1>2, <1>4, <1>5, <1>7, FunctionWrites
<1>9. BlocksWritten(cs, n, d.blocks)
  <2>1. DOMAIN cs = 1..n
    BY <1>6, SeqFacts
  <2> QED
    BY <1>1, <1>2, <1>6, <1>7, <2>1, FunctionWrites
<1>10. ASSUME NEW b \in 1..n
       PROVE  IsSeq(c.blocks[b].instrs) /\ BlockFollows(c.blocks[b], d.blocks[b])
  <2>1. Validator!BlockIsValid(bs[b]) /\ BlockFollows(bs[b], cs[b])
    BY <1>4, <1>5, <1>6
  <2>2. BlockWritten(bs[b], c.blocks[b]) /\ BlockWritten(cs[b], d.blocks[b])
    BY <1>8, <1>9 DEF BlocksWritten
  <2>3. Follows(c.blocks[b].instrs, Len(c.blocks[b].instrs), d.blocks[b].instrs)
    BY <2>1, <2>2, WrittenFollows DEF BlockWritten
  <2> QED
    BY <2>1, <2>2, <2>3 DEF BlockFollows, BlockWritten, Writes
<1>11. IsSeq(c.blocks) /\ Len(c.blocks) = n /\ IsSeq(d.blocks) /\ Len(d.blocks) = n /\ DOMAIN c.blocks = 1..n
  <2>1. IsSeq(c.blocks) /\ Len(c.blocks) = n /\ IsSeq(d.blocks) /\ Len(d.blocks) = n
    BY <1>8, <1>9 DEF BlocksWritten
  <2> QED
    BY <2>1, SeqFacts
<1>12. BlocksFollow(c.blocks, Len(c.blocks), d.blocks)
  BY <1>10, <1>11 DEF BlocksFollow
<1>13. FunctionScoped(F, c, at)
  BY <1>2
<1>14. \E au : FunctionScoped(F, d, au)
  BY <1>10, <1>11, <1>12, <1>13, FollowingIsScoped
<1> QED
  BY <1>1, <1>2, <1>14
=============================================================================
