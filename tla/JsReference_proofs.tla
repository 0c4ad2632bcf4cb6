-------------------------- MODULE JsReference_proofs ---------------------------
(***************************************************************************)
(* ValidViewsFit and IndexedIsThere of the reference interpreter, for every *)
(* program whose operands are what the front end checks them to be.         *)
(*                                                                         *)
(* Every step leaves lists and views as they are, makes a list, gives a      *)
(* list a later version, keeps its version and all of its places, or cuts a  *)
(* view that fits.  The invariant says of every view that its version is     *)
(* none its list has still to come to, and that it fits while it is the       *)
(* list's: a change of the length makes the versions differ for good.        *)
(***************************************************************************)
EXTENDS JsReference, SequenceTheorems, TLAPS

-----------------------------------------------------------------------------
\* Sequences, whatever their elements are.
IsSeq(s) == \E S : s \in Seq(S)

LEMMA SeqFacts ==
  ASSUME NEW s, IsSeq(s)
  PROVE  Len(s) \in Nat /\ DOMAIN s = 1..Len(s)
<1>1. PICK S : s \in Seq(S)
  BY DEF IsSeq
<1> QED
  BY <1>1, LenProperties

\* A function on 1..n is a sequence.
LEMMA FunctionSeq ==
  ASSUME NEW n \in Nat, NEW f, f = [i \in 1..n |-> f[i]]
  PROVE  IsSeq(f) /\ Len(f) = n
<1> DEFINE S == {f[i] : i \in 1..n}
<1>1. f \in [1..n -> S]
  OBVIOUS
<1> HIDE DEF S
<1>2. f \in Seq(S)
  BY <1>1, SeqDef
<1>3. Len(f) \in Nat /\ DOMAIN f = 1..Len(f)
  BY <1>2, LenProperties
<1>4. DOMAIN f = 1..n
  BY <1>1
<1>5. Len(f) = n
  BY <1>3, <1>4
<1> QED
  BY <1>2, <1>5 DEF IsSeq

\* An element more at the end.
LEMMA AppendFacts ==
  ASSUME NEW s, IsSeq(s), NEW e
  PROVE  /\ IsSeq(Append(s, e)) /\ Len(Append(s, e)) = Len(s) + 1
         /\ Append(s, e)[Len(s) + 1] = e
         /\ \A k \in 1..Len(s) : Append(s, e)[k] = s[k]
<1>1. PICK S : s \in Seq(S)
  BY DEF IsSeq
<1> DEFINE T == S \cup {e}
<1>2. s \in Seq(T) /\ e \in T
  BY <1>1, SeqMonotonic
<1> HIDE DEF T
<1> QED
  BY <1>2, AppendProperties DEF IsSeq

\* Another element at place p, if there is one.
LEMMA ReplaceFacts ==
  ASSUME NEW s, IsSeq(s), NEW p, NEW e
  PROVE  /\ IsSeq([s EXCEPT ![p] = e]) /\ Len([s EXCEPT ![p] = e]) = Len(s)
         /\ \A k \in 1..Len(s) : [s EXCEPT ![p] = e][k] = IF k = p THEN e ELSE s[k]
<1>1. Len(s) \in Nat /\ DOMAIN s = 1..Len(s)
  BY SeqFacts
<1>2. PICK S : s \in Seq(S)
  BY DEF IsSeq
<1>3. PICK n \in Nat : n = Len(s)
  BY <1>1
<1>4. s = [i \in 1..n |-> s[i]]
  BY <1>2, <1>3, SeqDef
<1>5. PICK f : f = [s EXCEPT ![p] = e]
  OBVIOUS
<1>6. f = [i \in 1..n |-> IF i = p THEN e ELSE s[i]]
  BY <1>1, <1>3, <1>5
<1>7. f = [i \in 1..n |-> f[i]]
  BY <1>6
<1>8. IsSeq(f) /\ Len(f) = n
  BY <1>7, FunctionSeq
<1> QED
  BY <1>3, <1>5, <1>6, <1>8

\* All but the last.
LEMMA FrontSeq ==
  ASSUME NEW s, IsSeq(s)
  PROVE  IsSeq(Front(s))
<1>1. PICK S : s \in Seq(S)
  BY DEF IsSeq
<1>2. Len(s) \in Nat
  BY SeqFacts
<1>3. \A i \in 1..(Len(s) - 1) : s[i] \in S
  BY <1>1, <1>2, ElementOfSeq
<1>4. SubSeq(s, 1, Len(s) - 1) \in Seq(S)
  BY <1>2, <1>3, SubSeqProperties
<1> QED
  BY <1>4 DEF Front, IsSeq

\* The same items in another order.
LEMMA ReverseFacts ==
  ASSUME NEW s, IsSeq(s)
  PROVE  IsSeq(Reverse(s)) /\ Len(Reverse(s)) = Len(s)
<1>1. PICK n \in Nat : n = Len(s)
  BY SeqFacts
<1>2. PICK f : f = Reverse(s)
  OBVIOUS
<1>3. f = [i \in 1..n |-> f[i]]
  BY <1>1, <1>2 DEF Reverse
<1> QED
  BY <1>1, <1>2, <1>3, FunctionSeq

LEMMA SortedFacts ==
  ASSUME NEW s, IsSeq(s)
  PROVE  IsSeq(Sorted(s)) /\ Len(Sorted(s)) = Len(s)
<1>1. PICK n \in Nat : n = Len(s)
  BY SeqFacts
<1>2. PICK f : f = Sorted(s)
  OBVIOUS
<1>4. f = [i \in 1..n |-> f[i]]
  BY <1>1, <1>2 DEF Sorted
<1> QED
  BY <1>1, <1>2, <1>4, FunctionSeq

\* The items with another one at a place that is there.
LEMMA WithItemFacts ==
  ASSUME NEW s, IsSeq(s), NEW k \in DOMAIN s, NEW x
  PROVE  IsSeq(WithItem(s, k, x)) /\ Len(WithItem(s, k, x)) = Len(s)
<1>1. PICK n \in Nat : n = Len(s)
  BY SeqFacts
<1>2. k \in 1..n
  BY <1>1, SeqFacts
<1>3. PICK f : f = WithItem(s, k, x)
  OBVIOUS
<1>4. f = [j \in 1..n |-> IF j = k THEN x ELSE Item(s, j)]
  BY <1>1, <1>2, <1>3 DEF WithItem
<1>5. f = [j \in 1..n |-> f[j]]
  BY <1>4
<1> QED
  BY <1>1, <1>3, <1>5, FunctionSeq

-----------------------------------------------------------------------------
\* The invariant.

IsList(l) ==
  /\ l = [items |-> l.items, version |-> l.version]
  /\ IsSeq(l.items)
  /\ l.version \in Nat

\* View w of one of the lists ls: no version the list has still to come to;
\* and while the version is the list's, all of the view is there.
Fits(w, ls) ==
  /\ w.list \in DOMAIN ls
  /\ w.offset \in Nat
  /\ w.len \in Nat
  /\ w.version \in Nat
  /\ w.version <= ls[w.list].version
  /\ w.version = ls[w.list].version => w.offset + w.len <= Len(ls[w.list].items)

IInv ==
  /\ IsSeq(lists) /\ \A i \in DOMAIN lists : IsList(lists[i])
  /\ IsSeq(views) /\ \A v \in DOMAIN views : Fits(views[v], lists)

\* What becomes of a list: a later version, or all places are kept.
Later(l, old) ==
  \/ old.version < l.version
  \/ old.version = l.version /\ Len(old.items) <= Len(l.items)

\* A view that fits goes on fitting.
LEMMA FitsLater ==
  ASSUME NEW w, NEW ls, NEW ms, Fits(w, ls), w.list \in DOMAIN ms,
         IsList(ls[w.list]), IsList(ms[w.list]), Later(ms[w.list], ls[w.list])
  PROVE  Fits(w, ms)
<1> DEFINE old == ls[w.list]  new == ms[w.list]
<1>1. /\ old.version \in Nat /\ Len(old.items) \in Nat
      /\ new.version \in Nat /\ Len(new.items) \in Nat
  BY SeqFacts DEF IsList
<1>2. /\ w.offset \in Nat /\ w.len \in Nat /\ w.version \in Nat
      /\ w.version <= old.version
      /\ w.version = old.version => w.offset + w.len <= Len(old.items)
  BY DEF Fits
<1>3. old.version < new.version \/ (old.version = new.version /\ Len(old.items) <= Len(new.items))
  BY DEF Later
<1> HIDE DEF old, new
<1>4. w.version <= new.version
  BY <1>1, <1>2, <1>3
<1>5. w.version = new.version => w.offset + w.len <= Len(new.items)
  BY <1>1, <1>2, <1>3
<1> QED
  BY <1>2, <1>4, <1>5 DEF Fits, new

\* The lists ms take the places of the lists, each of them later.
LEMMA LaterLists ==
  ASSUME IInv, NEW ms, IsSeq(ms), DOMAIN lists \subseteq DOMAIN ms,
         \A i \in DOMAIN ms : IsList(ms[i]),
         \A i \in DOMAIN lists : ms[i] = lists[i] \/ Later(ms[i], lists[i]),
         lists' = ms, views' = views
  PROVE  IInv'
<1>1. ASSUME NEW v \in DOMAIN views
      PROVE  Fits(views[v], ms)
  <2> DEFINE w == views[v]
  <2>1. Fits(w, lists)
    BY DEF IInv
  <2> HIDE DEF w
  <2>2. w.list \in DOMAIN lists /\ w.list \in DOMAIN ms
    BY <2>1 DEF Fits
  <2>3. IsList(lists[w.list]) /\ IsList(ms[w.list])
    BY <2>2 DEF IInv
  <2>4. CASE Later(ms[w.list], lists[w.list])
    <3> Fits(w, ms)
      BY <2>1, <2>2, <2>3, <2>4, FitsLater
    <3> QED
      BY DEF w
  <2>5. CASE ms[w.list] = lists[w.list]
    BY <2>1, <2>2, <2>5 DEF Fits, w
  <2> QED
    BY <2>2, <2>4, <2>5
<1> QED
  BY <1>1 DEF IInv

-----------------------------------------------------------------------------
\* The kinds of steps.

LEMMA NewList ==
  ASSUME IInv, NEW s, IsSeq(s), lists' = Append(lists, [items |-> s, version |-> 0]), views' = views
  PROVE  IInv'
<1> DEFINE l == [items |-> s, version |-> 0]
<1>1. IsList(l)
  BY DEF IsList
<1>2. IsSeq(lists) /\ \A i \in DOMAIN lists : IsList(lists[i])
  BY DEF IInv
<1>3. PICK n \in Nat : n = Len(lists) /\ DOMAIN lists = 1..n
  BY <1>2, SeqFacts
<1>4. PICK ms : ms = Append(lists, l)
  OBVIOUS
<1>5. /\ IsSeq(ms) /\ Len(ms) = n + 1
      /\ ms[n + 1] = l
      /\ \A k \in 1..n : ms[k] = lists[k]
  BY <1>2, <1>3, <1>4, AppendFacts
<1>6. DOMAIN ms = 1..(n + 1)
  BY <1>5, SeqFacts
<1> HIDE DEF l
<1>7. \A i \in DOMAIN ms : IsList(ms[i])
  BY <1>1, <1>2, <1>3, <1>5, <1>6
<1>8. lists' = ms
  BY <1>4 DEF l
<1> QED
  BY <1>3, <1>5, <1>6, <1>7, <1>8, LaterLists

\* List p becomes l, if there is a list p.
Put(p, l) == [lists EXCEPT ![p] = l]

LEMMA PutList ==
  ASSUME IInv, NEW p, NEW l, lists' = Put(p, l), views' = views,
         p \in DOMAIN lists => IsList(l) /\ Later(l, lists[p])
  PROVE  IInv'
<1>1. IsSeq(lists) /\ \A i \in DOMAIN lists : IsList(lists[i])
  BY DEF IInv
<1>2. PICK n \in Nat : n = Len(lists) /\ DOMAIN lists = 1..n
  BY <1>1, SeqFacts
<1>3. PICK ms : ms = Put(p, l)
  OBVIOUS
<1>4. /\ IsSeq(ms) /\ Len(ms) = n
      /\ \A k \in 1..n : ms[k] = IF k = p THEN l ELSE lists[k]
  BY <1>1, <1>2, <1>3, ReplaceFacts DEF Put
<1>5. DOMAIN ms = 1..n
  BY <1>4, SeqFacts
<1>6. \A i \in DOMAIN ms : IsList(ms[i])
  BY <1>1, <1>2, <1>4, <1>5
<1>7. \A i \in DOMAIN lists : ms[i] = lists[i] \/ Later(ms[i], lists[i])
  BY <1>2, <1>4
<1> QED
  BY <1>2, <1>3, <1>4, <1>5, <1>6, <1>7, LaterLists

\* The items of list p, at the same version: none fewer.
PutItems(p, items) == [lists EXCEPT ![p].items = items]

LEMMA ItemsPut ==
  ASSUME IInv, NEW p, NEW items, lists' = PutItems(p, items), views' = views,
         p \in DOMAIN lists => IsSeq(items) /\ Len(lists[p].items) <= Len(items)
  PROVE  IInv'
<1> DEFINE l == [lists[p] EXCEPT !.items = items]
<1>1. ASSUME p \in DOMAIN lists
      PROVE  IsList(l) /\ Later(l, lists[p])
  <2>1. IsList(lists[p])
    BY <1>1 DEF IInv
  <2>2. l = [items |-> items, version |-> lists[p].version]
    BY <2>1 DEF IsList
  <2>3. l.items = items /\ l.version = lists[p].version
    BY <2>2
  <2> HIDE DEF l
  <2> QED
    BY <1>1, <2>1, <2>2, <2>3 DEF IsList, Later
<1>2. lists' = Put(p, l)
  BY DEF Put, PutItems
<1> HIDE DEF l
<1> QED
  BY <1>1, <1>2, PutList

\* The methods that change the length: a later version.
LEMMA ItemsChanged ==
  ASSUME IInv, NEW v, NEW items, lists' = Changed(v, items), views' = views,
         v.n \in DOMAIN lists => IsSeq(items)
  PROVE  IInv'
<1> DEFINE l == [items |-> items, version |-> lists[v.n].version + 1]
<1>1. ASSUME v.n \in DOMAIN lists
      PROVE  IsList(l) /\ Later(l, lists[v.n])
  <2>1. PICK k \in Nat : k = lists[v.n].version
    BY <1>1 DEF IInv, IsList
  <2>2. k + 1 \in Nat /\ k < k + 1
    OBVIOUS
  <2> QED
    BY <1>1, <2>1, <2>2 DEF IsList, Later
<1>2. lists' = Put(v.n, l)
  BY DEF Put, Changed
<1> HIDE DEF l
<1> QED
  BY <1>1, <1>2, PutList

\* A view more, that fits.
LEMMA NewFittingView ==
  ASSUME IInv, NEW w, Fits(w, lists), lists' = lists, views' = Append(views, w)
  PROVE  IInv'
<1>1. IsSeq(views) /\ \A v \in DOMAIN views : Fits(views[v], lists)
  BY DEF IInv
<1>2. PICK n \in Nat : n = Len(views) /\ DOMAIN views = 1..n
  BY <1>1, SeqFacts
<1>3. PICK ws : ws = Append(views, w)
  OBVIOUS
<1>4. /\ IsSeq(ws) /\ Len(ws) = n + 1
      /\ ws[n + 1] = w
      /\ \A k \in 1..n : ws[k] = views[k]
  BY <1>1, <1>2, <1>3, AppendFacts
<1>5. DOMAIN ws = 1..(n + 1)
  BY <1>4, SeqFacts
<1>6. \A v \in DOMAIN ws : Fits(ws[v], lists)
  BY <1>1, <1>2, <1>4, <1>5
<1> QED
  BY <1>3, <1>4, <1>6 DEF IInv

-----------------------------------------------------------------------------
\* What the tests of an index and of a view are good for.

LEMMA IndexedItem ==
  ASSUME IInv, NEW v, NEW i, IsPlace(v), IndexError(v, i) = 0
  PROVE  ListOf(v) \in DOMAIN lists /\ SlotOf(v, i) \in DOMAIN lists[ListOf(v)].items
<1>1. i \in 0..(IndexLimit(v) - 1)
  BY DEF IndexError
<1>2. CASE v.t = "list"
  <2>1. v.n \in DOMAIN lists
    BY <1>2 DEF IsPlace
  <2>2. IsSeq(lists[v.n].items)
    BY <2>1 DEF IInv, IsList
  <2>3. PICK k \in Nat : k = Len(lists[v.n].items) /\ DOMAIN lists[v.n].items = 1..k
    BY <2>2, SeqFacts
  <2>4. i \in 0..(k - 1)
    BY <1>1, <1>2, <2>3 DEF IndexLimit
  <2>5. i + 1 \in 1..k
    BY <2>4
  <2> QED
    BY <1>2, <2>1, <2>3, <2>5 DEF ListOf, SlotOf
<1>3. CASE v.t # "list"
  <2>1. v.t = "view" /\ v.n \in DOMAIN views
    BY <1>3 DEF IsPlace
  <2>2. PICK w : w = views[v.n]
    OBVIOUS
  <2>3. Fits(w, lists)
    BY <2>1, <2>2 DEF IInv
  <2>4. ViewIsValid(v)
    BY <2>1 DEF IndexError
  <2>5. IsSeq(lists[w.list].items)
    BY <2>3 DEF IInv, IsList, Fits
  <2>6. PICK k \in Nat : k = Len(lists[w.list].items) /\ DOMAIN lists[w.list].items = 1..k
    BY <2>5, SeqFacts
  <2>7. PICK o \in Nat, n \in Nat : o = w.offset /\ n = w.len /\ o + n <= k
    BY <2>2, <2>3, <2>4, <2>6 DEF Fits, ViewIsValid
  <2>8. i \in 0..(n - 1)
    BY <1>1, <1>3, <2>2, <2>7 DEF IndexLimit
  <2>9. o + i + 1 \in 1..k
    BY <2>7, <2>8
  <2>10. ListOf(v) = w.list /\ SlotOf(v, i) = o + i + 1
    BY <1>3, <2>2, <2>7 DEF ListOf, SlotOf
  <2> QED
    BY <2>3, <2>6, <2>9, <2>10 DEF Fits
<1> QED
  BY <1>2, <1>3

LEMMA CutViewFits ==
  ASSUME IInv, NEW v, NEW offset \in Int, NEW len \in Int, IsPlace(v),
         v.t = "view" => offset + len <= views[v.n].len,
         ViewError(v, offset, len) = 0
  PROVE  Fits(NewView(v, offset, len), lists)
<1>1. offset \in Nat /\ len \in Nat
  BY DEF ViewError
<1>2. offset + len <= Len(lists[ListOf(v)].items)
  <2>1. IsSeq(lists[ListOf(v)].items)
    BY DEF IInv, IsList, IsPlace, ListOf, Fits
  <2>2. PICK k \in Nat : k = Len(lists[ListOf(v)].items)
    BY <2>1, SeqFacts
  <2>3. ~(offset + len > k)
    BY <2>2 DEF ViewError
  <2> QED
    BY <2>2, <2>3, <1>1
<1>3. PICK w : w = NewView(v, offset, len)
  OBVIOUS
<1>4. /\ w.list = ListOf(v) /\ w.offset = SlotOf(v, offset) - 1 /\ w.len = len
      /\ w.version = lists[ListOf(v)].version
  BY <1>3 DEF NewView
<1>5. CASE v.t = "list"
  <2>1. v.n \in DOMAIN lists
    BY <1>5 DEF IsPlace
  <2>2. lists[v.n].version \in Nat
    BY <2>1 DEF IInv, IsList
  <2>3. w.list = v.n /\ w.version = lists[v.n].version
    BY <1>4, <1>5 DEF ListOf
  <2>4. w.offset = offset + 1 - 1
    BY <1>4, <1>5 DEF SlotOf
  <2>5. w.offset = offset
    BY <1>1, <2>4
  <2>6. w.offset + w.len <= Len(lists[w.list].items)
    BY <1>2, <1>4, <2>5
  <2>7. w.version <= lists[w.list].version
    BY <2>2, <2>3
  <2> QED
    BY <1>1, <1>3, <1>4, <2>1, <2>2, <2>3, <2>5, <2>6, <2>7 DEF Fits
<1>6. CASE v.t # "list"
  <2>1. v.t = "view" /\ v.n \in DOMAIN views
    BY <1>6 DEF IsPlace
  <2>2. PICK u : u = views[v.n]
    OBVIOUS
  <2>3. Fits(u, lists)
    BY <2>1, <2>2 DEF IInv
  <2>4. ViewIsValid(v)
    BY <2>1 DEF ViewError
  <2>5. u.list \in DOMAIN lists /\ IsSeq(lists[u.list].items) /\ lists[u.list].version \in Nat
    BY <2>3 DEF IInv, IsList, Fits
  <2>6. PICK k \in Nat : k = Len(lists[u.list].items)
    BY <2>5, SeqFacts
  <2>7. PICK o \in Nat, n \in Nat : o = u.offset /\ n = u.len /\ o + n <= k
    BY <2>2, <2>3, <2>4, <2>6 DEF Fits, ViewIsValid
  <2>8. offset + len <= n
    BY <2>1, <2>2, <2>7
  <2>9. w.list = u.list /\ w.offset = o + offset + 1 - 1
    BY <1>4, <1>6, <2>2, <2>7 DEF ListOf, SlotOf
  <2>10. w.offset = o + offset
    BY <1>1, <2>7, <2>9
  <2>11. o + offset \in Nat /\ o + offset + len <= k
    <3>1. o + n <= k
      BY <2>7
    <3> QED
      BY <1>1, <2>8, <3>1
  <2>12. w.version = lists[w.list].version
    BY <1>4, <2>9
  <2>13. w.offset + w.len <= Len(lists[w.list].items)
    BY <1>4, <2>6, <2>9, <2>10, <2>11
  <2>14. w.version \in Nat /\ w.version <= lists[w.list].version
    BY <2>5, <2>9, <2>12
  <2> QED
    BY <1>1, <1>3, <1>4, <2>5, <2>9, <2>10, <2>11, <2>13, <2>14 DEF Fits
<1> QED
  BY <1>5, <1>6

-----------------------------------------------------------------------------
\* The steps.

\* Expressions that make no list and no view, and change none.
LEMMA ExpressionsKeep ==
  ASSUME Evaluate \/ Literal \/ Identifier \/ UnaryExpr \/ BinaryExpr \/ LogicalExpr \/
         ConditionalExpr \/ IndexExpr \/ MemberExpr \/ CallIdentifier \/ CallStatic \/ CallSuper
         \/ CallInstance \/ CallQuery
  PROVE  UNCHANGED <<lists, views>>
<1>1. CASE Evaluate
  BY <1>1 DEF Evaluate, heap
<1>2. CASE Literal
  BY <1>2 DEF Literal, heap
<1>3. CASE Identifier
  BY <1>3 DEF Identifier, heap
<1>4. CASE UnaryExpr
  BY <1>4 DEF UnaryExpr, heap, Raise
<1>5. CASE BinaryExpr
  BY <1>5 DEF BinaryExpr, heap, Raise
<1>6. CASE LogicalExpr
  BY <1>6 DEF LogicalExpr, heap
<1>7. CASE ConditionalExpr
  BY <1>7 DEF ConditionalExpr, heap
<1>8. CASE IndexExpr
  BY <1>8 DEF IndexExpr, heap, Raise
<1>9. CASE MemberExpr
  BY <1>9 DEF MemberExpr, heap
<1>10. CASE CallIdentifier
  BY <1>10 DEF CallIdentifier, heap, CallFunction
<1>11. CASE CallStatic
  BY <1>11 DEF CallStatic, heap, CallFunction, CloneDefault
<1>12. CASE CallSuper
  BY <1>12 DEF CallSuper, heap, CallFunction, CloneDefault
<1>13. CASE CallInstance
  BY <1>13 DEF CallInstance, heap, CallFunction, CloneDefault
<1>14. CASE CallQuery
  BY <1>14 DEF CallQuery, heap, Raise
<1> QED
  BY <1>1, <1>2, <1>3, <1>4, <1>5, <1>6, <1>7, <1>8, <1>9, <1>10, <1>11, <1>12, <1>13, <1>14

\* Statements, but for declarations and assignments.
LEMMA StatementsKeep ==
  ASSUME ExprStmt \/ SignalStmt \/ ExecBlock \/ ExecIf \/ ExecWhile \/ ExecDoWhile \/ ExecFor \/
         LoopTest \/ ExecForOf \/ NextItem \/ ExecSwitch \/ ExecCase \/ ExecTry
  PROVE  UNCHANGED <<lists, views>>
<1>1. CASE ExprStmt
  BY <1>1 DEF ExprStmt, heap
<1>2. CASE SignalStmt
  BY <1>2 DEF SignalStmt, heap
<1>3. CASE ExecBlock
  BY <1>3 DEF ExecBlock, heap
<1>4. CASE ExecIf
  BY <1>4 DEF ExecIf, heap
<1>5. CASE ExecWhile
  BY <1>5 DEF ExecWhile, heap
<1>6. CASE ExecDoWhile
  BY <1>6 DEF ExecDoWhile, heap
<1>7. CASE ExecFor
  BY <1>7 DEF ExecFor, heap
<1>8. CASE LoopTest
  BY <1>8 DEF LoopTest, heap
<1>9. CASE ExecForOf
  BY <1>9 DEF ExecForOf, heap, Raise
<1>10. CASE NextItem
  BY <1>10 DEF NextItem, heap
<1>11. CASE ExecSwitch
  BY <1>11 DEF ExecSwitch, heap
<1>12. CASE ExecCase
  BY <1>12 DEF ExecCase, heap
<1>13. CASE ExecTry
  BY <1>13 DEF ExecTry, heap
<1> QED
  BY <1>1, <1>2, <1>3, <1>4, <1>5, <1>6, <1>7, <1>8, <1>9, <1>10, <1>11, <1>12, <1>13

\* The ends of what runs.
LEMMA EndingsKeep ==
  ASSUME EndTry \/ ExecFinally \/ EndFinally \/ EndBlock \/ EndRound \/ EndCall \/ Unwind
  PROVE  UNCHANGED <<lists, views>>
<1>1. CASE EndTry
  BY <1>1 DEF EndTry, heap
<1>2. CASE ExecFinally
  BY <1>2 DEF ExecFinally, heap
<1>3. CASE EndFinally
  BY <1>3 DEF EndFinally, heap
<1>4. CASE EndBlock
  BY <1>4 DEF EndBlock, heap
<1>5. CASE EndRound
  BY <1>5 DEF EndRound, heap
<1>6. CASE EndCall
  BY <1>6 DEF EndCall, heap
<1>7. CASE Unwind
  BY <1>7 DEF Unwind, heap
<1> QED
  BY <1>1, <1>2, <1>3, <1>4, <1>5, <1>6, <1>7

LEMMA SameStep ==
  ASSUME IInv, UNCHANGED <<lists, views>>
  PROVE  IInv'
BY DEF IInv

LEMMA ListLiteralStep ==
  ASSUME IInv, OperandsFit, ListLiteral
  PROVE  IInv'
<1>1. PICK m \in Nat : m = Len(Node.items)
  BY DEF ListLiteral, OperandsFit
<1>2. PICK s : s = [i \in 1..m |-> Operand(m, i)]
  OBVIOUS
<1>3. s = [i \in 1..m |-> s[i]]
  BY <1>2
<1>4. IsSeq(s)
  BY <1>3, FunctionSeq
<1>5. lists' = Append(lists, [items |-> s, version |-> 0]) /\ views' = views
  BY <1>1, <1>2 DEF ListLiteral
<1> QED
  BY <1>4, <1>5, NewList

LEMMA VarDeclStep ==
  ASSUME IInv, VarDecl
  PROVE  IInv'
<1>1. views' = views
  BY DEF VarDecl
<1>2. lists' = lists \/ lists' = Append(lists, [items |-> <<>>, version |-> 0])
  BY DEF VarDecl
<1>3. IsSeq(<<>>)
  BY DEF IsSeq
<1> QED
  BY <1>1, <1>2, <1>3, NewList, SameStep

LEMMA CallPushStep ==
  ASSUME IInv, CallPush
  PROVE  IInv'
<1>1. PICK l, x : l = Operand(2, 1) /\ x = Operand(2, 2)
  OBVIOUS
<1>2. lists' = Changed(l, Append(lists[l.n].items, x)) /\ views' = views
  BY <1>1 DEF CallPush
<1>3. l.n \in DOMAIN lists => IsSeq(Append(lists[l.n].items, x))
  BY AppendFacts DEF IInv, IsList
<1> QED
  BY <1>2, <1>3, ItemsChanged

LEMMA CallPopStep ==
  ASSUME IInv, CallPop
  PROVE  IInv'
<1>1. PICK l : l = Operand(1, 1)
  OBVIOUS
<1>2. CASE UNCHANGED <<lists, views>>
  BY <1>2, SameStep
<1>3. CASE lists' = Changed(l, Front(lists[l.n].items)) /\ views' = views
  <2>1. l.n \in DOMAIN lists => IsSeq(Front(lists[l.n].items))
    BY FrontSeq DEF IInv, IsList
  <2> QED
    BY <1>3, <2>1, ItemsChanged
<1> QED
  BY <1>1, <1>2, <1>3 DEF CallPop, Raise

LEMMA CallReorderStep ==
  ASSUME IInv, CallReorder
  PROVE  IInv'
<1>1. PICK l : l = Operand(1, 1)
  OBVIOUS
<1>2. PICK items : items = lists[l.n].items
  OBVIOUS
<1>3. PICK s : s = IF Node.m = "reverse" THEN Reverse(items) ELSE Sorted(items)
  OBVIOUS
<1>4. lists' = PutItems(l.n, s) /\ views' = views
  BY <1>1, <1>2, <1>3 DEF CallReorder, PutItems
<1>5. ASSUME l.n \in DOMAIN lists
      PROVE  IsSeq(s) /\ Len(items) <= Len(s)
  <2>1. IsSeq(items)
    BY <1>2, <1>5 DEF IInv, IsList
  <2>2. PICK n \in Nat : n = Len(items)
    BY <2>1, SeqFacts
  <2>3. IsSeq(s) /\ Len(s) = Len(items)
    BY <1>3, <2>1, ReverseFacts, SortedFacts
  <2> QED
    BY <2>2, <2>3
<1> QED
  BY <1>2, <1>4, <1>5, ItemsPut

LEMMA CallViewStep ==
  ASSUME IInv, OperandsFit, CallView
  PROVE  IInv'
<1>1. PICK v, offset, len : v = Operand(3, 1) /\ offset = Operand(3, 2).n /\ len = Operand(3, 3).n
  OBVIOUS
<1>2. CASE UNCHANGED <<lists, views>>
  BY <1>2, SameStep
<1>3. CASE /\ Len(Node.args) + 1 = 3
           /\ ViewError(v, offset, len) = 0
           /\ views' = Append(views, NewView(v, offset, len))
           /\ lists' = lists
  <2>1. Cuts
    BY <1>3 DEF CallView, Cuts
  <2>2. /\ IsPlace(v) /\ offset \in Int /\ len \in Int
        /\ v.t = "view" => offset + len <= views[v.n].len
    BY <1>1, <1>3, <2>1 DEF OperandsFit, SubviewsFit
  <2>3. Fits(NewView(v, offset, len), lists)
    BY <1>3, <2>2, CutViewFits
  <2> QED
    BY <1>3, <2>3, NewFittingView
<1>4. CASE Len(Node.args) + 1 = 3
  BY <1>1, <1>2, <1>3, <1>4 DEF CallView, Raise
<1>5. CASE Len(Node.args) + 1 # 3
  BY <1>2, <1>5 DEF CallView, Raise
<1> QED
  BY <1>4, <1>5

\* An assignment to a target that has passed its test.
LEMMA RefSetStep ==
  ASSUME IInv, OperandsFit, Doing({"assign", "compound", "incdec"}), NEW x,
         TargetError(Node.target, Len(Parts(Node))) = 0,
         RefSet(Node.target, Len(Parts(Node)), x), views' = views
  PROVE  IInv'
<1>1. CASE Node.target.k # "index"
  <2> UNCHANGED <<lists, views>>
    BY <1>1 DEF RefSet
  <2> QED
    BY SameStep
<1>2. CASE Node.target.k = "index"
  <2>1. PICK v, i : v = Indexed /\ i = Operand(Len(Parts(Node)), 2).n
    OBVIOUS
  <2>2. IsPlace(v) /\ IndexError(v, i) = 0
    BY <1>2, <2>1 DEF OperandsFit, Indexes, Indexed, TargetError
  <2>3. PICK p, k : p = ListOf(v) /\ k = SlotOf(v, i)
    OBVIOUS
  <2>4. p \in DOMAIN lists /\ k \in DOMAIN lists[p].items
    BY <2>2, <2>3, IndexedItem
  <2>5. PICK items : items = WithItem(lists[p].items, k, x)
    OBVIOUS
  <2>6. IsSeq(lists[p].items)
    BY <2>4 DEF IInv, IsList
  <2>7. IsSeq(items) /\ Len(items) = Len(lists[p].items)
    BY <2>4, <2>5, <2>6, WithItemFacts
  <2>8. PICK n \in Nat : n = Len(lists[p].items)
    BY <2>6, SeqFacts
  <2>9. lists' = PutItems(p, items)
    BY <1>2, <2>1, <2>3, <2>5 DEF RefSet, IndexSet, Indexed, PutItems
  <2>10. Len(lists[p].items) <= Len(items)
    BY <2>7, <2>8
  <2> QED
    BY <2>7, <2>9, <2>10, ItemsPut
<1> QED
  BY <1>1, <1>2

LEMMA AssignStmtStep ==
  ASSUME IInv, OperandsFit, AssignStmt
  PROVE  IInv'
<1>1. Doing({"assign", "compound", "incdec"})
  BY DEF AssignStmt, Doing
<1>2. CASE UNCHANGED <<lists, views>>
  BY <1>2, SameStep
<1>3. CASE SetError(Node.target, Len(Parts(Node))) # 0
  BY <1>2, <1>3 DEF AssignStmt, Raise
<1>4. CASE SetError(Node.target, Len(Parts(Node))) = 0
  <2>1. TargetError(Node.target, Len(Parts(Node))) = 0
    BY <1>4 DEF SetError, TargetError, AssignError
  <2> QED
    BY <1>1, <1>4, <2>1, RefSetStep DEF AssignStmt
<1> QED
  BY <1>3, <1>4

LEMMA CompoundAssignStmtStep ==
  ASSUME IInv, OperandsFit, CompoundAssignStmt
  PROVE  IInv'
<1>1. Doing({"assign", "compound", "incdec"})
  BY DEF CompoundAssignStmt, Doing
<1>2. CASE UNCHANGED <<lists, views>>
  BY <1>2, SameStep
<1>3. CASE \E x : /\ TargetError(Node.target, Len(Parts(Node))) = 0
                  /\ RefSet(Node.target, Len(Parts(Node)), x)
                  /\ views' = views
  BY <1>1, <1>3, RefSetStep
<1> QED
  BY <1>2, <1>3 DEF CompoundAssignStmt, Raise

LEMMA IncDecExprStep ==
  ASSUME IInv, OperandsFit, IncDecExpr
  PROVE  IInv'
<1>1. Doing({"assign", "compound", "incdec"})
  BY DEF IncDecExpr, Doing
<1>2. CASE UNCHANGED <<lists, views>>
  BY <1>2, SameStep
<1>3. CASE \E x : /\ TargetError(Node.target, Len(Parts(Node))) = 0
                  /\ RefSet(Node.target, Len(Parts(Node)), x)
                  /\ views' = views
  BY <1>1, <1>3, RefSetStep
<1> QED
  BY <1>2, <1>3 DEF IncDecExpr, Raise

-----------------------------------------------------------------------------
LEMMA InitialInvariant == Init => IInv
<1> SUFFICES ASSUME Init PROVE IInv
  OBVIOUS
<1>1. IsSeq(lists) /\ IsSeq(views)
  BY DEF Init, IsSeq
<1>2. DOMAIN lists = {} /\ DOMAIN views = {}
  BY DEF Init
<1> QED
  BY <1>1, <1>2 DEF IInv

LEMMA StepInvariant == IInv /\ OperandsFit /\ [Next]_vars => IInv'
<1> SUFFICES ASSUME IInv, OperandsFit, [Next]_vars PROVE IInv'
  OBVIOUS
<1>1. CASE UNCHANGED vars
  BY <1>1, SameStep DEF vars
<1>2. CASE EvalExpr
  BY <1>2, ExpressionsKeep, SameStep, ListLiteralStep, IncDecExprStep, CallPushStep, CallPopStep,
     CallReorderStep, CallViewStep DEF EvalExpr
<1>3. CASE ExecStmt
  BY <1>3, StatementsKeep, SameStep, VarDeclStep, AssignStmtStep, CompoundAssignStmtStep DEF ExecStmt
<1>4. CASE Ending
  BY <1>4, EndingsKeep, SameStep DEF Ending
<1> QED
  BY <1>1, <1>2, <1>3, <1>4 DEF Next

\* In every run in which each step finds the operands that the front end
\* promises it, what passes the tests of a view's version and of an index is
\* in the view and in the list behind: pop, push, removeLast give the list a
\* version no view has, reverse, sort and assignments keep its places.
THEOREM ReferenceInvariant == Spec /\ []OperandsFit => []IInv
BY InitialInvariant, StepInvariant, PTL DEF Spec

\* A view of the reference whose version is its list's lies within the list.
THEOREM ValidViewsFitReference == Spec /\ []OperandsFit => []ValidViewsFit
<1>1. IInv => ValidViewsFit
  BY DEF IInv, ValidViewsFit, Fits
<1> QED
  BY <1>1, ReferenceInvariant, PTL

\* What passes the tests of indexGet and assignIndex is an element of the array.
THEOREM IndexedIsThereReference == Spec /\ []OperandsFit => []IndexedIsThere
<1>1. IInv /\ OperandsFit => IndexedIsThere
  BY IndexedItem DEF OperandsFit, IndexedIsThere
<1> QED
  BY <1>1, ReferenceInvariant, PTL
=============================================================================
