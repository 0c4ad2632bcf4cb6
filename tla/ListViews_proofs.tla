-------------------------- MODULE ListViews_proofs --------------------------
(***************************************************************************)
(* For every list length, every number of views and every sequence of      *)
(* operations that cuts no view from an invalidated one: a view that       *)
(* passes for valid lies inside its list, so the unchecked reads of a loop *)
(* reach elements of it.                                                   *)
(***************************************************************************)
EXTENDS ListViews, SequenceTheorems, TLAPS

\* What a view must be, in terms of its own record.
Good(w) == /\ w \in ViewRecords
           /\ w.version = version => w.offset + w.len <= len /\ w.root = version

\* The well-formedness of the list alone.
ListOK ==
    /\ cap \in Nat /\ len \in 0 .. cap /\ version \in 0 .. MaxVersion
    /\ items \in [1 .. cap -> Items \cup {Junk}]
    /\ \A i \in 1 .. len : items[i] \in Items

\* The views and the iterator hold nothing but good views.
HoldsGood ==
    /\ view \in [Views -> {NoView} \cup ViewRecords]
    /\ \A v \in Views : view[v] = NoView \/ Good(view[v])
    /\ \/ iter = NoIter
       \/ /\ iter \in [k : {"iter"}, source : {Whole} \cup ViewRecords, index : Nat]
          /\ iter.source = Whole \/ Good(iter.source)

\* The invariant said view by view, which is how the steps preserve it.
LEMMA GoodIsIInv == IInv <=> ListOK /\ HoldsGood
<1>1. IInv => ListOK /\ HoldsGood
  <2> SUFFICES ASSUME IInv PROVE ListOK /\ HoldsGood
    OBVIOUS
  <2>1. ListOK
    BY DEF IInv, TypeOK, ListOK
  <2>2. ASSUME NEW v \in Views, view[v] # NoView
        PROVE  Good(view[v])
    <3>1. view[v] \in ViewRecords
      BY <2>2 DEF IInv, TypeOK
    <3>2. view[v] \in Held
      BY <3>1 DEF Held, ViewRecords
    <3> QED
      BY <3>1, <3>2 DEF IInv, ValidViewsFit, ViewIsValid, Good
  <2>3. ASSUME iter # NoIter, iter.source # Whole
        PROVE  Good(iter.source)
    <3>1. iter.source \in ViewRecords
      BY <2>3 DEF IInv, TypeOK
    <3>2. iter.source \in Held
      BY <2>3, <3>1 DEF Held, ViewRecords
    <3> QED
      BY <3>1, <3>2 DEF IInv, ValidViewsFit, ViewIsValid, Good
  <2> QED
    BY <2>1, <2>2, <2>3 DEF IInv, TypeOK, HoldsGood
<1>2. ListOK /\ HoldsGood => IInv
  <2> SUFFICES ASSUME ListOK, HoldsGood PROVE IInv
    OBVIOUS
  <2>1. TypeOK
    BY DEF TypeOK, ListOK, HoldsGood
  <2>2. ASSUME NEW w \in Held PROVE Good(w)
    <3>1. w.k = "view"
      BY DEF Held
    <3>2. NoView.k # "view" /\ Whole.k # "view"
      BY DEF NoView, Whole
    <3>3. CASE \E v \in Views : w = view[v]
      BY <3>1, <3>2, <3>3 DEF HoldsGood
    <3>4. CASE iter # NoIter /\ w = iter.source
      BY <3>1, <3>2, <3>4 DEF HoldsGood
    <3> QED
      BY <3>3, <3>4 DEF Held
  <2> QED
    BY <2>1, <2>2 DEF IInv, ValidViewsFit, ViewIsValid, Good
<1> QED
  BY <1>1, <1>2

\* The program starts with an empty list and no view.
LEMMA InitIInv == Init => IInv
<1> SUFFICES ASSUME Init PROVE ListOK /\ HoldsGood
  BY GoodIsIInv
<1>1. ListOK
  BY CapAssumption DEF Init, ListOK
<1>2. HoldsGood
  BY DEF Init, HoldsGood
<1> QED
  BY <1>1, <1>2

\* A change of the length gives the list a version no view has.
LEMMA ResizeKeepsGood ==
  ASSUME ListOK, HoldsGood, version' = version + 1, UNCHANGED <<view, iter>>
  PROVE  HoldsGood'
<1>1. version \in Nat
  BY CapAssumption DEF ListOK
<1>2. ASSUME NEW w \in ViewRecords
      PROVE  Good(w)'
  BY <1>1, <1>2 DEF ViewRecords, Good
<1>3. ViewRecords \subseteq ViewRecords'
  BY <1>1 DEF ViewRecords
<1> QED
  BY <1>2, <1>3 DEF HoldsGood

\* An operation that leaves the views, the length and the version alone.
LEMMA SameViews ==
  ASSUME HoldsGood, UNCHANGED <<len, version, view, iter>>
  PROVE  HoldsGood'
  BY DEF HoldsGood, Good, ViewRecords

\* A view is cut inside the source, and its source inside the list.
LEMMA CutIsGood ==
  ASSUME CutsInvalid = FALSE, ListOK,
         NEW w, w = Whole \/ Good(w), Usable(w), NEW mode \in List!Modes,
         NEW off \in Int, NEW n \in Int, FitsSource(w, off, n)
  PROVE  Good(CutOf(w, off, n, mode))
<1>0. version \in Nat /\ len \in Nat /\ off \in Nat /\ n \in Nat /\ off + n <= Extent(w)
  BY CapAssumption DEF ListOK, FitsSource
<1>1. CASE w = Whole
  BY <1>0, <1>1 DEF Whole, Extent, CutOf, MakeView, Good, ViewRecords
<1>2. CASE Good(w)
  <2>1. /\ w.k = "view" /\ w.version = version /\ w.offset \in Nat /\ w.len \in Nat
        /\ w.mode \in List!Modes
    BY <1>2 DEF Good, ViewRecords, Usable, ViewIsValid
  <2>2. w.offset + w.len <= len /\ w.root = version /\ off + n <= w.len
    BY <1>0, <1>2, <2>1 DEF Good, Extent
  <2> QED
    BY <1>0, <2>1, <2>2 DEF CutOf, MakeView, Good, ViewRecords, List!Modes
<1> QED
  BY <1>1, <1>2

\* Every operation of the program preserves the invariant.
LEMMA NextIInv ==
  ASSUME CutsInvalid = FALSE, IInv, [Next]_vars
  PROVE  IInv'
<1> SUFFICES ListOK' /\ HoldsGood'
  BY GoodIsIInv, PTL
<1>0. ListOK /\ HoldsGood
  BY GoodIsIInv
<1>a. ASSUME NEW o, NEW why, Raise(o, why) PROVE ListOK' /\ HoldsGood'
  BY <1>0, <1>a, SameViews DEF Raise, ListOK
<1>b. ASSUME NEW answer, Leave(answer) PROVE ListOK' /\ HoldsGood'
  BY <1>0, <1>b DEF Leave, ListOK, HoldsGood, Good, ViewRecords
<1>1. ASSUME NEW e \in Items, Push(e)
      PROVE  ListOK' /\ HoldsGood'
  <2>1. HoldsGood'
    BY <1>0, <1>1, ResizeKeepsGood DEF Push
  <2>2. cap' \in Nat /\ len' \in 0 .. cap' /\ version' \in 0 .. MaxVersion
    BY <1>0, <1>1, CapAssumption DEF Push, NewCap, ListOK
  <2>3. Grown \in [1 .. cap' -> Items \cup {Junk}]
    <3>1. CASE len < cap
      BY <1>0, <1>1, <3>1 DEF Push, Grown, ListOK
    <3>2. CASE ~(len < cap)
      BY <1>0, <1>1, <3>2 DEF Push, Grown, ListOK
    <3> QED BY <3>1, <3>2
  <2>4. \A i \in 1 .. len : Grown[i] = items[i]
    BY <1>0, CapAssumption DEF Grown, NewCap, ListOK
  <2>5. items' \in [1 .. cap' -> Items \cup {Junk}]
    BY <1>1, <2>3 DEF Push
  <2>6. \A i \in 1 .. len' : items'[i] \in Items
    <3>1. items' = [Grown EXCEPT ![len + 1] = e] /\ len' = len + 1
      BY <1>1 DEF Push
    <3>2. len \in Nat /\ cap' \in Nat /\ len + 1 \in 1 .. cap'
      BY <1>0, <2>2, <3>1 DEF ListOK
    <3>3. items'[len + 1] = e
      BY <2>3, <3>1, <3>2
    <3>4. \A i \in 1 .. len : items'[i] = items[i]
      BY <2>3, <2>4, <3>1, <3>2
    <3>5. \A i \in 1 .. len' : i = len + 1 \/ i \in 1 .. len
      BY <3>1, <3>2
    <3> QED
      BY <1>0, <3>3, <3>4, <3>5 DEF ListOK
  <2> QED
    BY <2>1, <2>2, <2>5, <2>6 DEF ListOK
<1>2. CASE PushFails \/ PopEmpty
  BY <1>2, <1>a DEF PushFails, PopEmpty
<1>3. CASE PopItem
  <2>1. HoldsGood'
    BY <1>0, <1>3, ResizeKeepsGood DEF PopItem
  <2> QED
    BY <1>0, <1>3, <2>1, CapAssumption DEF PopItem, ListOK
<1>4. CASE Reverse
  <2>1. HoldsGood'
    BY <1>0, <1>4, SameViews DEF Reverse
  <2>2. \A i \in 1 .. len : len + 1 - i \in 1 .. len
    BY <1>0 DEF ListOK
  <2> QED
    BY <1>0, <1>4, <2>1, <2>2 DEF Reverse, ListOK
<1>5. ASSUME NEW s \in Sources, Source(s) # NoView, NEW i \in Indices, IndexGet(Source(s), i)
      PROVE  ListOK' /\ HoldsGood'
  BY <1>0, <1>5, <1>a, SameViews DEF IndexGet, ListOK
<1>6. ASSUME NEW s \in Sources, Source(s) # NoView, NEW i \in Indices, NEW e \in Items,
             IndexSet(Source(s), i, e)
      PROVE  ListOK' /\ HoldsGood'
  <2>1. CASE /\ items' = [items EXCEPT ![SlotOf(Source(s), i)] = e]
             /\ CanReach(Source(s), i) /\ UNCHANGED <<len, cap, version, view, iter>>
    <3>1. HoldsGood'
      BY <1>0, <2>1, SameViews
    <3>2. items' \in [1 .. cap -> Items \cup {Junk}]
      BY <1>0, <2>1 DEF ListOK
    <3>3. \A j \in 1 .. len : items'[j] = e \/ items'[j] = items[j]
      BY <1>0, <2>1 DEF ListOK
    <3> QED
      BY <1>0, <2>1, <3>1, <3>2, <3>3 DEF ListOK
  <2>2. CASE \E why : Raise("set", why)
    BY <1>a, <2>2
  <2> QED
    BY <1>6, <2>1, <2>2 DEF IndexSet
<1>c. ASSUME NEW s \in Sources, Source(s) # NoView
      PROVE  Source(s) = Whole \/ Good(Source(s))
  BY <1>0, <1>c DEF Source, Sources, HoldsGood
<1>7. ASSUME NEW s \in Sources, Source(s) # NoView, NEW v \in Views, NEW mode \in List!Modes,
             NEW off \in Int, NEW n \in Int, Cut(v, Source(s), off, n, mode)
      PROVE  ListOK' /\ HoldsGood'
  <2> DEFINE w == Source(s)
             new == CutOf(w, off, n, mode)
  <2>1. CASE /\ FitsSource(w, off, n) /\ (CutsInvalid \/ Usable(w))
             /\ view' = [view EXCEPT ![v] = new]
             /\ UNCHANGED <<items, len, cap, version, iter>>
    <3>1. Good(new)
      <4>1. w = Whole \/ Good(w)
        BY <1>c, <1>7
      <4>2. Usable(w) /\ FitsSource(w, off, n)
        BY <2>1
      <4> HIDE DEF w
      <4> QED
        BY <1>0, <4>1, <4>2, CutIsGood
    <3>2. HoldsGood'
      <4> HIDE DEF new
      <4> QED
        BY <1>0, <2>1, <3>1 DEF HoldsGood, Good, ViewRecords
    <3> QED
      BY <1>0, <2>1, <3>2 DEF ListOK
  <2>2. CASE \E why : Raise("view", why)
    BY <1>a, <2>2
  <2> QED
    BY <1>7, <2>1, <2>2 DEF Cut
<1>8. ASSUME NEW s \in Sources, Source(s) # NoView, NEW v \in Views, NEW mode \in List!Modes,
             CutWhole(v, Source(s), mode)
      PROVE  ListOK' /\ HoldsGood'
  <2>1. Extent(Source(s)) \in Int
    BY <1>0, <1>c, <1>8 DEF Extent, Good, ViewRecords, ListOK, Whole
  <2> QED
    BY <1>7, <1>8, <1>a, <2>1 DEF CutWhole
<1>9. ASSUME NEW s \in Sources, Source(s) # NoView, IterBegin(Source(s))
      PROVE  ListOK' /\ HoldsGood'
  <2>1. CASE Raise("begin", "memory")
    BY <1>a, <2>1
  <2>2. CASE /\ iter' = [k |-> "iter", source |-> Source(s), index |-> 0]
             /\ UNCHANGED <<items, len, cap, version, view>>
    BY <1>0, <1>c, <1>9, <2>2 DEF ListOK, HoldsGood, Good, ViewRecords
  <2> QED
    BY <1>9, <2>1, <2>2 DEF IterBegin
<1>10. CASE IterNext
  BY <1>0, <1>10 DEF IterNext, ListOK, HoldsGood, Good, ViewRecords
<1>11. CASE IterEnd \/ IterInvalid \/ Break
  BY <1>11, <1>b DEF IterEnd, IterInvalid, Break
<1>12. CASE UNCHANGED vars
  BY <1>0, <1>12 DEF vars, ListOK, HoldsGood, Good, ViewRecords
<1> QED
  BY <1>1, <1>2, <1>3, <1>4, <1>5, <1>6, <1>7, <1>8, <1>9, <1>10, <1>11, <1>12, IndexAssumption
  DEF Next

\* However long the program runs, a view that passes for valid lies inside the
\* list, as long as none is cut from an invalidated view.
THEOREM ViewsFit ==
  ASSUME CutsInvalid = FALSE
  PROVE  Spec => []ValidViewsFit
<1>1. IInv /\ [Next]_vars => IInv'
  BY NextIInv
<1>2. IInv => ValidViewsFit
  BY DEF IInv
<1> QED
  BY <1>1, <1>2, InitIInv, PTL DEF Spec

\* The unchecked read of a loop reaches an element of the list.
THEOREM LoopsReadOnlyElements ==
  ASSUME CutsInvalid = FALSE
  PROVE  Spec => LoopsReadElements
<1> DEFINE P == iter' # iter /\ res'.op = "next" /\ iter' # NoIter =>
                  SlotOf(iter.source, iter.index) <= len
<1>1. IInv /\ [Next]_vars => IInv'
  BY NextIInv
<1>2. IInv /\ [Next]_vars => [P]_vars
  <2> SUFFICES ASSUME IInv, Next, iter' # iter, res'.op = "next", iter' # NoIter
               PROVE  SlotOf(iter.source, iter.index) <= len
    OBVIOUS
  <2>1. ListOK /\ HoldsGood
    BY GoodIsIInv
  <2>2. IterNext
    BY DEF Next, Push, PushFails, PopItem, PopEmpty, Reverse, IndexGet, IndexSet, Cut, CutWhole,
           IterBegin, IterEnd, IterInvalid, Break, Leave, Raise, Did, List!Did
  <2>3. iter.source = Whole \/ Good(iter.source)
    BY <2>1, <2>2 DEF IterNext, HoldsGood
  <2>4. CASE iter.source = Whole
    BY <2>1, <2>2, <2>4 DEF IterNext, HoldsGood, ListOK, Extent, SlotOf, Whole
  <2>5. CASE Good(iter.source)
    <3>1. iter.source.k = "view" /\ iter.source.version = version
      BY <2>2, <2>5 DEF IterNext, Good, ViewRecords, Usable, ViewIsValid
    <3> QED
      BY <2>1, <2>2, <2>5, <3>1
      DEF IterNext, HoldsGood, ListOK, Good, ViewRecords, Extent, SlotOf
  <2> QED
    BY <2>3, <2>4, <2>5
<1> QED
  BY <1>1, <1>2, InitIInv, PTL DEF Spec, LoopsReadElements

\* The list and the views keep their types.
THEOREM WellFormed ==
  ASSUME CutsInvalid = FALSE
  PROVE  Spec => []TypeOK
<1>1. IInv /\ [Next]_vars => IInv'
  BY NextIInv
<1>2. IInv => TypeOK
  BY DEF IInv
<1> QED
  BY <1>1, <1>2, InitIInv, PTL DEF Spec

-----------------------------------------------------------------------------
(* The list and its views implement the windows of ViewedList. *)

\* The abstract list is as long as the list and holds its elements.
LEMMA ElementsOfList ==
  ASSUME ListOK
  PROVE  /\ Elements \in Seq(Items) /\ Windowed!Length = len
         /\ \A i \in 1 .. len : Elements[i] = items[i]
<1>1. len \in Nat
  BY DEF ListOK
<1>2. Elements \in [1 .. len -> Items]
  BY DEF Elements, ListOK
<1>3. Elements \in Seq(Items)
  BY <1>1, <1>2
<1>4. Len(Elements) = len
  BY <1>1, <1>2, <1>3
<1> QED
  BY <1>3, <1>4 DEF Elements, Windowed!Length

\* A variable holds the abstract window of what it holds.
LEMMA WindowOfSource ==
  ASSUME NEW s \in Sources
  PROVE  s \in Windowed!Sources /\ Windowed!Window(s) = AsWindow(Source(s))
  BY DEF Windowed!Sources, Windowed!Window, AsWindow, Source, Sources, Windowed!Whole, Whole

\* Only the list itself has the kind of the list.
LEMMA SameKind ==
  ASSUME NEW w
  PROVE  AsWindow(w).k = "list" <=> w.k = "list"
  BY DEF AsWindow, List!Open, List!Closed

\* The three forms an abstract window takes.
LEMMA WindowForms ==
  ASSUME NEW w
  PROVE  /\ w = Whole => AsWindow(w) = Windowed!Whole
         /\ w = NoView => AsWindow(w) = Windowed!NoWindow
         /\ w.k = "view" /\ w.version = version => AsWindow(w) = Windowed!Open(w.offset, w.len, w.mode)
         /\ w.k = "view" /\ w.version # version => AsWindow(w) = Windowed!Closed
  BY DEF AsWindow, Whole, NoView, ViewIsValid, List!Open, List!Closed,
         Windowed!Whole, Windowed!NoWindow, Windowed!Open, Windowed!Closed

\* A source that may be used is an open window of the same extent.
LEMMA UsableIsOpen ==
  ASSUME ListOK, NEW w, w = Whole \/ Good(w)
  PROVE  /\ Windowed!IsOpen(AsWindow(w)) <=> Usable(w)
         /\ Usable(w) => /\ Windowed!Span(AsWindow(w)).len = Extent(w)
                         /\ Windowed!Span(AsWindow(w)).from = IF w.k = "list" THEN 0 ELSE w.offset
                         /\ Windowed!Span(AsWindow(w)).mode = IF ReadOnly(w) THEN "readonly" ELSE "writable"
         /\ Extent(w) \in Nat
<1>1. CASE w = Whole
  <2>1. Windowed!Span(AsWindow(w)) = Windowed!Open(0, len, "writable")
    BY <1>1, ElementsOfList, WindowForms DEF Windowed!Span, Windowed!Whole
  <2> QED
    BY <1>1, <2>1 DEF Windowed!IsOpen, Windowed!Open, Usable, ReadOnly, Whole, Extent, ListOK
<1>2. CASE Good(w)
  <2>1. w.k = "view" /\ w.len \in Nat /\ w.mode \in {"readonly", "writable"}
    BY <1>2 DEF Good, ViewRecords, List!Modes
  <2>2. CASE w.version = version
    BY <2>1, <2>2, WindowForms
    DEF Windowed!Span, Windowed!IsOpen, Windowed!Open, Usable, ReadOnly, ViewIsValid, Extent
  <2>3. CASE w.version # version
    BY <2>1, <2>3, WindowForms
    DEF Windowed!Span, Windowed!IsOpen, Windowed!Closed, Usable, ReadOnly, ViewIsValid, Extent
  <2> QED
    BY <2>2, <2>3
<1> QED
  BY <1>1, <1>2

\* The instructions reach what is inside the abstract window, at its place.
LEMMA ReachIsInside ==
  ASSUME ListOK, NEW w, w = Whole \/ Good(w), NEW i \in Int
  PROVE  /\ Windowed!Inside(AsWindow(w), i) <=> CanReach(w, i)
         /\ Usable(w) /\ InBounds(w, i) =>
              /\ Windowed!Inside(AsWindow(w), i)
              /\ Windowed!Place(AsWindow(w), i) = SlotOf(w, i)
              /\ SlotOf(w, i) \in 1 .. len
<1>1. Windowed!Inside(AsWindow(w), i) <=> Usable(w) /\ InBounds(w, i)
  <2>1. Windowed!Inside(AsWindow(w), i) <=>
          /\ Windowed!IsOpen(AsWindow(w))
          /\ i \in 0 .. Windowed!Span(AsWindow(w)).len - 1
    BY DEF Windowed!Inside
  <2> QED
    BY <2>1, UsableIsOpen DEF InBounds
<1>2. ASSUME Usable(w), InBounds(w, i)
      PROVE  Windowed!Place(AsWindow(w), i) = SlotOf(w, i) /\ SlotOf(w, i) \in 1 .. len
  <2>1. Windowed!Place(AsWindow(w), i) = SlotOf(w, i)
    BY <1>2, UsableIsOpen DEF Windowed!Place, SlotOf
  <2>2. SlotOf(w, i) \in 1 .. len
    BY <1>2 DEF SlotOf, InBounds, Usable, Extent, Whole, Good, ViewRecords, ViewIsValid, ListOK
  <2> QED
    BY <2>1, <2>2
<1>3. CanReach(w, i) <=> Usable(w) /\ InBounds(w, i)
  BY <1>2 DEF CanReach, Admits, ListOK
<1> QED
  BY <1>1, <1>2, <1>3

\* A change of the length closes every window, the loop's included.
LEMMA ResizeCloses ==
  ASSUME ListOK, HoldsGood, version' = version + 1, UNCHANGED <<view, iter>>
  PROVE  Windowed!CloseAll
<1>1. ASSUME NEW w, w = Whole \/ w = NoView \/ Good(w)
      PROVE  (IF w.k # "view" THEN w ELSE IF w.version = version' THEN List!Open(w.offset, w.len, w.mode) ELSE List!Closed)
               = Windowed!Close(AsWindow(w))
  <2>1. CASE w = Whole \/ w = NoView
    BY <2>1 DEF AsWindow, Windowed!Close, Whole, NoView
  <2>2. CASE Good(w)
    <3>1. w.k = "view" /\ w.version # version'
      BY <2>2, CapAssumption DEF Good, ViewRecords, ListOK
    <3>2. Windowed!Close(AsWindow(w)) = Windowed!Closed
      BY <3>1, WindowForms DEF Windowed!Close, Windowed!Open, Windowed!Closed
    <3> QED
      BY <3>1, <3>2 DEF List!Closed, Windowed!Closed
  <2> QED
    BY <1>1, <2>1, <2>2
<1>2. ASSUME NEW v \in Views
      PROVE  AsWindow(view[v])' = Windowed!Close(AsWindow(view[v]))
  BY <1>1 DEF HoldsGood, AsWindow, ViewIsValid
<1>3. CASE iter = NoIter
  BY <1>2, <1>3 DEF Windowed!CloseAll, AsLoop, NoIter, Windowed!NoLoop
<1>4. CASE iter # NoIter
  <2>1. AsWindow(iter.source)' = Windowed!Close(AsWindow(iter.source))
    BY <1>1, <1>4 DEF HoldsGood, AsWindow, ViewIsValid
  <2>2. AsLoop = List!LoopAt(AsWindow(iter.source), iter.index)
    BY <1>4 DEF AsLoop
  <2>3. AsLoop' = List!LoopAt(AsWindow(iter.source)', iter.index)
    BY <1>4 DEF AsLoop
  <2>4. AsLoop # Windowed!NoLoop
    BY <2>2 DEF List!LoopAt, Windowed!NoLoop
  <2>5. AsLoop' = [AsLoop EXCEPT !.over = Windowed!Close(@)]
    BY <2>1, <2>2, <2>3 DEF List!LoopAt
  <2> QED
    BY <1>2, <2>4, <2>5 DEF Windowed!CloseAll
<1> QED
  BY <1>3, <1>4

\* What an operation that leaves the views alone leaves of the windows.
LEMMA SameWindows ==
  ASSUME UNCHANGED <<version, view, iter>>
  PROVE  UNCHANGED <<[v \in Views |-> AsWindow(view[v])], AsLoop>>
  BY DEF AsWindow, AsLoop, ViewIsValid

\* An operation that raises is refused.
LEMMA RaiseIsRefusal ==
  ASSUME NEW o, NEW why, Raise(o, why)
  PROVE  Windowed!Refuse(o, why)
<1>1. UNCHANGED <<Elements, [v \in Views |-> AsWindow(view[v])], AsLoop>>
  BY SameWindows DEF Raise, Elements
<1>2. res' = Windowed!Refused(o, why)
  BY DEF Raise, Refused, List!Refused, Windowed!Refused
<1> QED
  BY <1>1, <1>2 DEF Windowed!Refuse

\* A push appends to the abstract list, whether or not the slots grew.
LEMMA PushIsAPush ==
  ASSUME ListOK, HoldsGood, NEW e \in Items, Push(e)
  PROVE  Windowed!APush(e)
<1>1. Windowed!CloseAll
  BY ResizeCloses DEF Push
<1>2. res' = Windowed!Did("push")
  BY DEF Push, Did, List!Did, Windowed!Did
<1>3. len \in Nat /\ len' = len + 1
  BY DEF ListOK, Push
<1>4. \A i \in 1 .. len : items'[i] = items[i]
  <2>1. Grown \in [1 .. cap' -> Items \cup {Junk}] /\ len + 1 \in 1 .. cap'
    BY CapAssumption DEF Push, Grown, NewCap, ListOK
  <2>2. \A i \in 1 .. len : Grown[i] = items[i]
    BY CapAssumption DEF Grown, NewCap, ListOK
  <2> QED
    BY <2>1, <2>2, <1>3 DEF Push
<1>5. items'[len + 1] = e
  <2>1. Grown \in [1 .. cap' -> Items \cup {Junk}] /\ len + 1 \in 1 .. cap'
    BY CapAssumption DEF Push, Grown, NewCap, ListOK
  <2> QED
    BY <2>1 DEF Push
<1>6. Elements' = [i \in 1 .. len + 1 |-> IF i = len + 1 THEN e ELSE items[i]]
  BY <1>3, <1>4, <1>5 DEF Elements
<1>7. Append(Elements, e) = Elements'
  <2> DEFINE new == [i \in 1 .. len + 1 |-> IF i = len + 1 THEN e ELSE items[i]]
  <2>1. Elements \in Seq(Items) /\ Len(Elements) = len /\ \A i \in 1 .. len : Elements[i] = items[i]
    BY ElementsOfList DEF Windowed!Length
  <2>2. Append(Elements, e) \in Seq(Items) /\ Len(Append(Elements, e)) = len + 1
    BY <2>1
  <2>3. new \in [1 .. len + 1 -> Items]
    BY <1>3 DEF ListOK
  <2>4. new \in Seq(Items) /\ Len(new) = len + 1
    <3>1. new \in Seq(Items)
      BY <1>3, <2>3
    <3> QED
      BY <1>3, <2>3, <3>1
  <2>5. \A i \in 1 .. len + 1 : Append(Elements, e)[i] = IF i = len + 1 THEN e ELSE items[i]
    BY <1>3, <2>1
  <2>6. \A i \in 1 .. len + 1 : Append(Elements, e)[i] = new[i]
    BY <2>5
  <2> HIDE DEF new
  <2>7. Append(Elements, e) = new
    BY <2>2, <2>4, <2>6, SeqEqual
  <2> QED
    BY <1>6, <2>7 DEF new
<1> QED
  BY <1>1, <1>2, <1>7 DEF Windowed!APush

\* A pop takes the last element of the abstract list.
LEMMA PopIsAPop ==
  ASSUME ListOK, HoldsGood, PopItem
  PROVE  Windowed!APop
<1>1. Windowed!CloseAll
  BY ResizeCloses DEF PopItem
<1>2. len \in Nat /\ len > 0 /\ len' = len - 1 /\ items' = items
  BY DEF ListOK, PopItem
<1>3. Windowed!Length = len /\ Elements[len] = items[len]
  BY <1>2, ElementsOfList
<1>4. Elements' = [i \in 1 .. len - 1 |-> Elements[i]]
  BY <1>2, ElementsOfList DEF Elements
<1>5. res' = Windowed!Got("pop", Windowed!Whole, len - 1, items[len])
  BY DEF PopItem, Got, List!Got, Windowed!Got, Whole, Windowed!Whole
<1> QED
  BY <1>1, <1>2, <1>3, <1>4, <1>5 DEF Windowed!APop

\* A reverse is one of the elements, whatever lies in the slots past them.
LEMMA ReverseIsAReverse ==
  ASSUME ListOK, Reverse
  PROVE  Windowed!AReverse
<1>1. UNCHANGED <<[v \in Views |-> AsWindow(view[v])], AsLoop>>
  BY SameWindows DEF Reverse
<1>2. res' = Windowed!Did("reverse")
  BY DEF Reverse, Did, List!Did, Windowed!Did
<1>3. Elements' = [i \in 1 .. len |-> Elements[len + 1 - i]]
  <2>1. \A i \in 1 .. len : i \in DOMAIN items /\ len + 1 - i \in 1 .. len
    BY DEF ListOK
  <2>2. \A i \in 1 .. len : items'[i] = items[len + 1 - i]
    BY <2>1 DEF Reverse
  <2> QED
    BY <2>1, <2>2 DEF Elements, Reverse
<1> QED
  BY <1>1, <1>2, <1>3, ElementsOfList DEF Windowed!AReverse

\* A read through the checks is a read inside the window, or is refused
\* because it is outside or the window closed.
LEMMA GetIsARead ==
  ASSUME ListOK, NEW w, w = Whole \/ Good(w), NEW i \in Int, IndexGet(w, i)
  PROVE  \/ Windowed!ARead(AsWindow(w), i)
         \/ ~Windowed!Inside(AsWindow(w), i) /\ Windowed!Refuse("get", "range")
<1>1. CASE CanReach(w, i)
  <2>1. Windowed!Inside(AsWindow(w), i)
    BY <1>1, ReachIsInside
  <2>2. Elements[Windowed!Place(AsWindow(w), i)] = items[SlotOf(w, i)]
    BY <1>1, ReachIsInside, ElementsOfList DEF CanReach, Admits
  <2>3. res' = Got("get", w, i, items[SlotOf(w, i)]) /\ UNCHANGED <<items, len, version, view, iter>>
    BY <1>1 DEF IndexGet
  <2>4. Got("get", w, i, items[SlotOf(w, i)])
          = Windowed!Got("get", AsWindow(w), i, Elements[Windowed!Place(AsWindow(w), i)])
    BY <2>2, SameKind, Zenon DEF Got, List!Got, Windowed!Got
  <2>5. UNCHANGED <<Elements, [v \in Views |-> AsWindow(view[v])], AsLoop>>
    BY <2>3, SameWindows DEF Elements
  <2> QED
    BY <2>1, <2>3, <2>4, <2>5 DEF Windowed!ARead
<1>2. CASE ~CanReach(w, i)
  BY <1>2, ReachIsInside, RaiseIsRefusal DEF IndexGet
<1> QED
  BY <1>1, <1>2

\* And a write likewise, or because the window is readonly.
LEMMA SetIsAWrite ==
  ASSUME ListOK, NEW w, w = Whole \/ Good(w), NEW i \in Int, NEW e \in Items, IndexSet(w, i, e)
  PROVE  \/ Windowed!AWrite(AsWindow(w), i, e)
         \/ ~Windowed!Inside(AsWindow(w), i) /\ Windowed!Refuse("set", "range")
         \/ /\ Windowed!Inside(AsWindow(w), i) /\ Windowed!Span(AsWindow(w)).mode = "readonly"
            /\ Windowed!Refuse("set", "type")
<1>0. /\ Windowed!Inside(AsWindow(w), i) <=> CanReach(w, i)
      /\ CanReach(w, i) <=> Admits(w, i)
      /\ Usable(w) => Windowed!Span(AsWindow(w)).mode = IF ReadOnly(w) THEN "readonly" ELSE "writable"
  BY ReachIsInside, UsableIsOpen DEF CanReach, Admits
<1>1. CASE /\ CanReach(w, i) /\ ~ReadOnly(w)
           /\ items' = [items EXCEPT ![SlotOf(w, i)] = e]
           /\ res' = List!Stored(w, i)
           /\ UNCHANGED <<len, version, view, iter>>
  <2>1. Windowed!Inside(AsWindow(w), i) /\ Windowed!Span(AsWindow(w)).mode = "writable"
    BY <1>0, <1>1 DEF Admits
  <2>2. Windowed!Place(AsWindow(w), i) = SlotOf(w, i) /\ SlotOf(w, i) \in 1 .. len
    BY <1>0, <1>1, ReachIsInside DEF Admits
  <2>4. List!Stored(w, i) = Windowed!Stored(AsWindow(w), i)
    BY SameKind, Zenon DEF List!Stored, Windowed!Stored
  <2>5. UNCHANGED <<[v \in Views |-> AsWindow(view[v])], AsLoop>>
    BY <1>1, SameWindows
  <2>6. Elements' = [Elements EXCEPT ![SlotOf(w, i)] = e]
    <3>1. \A j \in 1 .. len : items'[j] = IF j = SlotOf(w, i) THEN e ELSE items[j]
      BY <1>1 DEF ListOK
    <3>2. Elements' = [j \in 1 .. len |-> IF j = SlotOf(w, i) THEN e ELSE items[j]]
      BY <1>1, <3>1 DEF Elements
    <3> QED
      BY <3>2 DEF Elements
  <2> QED
    BY <1>1, <2>1, <2>2, <2>4, <2>5, <2>6 DEF Windowed!AWrite
<1>2. CASE Admits(w, i) /\ ReadOnly(w) /\ Raise("set", "type")
  BY <1>0, <1>2, RaiseIsRefusal DEF Admits
<1>3. CASE ~CanReach(w, i) /\ Raise("set", "range")
  BY <1>0, <1>3, RaiseIsRefusal
<1> QED
  BY <1>1, <1>2, <1>3 DEF IndexSet

\* A view is cut inside an open window, or is refused: because it does not fit,
\* or for want of memory.
LEMMA CutIsAView ==
  ASSUME CutsInvalid = FALSE, ListOK, HoldsGood, NEW w, w = Whole \/ Good(w), NEW v \in Views,
         NEW off \in Int, NEW n \in Int, NEW mode \in List!Modes, Cut(v, w, off, n, mode)
  PROVE  \/ Windowed!AView(v, AsWindow(w), off, n, mode)
         \/ Windowed!Fits(AsWindow(w), off, n) /\ Windowed!Refuse("view", "memory")
         \/ ~Windowed!Fits(AsWindow(w), off, n) /\ Windowed!Refuse("view", "range")
<1> DEFINE new == CutOf(w, off, n, mode)
           from == IF w.k = "list" THEN 0 ELSE w.offset
           kept == IF ReadOnly(w) THEN "readonly" ELSE mode
<1>1. ASSUME FitsSource(w, off, n), Usable(w)
      PROVE  Windowed!Fits(AsWindow(w), off, n)
  BY <1>1, UsableIsOpen DEF Windowed!Fits, FitsSource
<1>2. CASE /\ FitsSource(w, off, n) /\ Usable(w)
           /\ view' = [view EXCEPT ![v] = new]
           /\ res' = List!Cut(w, off, n)
           /\ UNCHANGED <<items, len, version, iter>>
  <2>1. /\ Windowed!Fits(AsWindow(w), off, n)
        /\ Windowed!Span(AsWindow(w)).from = from
        /\ Windowed!Span(AsWindow(w)).mode = IF ReadOnly(w) THEN "readonly" ELSE "writable"
    BY <1>1, <1>2, UsableIsOpen
  <2>2. AsWindow(new) = Windowed!Open(from + off, n, kept)
    <3>1. w.k = "list" => ~ReadOnly(w)
      BY DEF ReadOnly
    <3>2. new = MakeView(from + off, n, version, IF w.k = "list" THEN version ELSE w.root, kept)
      BY <3>1 DEF CutOf
    <3> HIDE DEF new, from, kept
    <3> QED
      BY <3>2 DEF AsWindow, MakeView, ViewIsValid, List!Open, Windowed!Open
  <2>3. List!Cut(w, off, n) = Windowed!Cut(AsWindow(w), off, n)
    BY SameKind, Zenon DEF List!Cut, Windowed!Cut
  <2>4. AsLoop' = AsLoop /\ Elements' = Elements
    BY <1>2 DEF AsLoop, AsWindow, ViewIsValid, Elements
  <2>5. [u \in Views |-> AsWindow(view[u])]'
          = [[u \in Views |-> AsWindow(view[u])]
               EXCEPT ![v] = Windowed!Open(from + off, n, kept)]
    <3> HIDE DEF new, from, kept
    <3>1. \A u \in Views : view'[u] = IF u = v THEN new ELSE view[u]
      BY <1>2 DEF HoldsGood
    <3>2. \A u : AsWindow(view[u])' = AsWindow(view'[u])
      BY <1>2 DEF AsWindow, ViewIsValid
    <3> QED
      BY <2>2, <3>1, <3>2
  <2> QED
    BY <1>2, <2>1, <2>3, <2>4, <2>5 DEF Windowed!AView
<1>3. CASE FitsSource(w, off, n) /\ Usable(w) /\ Raise("view", "memory")
  BY <1>1, <1>3, RaiseIsRefusal
<1>4. CASE ~FitsSource(w, off, n) /\ Raise("view", "range")
  <2>1. ~Windowed!Fits(AsWindow(w), off, n)
    BY <1>4, UsableIsOpen DEF Windowed!Fits, FitsSource
  <2> QED
    BY <1>4, <2>1, RaiseIsRefusal
<1> QED
  BY <1>2, <1>3, <1>4 DEF Cut

\* A loop begins over the abstract window of its source, if there is memory for it.
LEMMA BeginIsABegin ==
  ASSUME ListOK, NEW w, w = Whole \/ Good(w), IterBegin(w)
  PROVE  Windowed!ABegin(AsWindow(w)) \/ Windowed!Refuse("begin", "memory")
<1> SUFFICES ASSUME ~Raise("begin", "memory") PROVE Windowed!ABegin(AsWindow(w))
  BY RaiseIsRefusal
<1>1. AsWindow(w) # Windowed!NoWindow
  BY WindowForms DEF Good, ViewRecords, Windowed!NoWindow, Windowed!Whole, Windowed!Open, Windowed!Closed
<1>2. UNCHANGED <<Elements, [v \in Views |-> AsWindow(view[v])]>> /\ AsWindow(w)' = AsWindow(w)
  BY DEF IterBegin, Elements, AsWindow, ViewIsValid
<1>3. AsLoop' = Windowed!LoopAt(AsWindow(w), 0)
  <2>1. iter' # NoIter /\ iter'.source = w /\ iter'.index = 0
    BY DEF IterBegin, NoIter
  <2>2. AsLoop' = List!LoopAt(AsWindow(iter'.source), iter'.index)
    BY <2>1 DEF AsLoop, AsWindow, ViewIsValid, IterBegin
  <2> QED
    BY <2>1, <2>2 DEF List!LoopAt, Windowed!LoopAt
<1> QED
  BY <1>1, <1>2, <1>3 DEF Windowed!ABegin, IterBegin, Did, List!Did, Windowed!Did

\* The loop under way in terms of the iterator.
LEMMA LoopOfIterator ==
  ASSUME HoldsGood, iter # NoIter
  PROVE  /\ AsLoop # Windowed!NoLoop
         /\ AsLoop = Windowed!LoopAt(AsWindow(iter.source), iter.index)
         /\ AsLoop.over = AsWindow(iter.source) /\ AsLoop.at = iter.index
         /\ iter.index \in Nat
         /\ iter.source = Whole \/ Good(iter.source)
  BY DEF HoldsGood, AsLoop, List!LoopAt, Windowed!LoopAt, Windowed!NoLoop

\* A loop gives the element the abstract loop gives, though it looks at no length
\* of the list.
LEMMA NextIsAYield ==
  ASSUME ListOK, HoldsGood, IterNext
  PROVE  Windowed!AYield
<1> DEFINE w == iter.source
<1>1. iter # NoIter /\ Usable(w) /\ InBounds(w, iter.index)
  BY LoopOfIterator DEF IterNext, InBounds
<1>2. /\ Windowed!Inside(AsWindow(w), iter.index)
      /\ Elements[Windowed!Place(AsWindow(w), iter.index)] = items[SlotOf(w, iter.index)]
  BY <1>1, LoopOfIterator, ReachIsInside, ElementsOfList
<1>3. res' = Windowed!Got("next", AsWindow(w), iter.index, Elements[Windowed!Place(AsWindow(w), iter.index)])
  <2>1. res' = Got("next", w, iter.index, items[SlotOf(w, iter.index)])
    BY DEF IterNext
  <2>2. Got("next", w, iter.index, items[SlotOf(w, iter.index)])
          = Windowed!Got("next", AsWindow(w), iter.index, Elements[Windowed!Place(AsWindow(w), iter.index)])
    BY <1>2, SameKind, Zenon DEF Got, List!Got, Windowed!Got
  <2> QED
    BY <2>1, <2>2
<1>4. UNCHANGED <<Elements, [v \in Views |-> AsWindow(view[v])]>> /\ AsWindow(w)' = AsWindow(iter.source)
  BY DEF IterNext, Elements, AsWindow, ViewIsValid, HoldsGood
<1>5. AsLoop' = [AsLoop EXCEPT !.at = @ + 1]
  <2>1. iter' # NoIter /\ iter'.source = iter.source /\ iter'.index = iter.index + 1
    BY <1>1 DEF IterNext, HoldsGood, NoIter
  <2>2. AsLoop' = Windowed!LoopAt(AsWindow(iter.source), iter.index + 1)
    BY <2>1 DEF AsLoop, AsWindow, ViewIsValid, IterNext, List!LoopAt, Windowed!LoopAt
  <2> QED
    BY <1>1, <2>2, LoopOfIterator DEF Windowed!LoopAt
<1> QED
  BY <1>1, <1>2, <1>3, <1>4, <1>5, LoopOfIterator DEF Windowed!AYield

\* A loop that is left is left by the abstract list too.
LEMMA LeaveIsALeave ==
  ASSUME HoldsGood, iter # NoIter, NEW answer, Leave(answer)
  PROVE  Windowed!ALeave(answer)
<1>1. UNCHANGED <<Elements, [v \in Views |-> AsWindow(view[v])]>>
  BY DEF Leave, Elements, AsWindow, ViewIsValid
<1>2. AsLoop' = Windowed!NoLoop
  BY DEF Leave, AsLoop, NoIter, Windowed!NoLoop
<1> QED
  BY <1>1, <1>2, LoopOfIterator DEF Windowed!ALeave, Leave

\* Every operation is one of the abstract list, or changes nothing it has.
LEMMA NextIsANext ==
  ASSUME CutsInvalid = FALSE, IInv, [Next]_vars
  PROVE  [Windowed!ANext]_Windowed!avars
<1>0. ListOK /\ HoldsGood
  BY GoodIsIInv
<1>r. ASSUME NEW s \in Sources, Source(s) # NoView
      PROVE  /\ Source(s) = Whole \/ Good(Source(s))
             /\ s \in Windowed!Sources /\ Windowed!Window(s) = AsWindow(Source(s))
  BY <1>0, <1>r, WindowOfSource DEF Source, Sources, HoldsGood
<1>1. ASSUME NEW e \in Items, Push(e) PROVE Windowed!ANext
  BY <1>0, <1>1, PushIsAPush DEF Windowed!ANext
<1>2. CASE PushFails
  BY <1>2, RaiseIsRefusal DEF PushFails, Windowed!ARefuse, Windowed!ANext
<1>3. CASE PopItem
  BY <1>0, <1>3, PopIsAPop DEF Windowed!ANext
<1>4. CASE PopEmpty
  BY <1>0, <1>4, RaiseIsRefusal, ElementsOfList DEF PopEmpty, Windowed!ARefuse, Windowed!ANext
<1>5. CASE Reverse
  BY <1>0, <1>5, ReverseIsAReverse DEF Windowed!ANext
<1>6. ASSUME NEW s \in Sources, Source(s) # NoView, NEW i \in Indices, IndexGet(Source(s), i)
      PROVE  Windowed!ANext
  <2>1. \/ Windowed!ARead(Windowed!Window(s), i)
        \/ ~Windowed!Inside(Windowed!Window(s), i) /\ Windowed!Refuse("get", "range")
    BY <1>0, <1>6, <1>r, GetIsARead, IndexAssumption
  <2> QED
    BY <1>6, <1>r, <2>1 DEF Windowed!ARefuse, Windowed!ANext
<1>7. ASSUME NEW s \in Sources, Source(s) # NoView, NEW i \in Indices, NEW e \in Items,
             IndexSet(Source(s), i, e)
      PROVE  Windowed!ANext
  <2>1. \/ Windowed!AWrite(Windowed!Window(s), i, e)
        \/ ~Windowed!Inside(Windowed!Window(s), i) /\ Windowed!Refuse("set", "range")
        \/ /\ Windowed!Inside(Windowed!Window(s), i) /\ Windowed!Span(Windowed!Window(s)).mode = "readonly"
           /\ Windowed!Refuse("set", "type")
    BY <1>0, <1>7, <1>r, SetIsAWrite, IndexAssumption
  <2> QED
    BY <1>7, <1>r, <2>1 DEF Windowed!ARefuse, Windowed!ANext
<1>8. ASSUME NEW s \in Sources, Source(s) # NoView, NEW v \in Views, NEW mode \in List!Modes,
             NEW off \in Indices \cup 0 .. len, NEW n \in Indices \cup 0 .. len,
             Cut(v, Source(s), off, n, mode)
      PROVE  Windowed!ANext
  <2>1. off \in Int /\ n \in Int
    BY <1>0, IndexAssumption DEF ListOK
  <2>2. \/ Windowed!AView(v, Windowed!Window(s), off, n, mode)
        \/ Windowed!Fits(Windowed!Window(s), off, n) /\ Windowed!Refuse("view", "memory")
        \/ ~Windowed!Fits(Windowed!Window(s), off, n) /\ Windowed!Refuse("view", "range")
    BY <1>0, <1>8, <1>r, <2>1, CutIsAView
  <2>3. off \in Windowed!Lengths /\ n \in Windowed!Lengths
    BY <1>0, ElementsOfList DEF Windowed!Lengths
  <2> QED
    BY <1>8, <1>r, <2>2, <2>3 DEF Windowed!ARefuse, Windowed!ANext, List!Modes, Windowed!Modes
<1>9. ASSUME NEW s \in Sources, Source(s) # NoView, NEW v \in Views, NEW mode \in List!Modes,
             CutWhole(v, Source(s), mode)
      PROVE  Windowed!ANext
  <2>1. CASE Usable(Source(s))
    <3>1. Extent(Source(s)) \in 0 .. len
      BY <1>0, <1>9, <1>r, <2>1 DEF Extent, Usable, ViewIsValid, Good, ViewRecords, ListOK, Whole
    <3>2. 0 \in Indices
      BY IndexAssumption
    <3> QED
      BY <1>8, <1>9, <2>1, <3>1, <3>2 DEF CutWhole
  <2>2. CASE ~Usable(Source(s))
    <3>1. Windowed!Refuse("view", "range")
      BY <1>9, <2>2, RaiseIsRefusal DEF CutWhole
    <3>2. ~Windowed!Fits(Windowed!Window(s), 0, 0)
      BY <1>0, <1>9, <1>r, <2>2, UsableIsOpen DEF Windowed!Fits
    <3>3. 0 \in Windowed!Lengths
      BY IndexAssumption DEF Windowed!Lengths
    <3> QED
      BY <1>9, <1>r, <3>1, <3>2, <3>3 DEF Windowed!ARefuse, Windowed!ANext
  <2> QED
    BY <2>1, <2>2
<1>10. ASSUME NEW s \in Sources, Source(s) # NoView, IterBegin(Source(s))
       PROVE  Windowed!ANext
  <2>1. Windowed!ABegin(Windowed!Window(s)) \/ Windowed!Refuse("begin", "memory")
    BY <1>0, <1>10, <1>r, BeginIsABegin
  <2> QED
    BY <1>10, <1>r, <2>1 DEF Windowed!ARefuse, Windowed!ANext
<1>11. CASE IterNext
  BY <1>0, <1>11, NextIsAYield DEF Windowed!ANext
<1>12. CASE IterEnd
  <2>1. Windowed!Done
    BY <1>0, <1>12, LoopOfIterator, UsableIsOpen DEF IterEnd, Windowed!Done
  <2>2. Windowed!ALeave(Windowed!Did("end"))
    BY <1>0, <1>12, LeaveIsALeave DEF IterEnd, Did, List!Did, Windowed!Did
  <2> QED
    BY <2>1, <2>2 DEF Windowed!ANext
<1>13. CASE IterInvalid
  <2>1. Windowed!Stopped
    BY <1>0, <1>13, LoopOfIterator, UsableIsOpen DEF IterInvalid, Windowed!Stopped
  <2>2. Windowed!ALeave(Windowed!Refused("next", "range"))
    BY <1>0, <1>13, LeaveIsALeave DEF IterInvalid, Refused, List!Refused, Windowed!Refused
  <2> QED
    BY <2>1, <2>2 DEF Windowed!ANext
<1>14. CASE Break
  <2>1. Windowed!ALeave(Windowed!Did("break"))
    BY <1>0, <1>14, LeaveIsALeave DEF Break, Did, List!Did, Windowed!Did
  <2> QED
    BY <2>1 DEF Windowed!ANext
<1>15. CASE UNCHANGED vars
  <2>1. UNCHANGED <<Elements, [v \in Views |-> AsWindow(view[v])], AsLoop, res>>
    BY <1>15, SameWindows DEF vars, Elements
  <2> QED
    BY <2>1 DEF Windowed!avars
<1> QED
  BY <1>1, <1>2, <1>3, <1>4, <1>5, <1>6, <1>7, <1>8, <1>9, <1>10, <1>11, <1>12, <1>13, <1>14, <1>15,
     IndexAssumption
  DEF Next

\* The program starts where the abstract list starts.
LEMMA InitIsAInit == Init => Windowed!AInit
<1> SUFFICES ASSUME Init PROVE Windowed!AInit
  OBVIOUS
<1>1. Elements = <<>>
  BY DEF Init, Elements
<1>2. [v \in Views |-> AsWindow(view[v])] = [v \in Views |-> Windowed!NoWindow]
  BY DEF Init, AsWindow, NoView, Windowed!NoWindow
<1>3. AsLoop = Windowed!NoLoop
  BY DEF Init, AsLoop, NoIter, Windowed!NoLoop
<1> QED
  BY <1>1, <1>2, <1>3 DEF Init, Windowed!AInit, Did, List!Did, Windowed!Did

\* Shared storage, versions and cast indices give the program nothing but a
\* list whose views are windows that a change of length closes.
THEOREM ViewsRefineWindows ==
  ASSUME CutsInvalid = FALSE
  PROVE  Spec => ImplementsViewedList
<1>1. IInv /\ [Next]_vars => IInv'
  BY NextIInv
<1>2. IInv /\ [Next]_vars => [Windowed!ANext]_Windowed!avars
  BY NextIsANext
<1> QED
  BY <1>1, <1>2, InitIInv, InitIsAInit, PTL DEF Spec, ImplementsViewedList, Windowed!ASpec
=============================================================================
