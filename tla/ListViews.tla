------------------------------ MODULE ListViews ------------------------------
(***************************************************************************)
(* A list of the bytecode interpreter, the views that share its storage    *)
(* and one loop over the list or over a view: ps_list.c, and the list and  *)
(* view instructions and methods of ps_vm.c.  A view holds the list it was *)
(* cut from, the list's version at that moment and a window; whether it is *)
(* still valid is the comparison of the two versions.                      *)
(*                                                                         *)
(* An index is cast to an unsigned word, so a negative one is past every   *)
(* length.  Views are of lists here; a view of a string never closes, and  *)
(* one of the arguments of a variadic call has no version.                 *)
(***************************************************************************)
EXTENDS Integers, Sequences

CONSTANTS Items, Views,
          Indices,       \* the integers the program uses as indices and lengths
          InitCap,       \* the first capacity, 8 in the code
          MaxVersion,    \* bound on the changes of length
          OutOfMemory,   \* whether an allocation may fail
          CutsInvalid    \* whether the program cuts a view from an invalidated one

ASSUME CapAssumption == InitCap \in Nat \ {0} /\ MaxVersion \in Nat
ASSUME IndexAssumption == Indices \subseteq Int /\ 0 \in Indices
ASSUME SwitchAssumption == OutOfMemory \in BOOLEAN /\ CutsInvalid \in BOOLEAN

VARIABLES
    items,     \* the allocated slots, elements and what popped ones left
    len, cap, version,
    view,      \* the view variables of the program
    iter,      \* the iterator of the loop under way
    res        \* the last operation and its answer

vars == <<items, len, cap, version, view, iter, res>>

Junk == [k |-> "junk"]   \* a slot never written
NoView == [k |-> "none"]
\* root is the version at which the window was cut out of the list itself: it
\* is no part of the program, and says whether the list has changed since.
MakeView(off, n, ver, root, mode) ==
    [k |-> "view", offset |-> off, len |-> n, version |-> ver, root |-> root, mode |-> mode]
NoIter == [k |-> "none"]
Whole  == [k |-> "list"]

List == INSTANCE ViewedList WITH contents <- <<>>, windows <- <<>>, loop <- <<>>
Did(o) == List!Did(o)
Refused(o, why) == List!Refused(o, why)
Got(o, w, i, e) == List!Got(o, w, i, e)

Sources == Views \cup {"list"}
Source(s) == IF s = "list" THEN Whole ELSE view[s]

-----------------------------------------------------------------------------
\* view_is_valid: the list has the version the view was made at.
ViewIsValid(w) == w.version = version
Usable(w) == w.k = "view" => ViewIsValid(w)
\* The length an index or a sub-view is checked against, valid view or not.
Extent(w) == IF w.k = "list" THEN len ELSE w.len
InBounds(w, i) == i >= 0 /\ i < Extent(w)
\* The slot of an index; ps_list_get_internal and ps_list_set_internal check
\* it against the list.
SlotOf(w, i) == (IF w.k = "list" THEN 0 ELSE w.offset) + i + 1

Init == /\ items = <<>>
        /\ len = 0
        /\ cap = 0
        /\ version = 0
        /\ view = [v \in Views |-> NoView]
        /\ iter = NoIter
        /\ res = Did("new")

\* An operation that raises leaves the list and the views as they are.
Raise(o, why) == res' = Refused(o, why) /\ UNCHANGED <<items, len, cap, version, view, iter>>

NewCap == IF cap = 0 THEN InitCap ELSE 2 * cap
\* Mutant of Grown: the last slot is taken for room.
GrownLate == IF len <= cap THEN items
             ELSE [i \in 1 .. NewCap |-> IF i \in DOMAIN items THEN items[i] ELSE Junk]

Grown == IF len < cap THEN items
         ELSE [i \in 1 .. NewCap |-> IF i \in DOMAIN items THEN items[i] ELSE Junk]

Push(e) ==
    /\ version < MaxVersion
    /\ cap' = IF len < cap THEN cap ELSE NewCap
    /\ items' = [Grown EXCEPT ![len + 1] = e]
    /\ len' = len + 1
    /\ version' = version + 1
    /\ res' = Did("push")
    /\ UNCHANGED <<view, iter>>

PushFails == OutOfMemory /\ len = cap /\ Raise("push", "memory")

\* Mutant of PopItem: the version stays.
PopUnversioned ==
    /\ len > 0
    /\ len' = len - 1
    /\ res' = Got("pop", Whole, len - 1, items[len])
    /\ UNCHANGED <<items, cap, version, view, iter>>

\* pop; removeLast does the same and gives nothing.
PopItem ==
    /\ version < MaxVersion
    /\ len > 0
    /\ len' = len - 1
    /\ version' = version + 1
    /\ res' = Got("pop", Whole, len - 1, items[len])
    /\ UNCHANGED <<items, cap, view, iter>>

PopEmpty == len = 0 /\ Raise("pop", "range")

Reverse ==
    /\ items' = [i \in DOMAIN items |-> IF i <= len THEN items[len + 1 - i] ELSE items[i]]
    /\ res' = Did("reverse")
    /\ UNCHANGED <<len, cap, version, view, iter>>

-----------------------------------------------------------------------------
\* check_index_bounds, then index_get or index_set.
Admits(w, i) == InBounds(w, i) /\ Usable(w)
CanReach(w, i) == Admits(w, i) /\ SlotOf(w, i) <= len
\* A window that view() cut, or that was cut out of one.
ReadOnly(w) == w.k = "view" /\ w.mode = "readonly"

IndexGet(w, i) ==
    IF CanReach(w, i)
    THEN /\ res' = Got("get", w, i, items[SlotOf(w, i)])
         /\ UNCHANGED <<items, len, cap, version, view, iter>>
    ELSE Raise("get", "range")

IndexSet(w, i, e) ==
    \/ /\ CanReach(w, i) /\ ~ReadOnly(w)
       /\ items' = [items EXCEPT ![SlotOf(w, i)] = e]
       /\ res' = List!Stored(w, i)
       /\ UNCHANGED <<len, cap, version, view, iter>>
    \/ Admits(w, i) /\ ReadOnly(w) /\ Raise("set", "type")
    \/ ~CanReach(w, i) /\ ~(Admits(w, i) /\ ReadOnly(w)) /\ Raise("set", "range")

\* Mutant of FitsSource: one element past the source.
FitsPastEnd(w, off, n) == off >= 0 /\ n >= 0 /\ off + n <= Extent(w) + 1

\* check_view_bounds: the window is tested against the source.
FitsSource(w, off, n) == off >= 0 /\ n >= 0 /\ off + n <= Extent(w)

\* Mutant of CutOf: the source's offset is forgotten.
CutFromStart(w, off, n, mode) ==
    MakeView(off, n, version, version, IF ReadOnly(w) THEN "readonly" ELSE mode)

\* The new view takes the version the list has now; what is cut out of a
\* readonly view is readonly.
CutOf(w, off, n, mode) ==
    IF w.k = "list" THEN MakeView(off, n, version, version, mode)
    ELSE MakeView(w.offset + off, n, version, w.root, IF ReadOnly(w) THEN "readonly" ELSE mode)

\* make_view: view() makes its window readonly, slice() writable.
Cut(v, w, off, n, mode) ==
    IF FitsSource(w, off, n)
    THEN /\ CutsInvalid \/ Usable(w)
         /\ \/ /\ view' = [view EXCEPT ![v] = CutOf(w, off, n, mode)]
               /\ res' = List!Cut(w, off, n)
               /\ UNCHANGED <<items, len, cap, version, iter>>
            \/ OutOfMemory /\ Raise("view", "memory")
    ELSE Raise("view", "range")

\* Without arguments the length method comes first, which tests the view.
CutWhole(v, w, mode) ==
    IF Usable(w) THEN Cut(v, w, 0, Extent(w), mode) ELSE Raise("view", "range")

-----------------------------------------------------------------------------
\* iter_begin keeps the source; the other two run one after the other, and the
\* body of the loop between one pair and the next.
IterBegin(w) ==
    /\ iter = NoIter
    /\ \/ /\ iter' = [k |-> "iter", source |-> w, index |-> 0]
          /\ res' = Did("begin")
          /\ UNCHANGED <<items, len, cap, version, view>>
       \/ OutOfMemory /\ Raise("begin", "memory")

Leave(answer) ==
    /\ iter' = NoIter
    /\ res' = answer
    /\ UNCHANGED <<items, len, cap, version, view>>

\* Mutant of IterNext: the loop over the list goes one slot too far.
IterNextPastEnd ==
    /\ iter # NoIter
    /\ Usable(iter.source)
    /\ iter.index <= Extent(iter.source)
    /\ iter.source = Whole /\ iter.index < cap
    /\ iter' = [iter EXCEPT !.index = @ + 1]
    /\ res' = Got("next", iter.source, iter.index, items[SlotOf(iter.source, iter.index)])
    /\ UNCHANGED <<items, len, cap, version, view>>

\* branch_iter_has_next goes to the body and iter_next reads the slot there.
IterNext ==
    /\ iter # NoIter
    /\ Usable(iter.source)
    /\ iter.index < Extent(iter.source)
    /\ iter' = [iter EXCEPT !.index = @ + 1]
    /\ res' = Got("next", iter.source, iter.index, items[SlotOf(iter.source, iter.index)])
    /\ UNCHANGED <<items, len, cap, version, view>>

IterEnd == /\ iter # NoIter
           /\ Usable(iter.source)
           /\ iter.index >= Extent(iter.source)
           /\ Leave(Did("end"))

IterInvalid == iter # NoIter /\ ~Usable(iter.source) /\ Leave(Refused("next", "range"))

Break == iter # NoIter /\ Leave(Did("break"))

Next ==
    \/ \E e \in Items : Push(e)
    \/ PushFails
    \/ PopItem
    \/ PopEmpty
    \/ Reverse
    \/ \E s \in Sources :
         /\ Source(s) # NoView
         /\ \/ \E i \in Indices : \/ IndexGet(Source(s), i)
                                  \/ \E e \in Items : IndexSet(Source(s), i, e)
            \/ \E v \in Views, mode \in List!Modes :
                 \/ \E off, n \in Indices : Cut(v, Source(s), off, n, mode)
                 \/ CutWhole(v, Source(s), mode)
            \/ IterBegin(Source(s))
    \/ IterNext
    \/ IterEnd
    \/ IterInvalid
    \/ Break

Spec == Init /\ [][Next]_vars

-----------------------------------------------------------------------------
(* Properties. *)

ViewRecords == [k : {"view"}, offset : Nat, len : Nat, version : 0 .. version,
                root : 0 .. version, mode : List!Modes]

\* The list, its views and the iterator are well formed.
TypeOK ==
    /\ cap \in Nat /\ len \in 0 .. cap /\ version \in 0 .. MaxVersion
    /\ items \in [1 .. cap -> Items \cup {Junk}]
    /\ \A i \in 1 .. len : items[i] \in Items
    /\ view \in [Views -> {NoView} \cup ViewRecords]
    /\ \/ iter = NoIter
       \/ iter \in [k : {"iter"}, source : {Whole} \cup ViewRecords, index : Nat]

\* The views the program can reach, the one a loop keeps included.
Held == {w \in {view[v] : v \in Views}
                \cup (IF iter = NoIter THEN {} ELSE {iter.source}) : w.k = "view"}

\* A view that passes for valid lies inside the list, and its list has not
\* changed in length since its window was cut: the version alone protects the
\* unchecked reads of a loop.
ValidViewsFit ==
    \A w \in Held : ViewIsValid(w) => w.offset + w.len <= len /\ w.root = version

IInv == TypeOK /\ ValidViewsFit

\* A loop reads its slot without looking at the length of the list: the slot
\* holds an element of the list all the same, never what a pop left behind
\* (SPECIFICATION.md:3750, an invalidated view is not used).
LoopsReadElements ==
    [][iter' # iter /\ res'.op = "next" /\ iter' # NoIter =>
         SlotOf(iter.source, iter.index) <= len]_vars

-----------------------------------------------------------------------------
(* The list and its views implement the windows of ViewedList. *)

Elements == [i \in 1 .. len |-> items[i]]
AsWindow(w) == IF w.k # "view" THEN w
               ELSE IF ViewIsValid(w) THEN List!Open(w.offset, w.len, w.mode) ELSE List!Closed
AsLoop == IF iter = NoIter THEN iter ELSE List!LoopAt(AsWindow(iter.source), iter.index)

Windowed == INSTANCE ViewedList
            WITH contents <- Elements,
                 windows <- [v \in Views |-> AsWindow(view[v])],
                 loop <- AsLoop

\* Every operation answers as the abstract list does.
ImplementsViewedList == Windowed!ASpec
=============================================================================
