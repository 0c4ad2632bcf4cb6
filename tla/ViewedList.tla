----------------------------- MODULE ViewedList -----------------------------
(***************************************************************************)
(* What a list and its views promise a program.  A view is a window on the *)
(* list, and a change of the list's length closes the windows opened       *)
(* before it.  An access through an open window, inside it, reaches the    *)
(* element of the list it names; a write through a readonly window, which  *)
(* view() makes, and any other access is refused and changes nothing.  A   *)
(* loop gives the elements of its source in order, each as it then is.     *)
(***************************************************************************)
EXTENDS Integers, Sequences

CONSTANTS Items, Views,
          Indices   \* the integers the program uses as indices and lengths

VARIABLES contents,  \* the elements of the list
          windows,   \* what every view variable holds
          loop,      \* the source of the loop under way and its position
          res        \* the last operation and its answer

avars == <<contents, windows, loop, res>>

Modes == {"readonly", "writable"}

NoWindow == [k |-> "none"]
Closed   == [k |-> "closed"]
Open(from, len, mode) == [k |-> "open", from |-> from, len |-> len, mode |-> mode]
Whole    == [k |-> "list"]

NoLoop == [k |-> "none"]
LoopAt(w, i) == [k |-> "loop", over |-> w, at |-> i]

Did(o)       == [op |-> o]
Refused(o, why) == [op |-> o, refused |-> why]
\* The answers that name the element or the window they are about, and whether
\* they took it from the list or from a view.
Got(o, w, i, e) == [op |-> o, list |-> w.k = "list", at |-> i, item |-> e]
Stored(w, i)    == [op |-> "set", list |-> w.k = "list", at |-> i]
Cut(w, off, n)  == [op |-> "view", list |-> w.k = "list", at |-> off, len |-> n]

Length == Len(contents)
Sources == Views \cup {"list"}
\* The list is a window on all of itself.
Span(w) == IF w.k = "list" THEN Open(0, Length, "writable") ELSE w
Window(s) == IF s = "list" THEN Whole ELSE windows[s]
IsOpen(w) == Span(w).k = "open"
Inside(w, i) == IsOpen(w) /\ i \in 0 .. Span(w).len - 1
Place(w, i) == Span(w).from + i + 1

Close(w) == IF w.k = "open" THEN Closed ELSE w
\* The length of the list changes: every window closes, the loop's with them.
CloseAll == /\ windows' = [v \in Views |-> Close(windows[v])]
            /\ loop' = IF loop = NoLoop THEN loop ELSE [loop EXCEPT !.over = Close(@)]

AInit == /\ contents = <<>>
         /\ windows = [v \in Views |-> NoWindow]
         /\ loop = NoLoop
         /\ res = Did("new")

Refuse(o, why) == res' = Refused(o, why) /\ UNCHANGED <<contents, windows, loop>>

APush(e) ==
    /\ res' = Did("push")
    /\ contents' = Append(contents, e)
    /\ CloseAll

APop ==
    /\ Length > 0
    /\ res' = Got("pop", Whole, Length - 1, contents[Length])
    /\ contents' = [i \in 1 .. Length - 1 |-> contents[i]]
    /\ CloseAll

AReverse ==
    /\ res' = Did("reverse")
    /\ contents' = [i \in 1 .. Length |-> contents[Length + 1 - i]]
    /\ UNCHANGED <<windows, loop>>

ARead(w, i) ==
    /\ Inside(w, i)
    /\ res' = Got("get", w, i, contents[Place(w, i)])
    /\ UNCHANGED <<contents, windows, loop>>

AWrite(w, i, e) ==
    /\ res' = Stored(w, i)
    /\ Inside(w, i) /\ Span(w).mode = "writable"
    /\ contents' = [contents EXCEPT ![Place(w, i)] = e]
    /\ UNCHANGED <<windows, loop>>

\* The lengths a program names are its indices and those of the list.
Lengths == Indices \cup 0 .. Length
Fits(w, off, n) == IsOpen(w) /\ off >= 0 /\ n >= 0 /\ off + n <= Span(w).len

\* What is cut out of a readonly window is readonly.
AView(v, w, off, n, mode) ==
    /\ res' = Cut(w, off, n)
    /\ Fits(w, off, n)
    /\ windows' = [windows EXCEPT ![v] = Open(Span(w).from + off, n, IF Span(w).mode = "readonly" THEN "readonly" ELSE mode)]
    /\ UNCHANGED <<contents, loop>>

ABegin(w) ==
    /\ res' = Did("begin")
    /\ w # NoWindow
    /\ loop' = LoopAt(w, 0)
    /\ UNCHANGED <<contents, windows>>

AYield ==
    /\ loop # NoLoop
    /\ Inside(loop.over, loop.at)
    /\ res' = Got("next", loop.over, loop.at, contents[Place(loop.over, loop.at)])
    /\ loop' = [loop EXCEPT !.at = @ + 1]
    /\ UNCHANGED <<contents, windows>>

Stopped == loop # NoLoop /\ ~IsOpen(loop.over)
Done == loop # NoLoop /\ IsOpen(loop.over) /\ loop.at >= Span(loop.over).len

\* The loop is left: its elements are all given, its window is closed, or the
\* program breaks out of it.
ALeave(answer) ==
    /\ res' = answer
    /\ loop # NoLoop
    /\ loop' = NoLoop
    /\ UNCHANGED <<contents, windows>>

\* What is refused, and why: an access or a cut that does not fit, a write
\* through a readonly window, and anything that needs memory there is none of.
ARefuse ==
    \/ Refuse("push", "memory") \/ Refuse("begin", "memory")
    \/ Refuse("pop", "range") /\ Length = 0
    \/ /\ Refuse("get", "range") \/ Refuse("set", "range")
       /\ \E s \in Sources, i \in Indices : ~Inside(Window(s), i)
    \/ /\ Refuse("set", "type")
       /\ \E s \in Sources, i \in Indices : Inside(Window(s), i) /\ Span(Window(s)).mode = "readonly"
    \/ /\ Refuse("view", "range")
       /\ \E s \in Sources, off, n \in Lengths : ~Fits(Window(s), off, n)
    \/ /\ Refuse("view", "memory")
       /\ \E s \in Sources, off, n \in Lengths : Fits(Window(s), off, n)

ANext ==
    \/ ARefuse
    \/ \E e \in Items : APush(e)
    \/ APop
    \/ AReverse
    \/ \E s \in Sources : ABegin(Window(s))
    \/ AYield
    \/ ALeave(Did("break"))
    \/ Stopped /\ ALeave(Refused("next", "range"))
    \/ Done /\ ALeave(Did("end"))
    \/ \E s \in Sources, i \in Indices :
         \/ ARead(Window(s), i)
         \/ \E e \in Items : AWrite(Window(s), i, e)
    \/ \E s \in Sources, off, n \in Lengths, v \in Views, mode \in Modes :
         AView(v, Window(s), off, n, mode)

ASpec == AInit /\ [][ANext]_avars
=============================================================================
