------------------------------- MODULE SamplePrograms -------------------------------
(***************************************************************************)
(* Small programs for the compiler and the interpreter: a statement put in  *)
(* the hole of a construct, that construct in the hole of another, and so   *)
(* on.  Every construct leaves a mark after its hole, so that what was run  *)
(* and what was skipped can be told apart.                                  *)
(***************************************************************************)
EXTENDS Integers, Sequences

CONSTANT NoError

Exn(t) == [type |-> t, runtime |-> FALSE, code |-> NoError]

\* A is a user exception, B a child of A, C another one.
TypeNames == {"Exception", "RuntimeException", "A", "B", "C"}
Ancestors == {<<"B", "A">>, <<"A", "Exception">>, <<"B", "Exception">>,
              <<"C", "Exception">>, <<"RuntimeException", "Exception">>}

MarkSt(i)    == [k |-> "mark", id |-> i]
ThrowSt(t)   == [k |-> "throw", exn |-> Exn(t)]
Cond         == [k |-> "cond"]
Catch(t, b)  == [type |-> t, body |-> b]
Try(b, cs, f) == [k |-> "try", body |-> b, catches |-> cs, finally |-> f]
While(b)     == [k |-> "while", body |-> b]
If(b)        == [k |-> "if", then |-> b, else |-> <<>>]
For(i, c, s, b) == [k |-> "for", init |-> i, cond |-> c, step |-> s, body |-> b]
Switch(cs, d) == [k |-> "switch", cases |-> cs, default |-> d]

Leaf(l) ==
  CASE l = "mark"     -> <<MarkSt("leaf")>>
    [] l = "throwA"   -> <<ThrowSt("A")>>
    [] l = "throwB"   -> <<ThrowSt("B")>>
    [] l = "throwC"   -> <<ThrowSt("C")>>
    [] l = "fault"    -> <<[k |-> "fault", code |-> "range"]>>
    [] l = "call"     -> <<[k |-> "call", callee |-> "g"]>>
    [] l = "callback" -> <<[k |-> "callback", callee |-> "g"]>>
    [] l = "return"   -> <<[k |-> "return"]>>
    [] l = "break"    -> <<[k |-> "break"]>>
    [] l = "continue" -> <<[k |-> "continue"]>>

\* Construct s with h in its hole, then a mark.
Fill(s, h) ==
  (CASE s = "none"    -> h
     [] s = "if"      -> <<If(h)>>
     [] s = "else"    -> <<[k |-> "if", then |-> <<MarkSt("then")>>, else |-> <<h>>]>>
     [] s = "while"   -> <<While(h \o <<MarkSt("round")>>)>>
     [] s = "dowhile" -> <<[k |-> "dowhile", body |-> h]>>
     [] s = "for"     -> <<For(<<MarkSt("init")>>, <<Cond>>, <<MarkSt("step")>>, h)>>
     [] s = "forever" -> <<For(<<>>, <<>>, <<>>, h \o <<[k |-> "break"]>>)>>
     [] s = "case"    -> <<Switch(<<<<MarkSt("case")>>, h>>, <<<<MarkSt("default")>>>>)>>
     [] s = "default" -> <<Switch(<<<<MarkSt("case")>>>>, <<h>>)>>
     [] s = "tryA"    -> <<Try(h, <<Catch("A", <<MarkSt("caughtA")>>)>>, <<>>)>>
     [] s = "tryBRt"  -> <<Try(h, <<Catch("B", <<MarkSt("caughtB")>>),
                                   Catch("RuntimeException", <<MarkSt("caughtRt")>>)>>, <<>>)>>
     [] s = "catch"   -> <<Try(<<ThrowSt("B")>>, <<Catch("C", <<MarkSt("caughtC")>>),
                                                    Catch("A", h)>>, <<>>)>>
     [] s = "tryFin"  -> <<Try(h, <<>>, <<<<MarkSt("finally")>>>>)>>
     [] s = "finally" -> <<Try(<<MarkSt("body")>>, <<>>, <<h>>)>>
     [] s = "tryAllFin" -> <<Try(h, <<Catch("Exception", <<MarkSt("caught")>>)>>,
                                 <<<<MarkSt("finally")>>>>)>>
     [] s = "pending" -> <<Try(<<ThrowSt("A")>>, <<>>, <<h>>)>>)
  \o <<MarkSt("after")>>

MarkIds == {"leaf", "then", "round", "init", "step", "case", "default", "caughtA",
            "caughtB", "caughtRt", "caughtC", "finally", "body", "caught", "after", "g"}

Loops    == {"while", "dowhile", "for", "forever"}
Switches == {"case", "default"}
WithFin  == {"tryFin", "tryAllFin"}
Tries    == {"tryA", "tryBRt"} \cup WithFin
Catching == {"tryA", "tryBRt", "catch", "tryAllFin"}

\* Program <<s1, s2, s3, l, t, m>>: main is s1 around s2 around s3 around the
\* leaf l, and the function g that a call leaf calls is t around the leaf m.
Bodies(p) ==
  [main |-> Fill(p[1], Fill(p[2], Fill(p[3], Leaf(p[4])))),
   g    |-> Fill(p[5], Leaf(p[6])) \o <<MarkSt("g")>>]

\* The leaf's break or continue binds to one of the targets, with no other
\* construct of the set barriers on the way.
Leaves(p, targets, barriers) ==
  \E k \in 1..3 : /\ p[k] \in targets
                  /\ \A j \in (k + 1)..3 : p[j] \notin targets \cup barriers

\* Regular programs: no break, continue or return leaves a try body that has
\* something to undo or to run, and no try inside a finally block catches an
\* exception while another is pending.
Regular(p) ==
  /\ p[4] = "break" => Leaves(p, Loops \cup Switches, Tries)
  /\ p[4] = "continue" => Leaves(p, Loops \ {"forever"}, Tries \cup {"forever"})
  /\ p[4] = "return" => \A k \in 1..3 : p[k] \notin WithFin
  /\ \A i, j \in 1..3 : p[i] = "pending" /\ i < j => p[j] \notin Catching
=============================================================================
