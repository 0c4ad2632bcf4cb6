------------------------------ MODULE MCIrMachine ------------------------------
(***************************************************************************)
(* The interpreter on programs the regular ones leave out: jumps and        *)
(* returns out of try bodies, clauses that do not match, tries inside       *)
(* finally blocks, natives that call back, partial for headers, switches    *)
(* without a clause, and a function that does not end in a return.          *)
(***************************************************************************)
EXTENDS IrMachine, SequencesExt

CONSTANT MaxScript

INSTANCE SamplePrograms
Low == INSTANCE Lowering

Fin == <<<<MarkSt("finally")>>>>

MainBody == [
  matchMissed    |-> <<Try(<<MarkSt("body"), ThrowSt("A")>>,
                           <<Catch("C", <<MarkSt("caughtC")>>)>>, Fin)>>,
  returnInTry    |-> <<Try(<<MarkSt("body"), If(<<[k |-> "return"]>>)>>, <<>>, Fin)>>,
  breakInTry     |-> <<While(<<Try(<<[k |-> "break"]>>,
                                   <<Catch("Exception", <<MarkSt("caught")>>)>>, <<>>)>>),
                       MarkSt("after"), ThrowSt("A")>>,
  continueInTry  |-> <<While(<<Try(<<If(<<[k |-> "continue"]>>), ThrowSt("C")>>,
                                   <<Catch("A", <<MarkSt("caughtA")>>)>>, <<>>)>>)>>,
  callback       |-> <<Try(<<[k |-> "callback", callee |-> "g"]>>,
                           <<Catch("A", <<MarkSt("caughtA")>>)>>, <<>>)>>,
  callbackAfter  |-> <<Try(<<ThrowSt("C")>>, <<Catch("C", <<MarkSt("caughtC")>>)>>, <<>>),
                       [k |-> "callback", callee |-> "g"]>>,
  faultCaught    |-> <<Try(Leaf("fault"), <<Catch("RuntimeException", <<MarkSt("caughtRt")>>)>>, Fin),
                       [k |-> "callback", callee |-> "g"]>>,
  callAfter      |-> <<Try(<<[k |-> "callback", callee |-> "g"]>>,
                           <<Catch("Exception", <<MarkSt("caught")>>)>>, <<>>),
                       [k |-> "call", callee |-> "g"]>>,
  tryInFinally   |-> <<Try(<<ThrowSt("A")>>, <<>>,
                           <<<<Try(<<ThrowSt("C")>>, <<Catch("C", <<MarkSt("caughtC")>>)>>, <<>>)>>>>)>>,
  condAndStep    |-> <<For(<<>>, <<Cond>>, <<MarkSt("step")>>, <<MarkSt("round")>>), MarkSt("after")>>,
  initAndStep    |-> <<For(<<MarkSt("init")>>, <<>>, <<MarkSt("step")>>, <<If(<<[k |-> "break"]>>)>>)>>,
  emptySwitch    |-> <<If(<<Switch(<<>>, <<>>), MarkSt("then")>>), MarkSt("after")>>,
  emptySwitchTry |-> <<Try(<<Switch(<<>>, <<>>), MarkSt("body")>>,
                           <<Catch("A", <<MarkSt("caughtA")>>)>>, <<>>), MarkSt("after")>>,
  emptySwitchLoop |-> <<While(<<Switch(<<>>, <<>>), MarkSt("round")>>), MarkSt("after")>>
]

\* g throws when the first condition it meets holds, and is stopped by a
\* runtime error when the second one does.
GBody == <<If(<<ThrowSt("B")>>), If(Leaf("fault")), MarkSt("g")>>

Lowered == [p \in DOMAIN MainBody |-> Low!LowerFunction(MainBody[p])]

\* The last block of a function need not end it: the code a tool other than
\* the compiler wrote.
NoReturn == <<[label |-> 0, instrs |-> <<[op |-> "mark", id |-> "leaf"]>>, scopes |-> <<<<>>, <<>>>>]>>

AllPrograms == DOMAIN MainBody \cup {"noReturn"}
MCFunctions == {"main", "g"}
MCIR(p, f)  == IF f = "g" THEN Low!LowerFunction(GBody)
               ELSE IF p = "noReturn" THEN NoReturn ELSE Lowered[p]
MCScripts   == UNION {[1..n -> BOOLEAN] : n \in 0..MaxScript}
MCLabels    == 0..40

-----------------------------------------------------------------------------
Halted  == mode \in {"ok", "failed"}
Count(id) == Len(SelectSeq(out, LAMBDA m : m = id))

\* A try whose body was entered has run its finally block when the program
\* ends, whichever way control left the body.
FinallyAlwaysRuns == Halted => Count("finally") = Count("body")
=============================================================================
