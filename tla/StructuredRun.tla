----------------------------- MODULE StructuredRun -----------------------------
(***************************************************************************)
(* The reference interpreter: the statement walker of src/runtime.js, which *)
(* runs the syntax tree directly and gets exceptions, break, continue and   *)
(* return from the host's own try/catch/finally.  It is the definition of   *)
(* what a program does, the one the compiled forms are compared with.       *)
(*                                                                         *)
(* The walker's recursion is the list todo of what it has yet to do, the    *)
(* next first: statements, which only run when nothing is in flight, and    *)
(* what the walker does after a statement it has called for.                *)
(***************************************************************************)
EXTENDS Integers, Sequences, SequencesExt

CONSTANTS
  Subtypes,  \* pairs <<child, ancestor>> of the prototype environment
  NoError    \* the code of an exception that comes from no runtime error

NoExn == [type |-> "none", runtime |-> FALSE, code |-> NoError]

\* Completions: falling out of the statement, the Return, Break and Continue
\* signals, and an exception in flight.
Normal   == [kind |-> "normal", exn |-> NoExn]
Signal(k) == [kind |-> k, exn |-> NoExn]
Raises(e) == [kind |-> "throw", exn |-> e]

\* exceptionMatches: isProtoSubtype holds of a type and itself.
ExceptionMatches(e, t) ==
  t = "Exception" \/ e.type = t \/ <<e.type, t>> \in Subtypes

RuntimeErrorToException(code) ==
  [type |-> "RuntimeException", runtime |-> TRUE, code |-> code]

\* A state: what is left to do, the truth values still to come, the effects so
\* far and the completion in flight.
Ends(s, comp)   == [s EXCEPT !.comp = comp]
Then(s, more)   == [s EXCEPT !.todo = more \o s.todo]

\* The next condition of the program: its value, and the state after it.
CondOf(s)    == s.script # <<>> /\ Head(s.script)
AfterCond(s) == [s EXCEPT !.script = IF s.script = <<>> THEN <<>> ELSE Tail(s.script)]

-----------------------------------------------------------------------------
\* Statements.

ExecIf(st, s) ==
  Then(AfterCond(s), IF CondOf(s) THEN st.then
                     ELSE IF st.else # <<>> THEN st.else[1] ELSE <<>>)

\* The first case whose value equals the switch's, else the default.
ExecCases(st, s) ==
  IF st.cases = <<>> THEN Then(s, IF st.default # <<>> THEN st.default[1] ELSE <<>>)
  ELSE Then(AfterCond(s), IF CondOf(s) THEN st.cases[1]
                          ELSE <<[st EXCEPT !.cases = Tail(@)]>>)
ExecSwitch(st, s) ==
  Then(s, <<[k |-> "cases", cases |-> st.cases, default |-> st.default],
            [k |-> "end_switch"]>>)

\* One round of a loop.  st.cond says whether the condition is tested before
\* this round, st.tested whether it is before the next.
ExecLoop(st, s) ==
  LET round == st.body \o <<[k |-> "end_round", loop |-> st]>>
  IN  IF ~st.cond THEN Then(s, round)
      ELSE Then(AfterCond(s), IF CondOf(s) THEN round ELSE <<>>)
Loop(cond, tested, body, step) ==
  <<[k |-> "loop", cond |-> cond, tested |-> tested, body |-> body, step |-> step]>>

ExecWhile(st, s)   == Then(s, Loop(TRUE, TRUE, st.body, <<>>))
ExecDoWhile(st, s) == Then(s, Loop(FALSE, TRUE, st.body, <<>>))
ExecFor(st, s) ==
  LET tested == st.cond # <<>>
  IN  Then(s, st.init \o Loop(tested, tested, st.body, st.step))

\* The host's try/catch/finally around the body.
ExecTry(st, s) ==
  Then(s, st.body \o <<[k |-> "catch", catches |-> st.catches]>>
          \o (IF st.finally = <<>> THEN <<>>
              ELSE <<[k |-> "finally", body |-> st.finally[1]]>>))

CallFunction(f, s, fns) == Then(s, fns[f] \o <<[k |-> "end_call"]>>)

ExecStmt(st, s, fns) ==
  CASE st.k = "mark"     -> [s EXCEPT !.out = Append(s.out, st.id)]
    [] st.k = "throw"    -> Ends(s, Raises(st.exn))
    [] st.k = "fault"    -> Ends(s, Raises(RuntimeErrorToException(st.code)))
    [] st.k \in {"call", "callback"} -> CallFunction(st.callee, s, fns)
    [] st.k \in {"return", "break", "continue"} -> Ends(s, Signal(st.k))
    [] st.k = "cond"     -> AfterCond(s)
    [] st.k = "block"    -> Then(s, st.body)
    [] st.k = "if"       -> ExecIf(st, s)
    [] st.k = "while"    -> ExecWhile(st, s)
    [] st.k = "dowhile"  -> ExecDoWhile(st, s)
    [] st.k = "for"      -> ExecFor(st, s)
    [] st.k = "loop"     -> ExecLoop(st, s)
    [] st.k = "switch"   -> ExecSwitch(st, s)
    [] st.k = "cases"    -> ExecCases(st, s)
    [] st.k = "try"      -> ExecTry(st, s)

-----------------------------------------------------------------------------
\* What follows a statement, whatever it completed with.

\* A break ends the loop; a round that was not left otherwise is followed by
\* the step and the next round.
EndRound(loop, s) ==
  CASE s.comp.kind = "break" -> Ends(s, Normal)
    [] s.comp.kind \in {"normal", "continue"} ->
         Then(Ends(s, Normal), loop.step \o <<[loop EXCEPT !.cond = loop.tested]>>)
    [] OTHER -> s

EndSwitch(s) == IF s.comp.kind = "break" THEN Ends(s, Normal) ELSE s

\* A return ends the call, an exception goes through it.
EndCall(s) == IF s.comp.kind = "throw" THEN s ELSE Ends(s, Normal)

\* The first clause that matches handles the exception.
Handle(catches, s) ==
  LET matching == SelectSeq(catches, LAMBDA c : ExceptionMatches(s.comp.exn, c.type))
  IN  IF s.comp.kind = "throw" /\ matching # <<>>
      THEN Then(Ends(s, Normal), matching[1].body) ELSE s

\* Whatever is in flight waits for the finally block, and the block's own
\* completion replaces it.
RunFinally(body, s) ==
  Then(Ends(s, Normal), body \o <<[k |-> "resume", comp |-> s.comp]>>)
Resume(comp, s) == IF s.comp = Normal THEN Ends(s, comp) ELSE s

Ending == {"end_round", "end_switch", "end_call", "catch", "finally", "resume"}
ExecEnding(e, s) ==
  CASE e.k = "end_round"  -> EndRound(e.loop, s)
    [] e.k = "end_switch" -> EndSwitch(s)
    [] e.k = "end_call"   -> EndCall(s)
    [] e.k = "catch"      -> Handle(e.catches, s)
    [] e.k = "finally"    -> RunFinally(e.body, s)
    [] e.k = "resume"     -> Resume(e.comp, s)

RECURSIVE Exec(_, _)
Exec(s, fns) ==
  IF s.todo = <<>> THEN s
  ELSE LET st   == Head(s.todo)
           rest == [s EXCEPT !.todo = Tail(s.todo)]
       IN  Exec(IF st.k \in Ending THEN ExecEnding(st, rest)
                ELSE IF s.comp = Normal THEN ExecStmt(st, rest, fns) ELSE rest,
                fns)

\* runProgram: the effects of a run of main and the exception it ends with.
RunProgram(fns, main, script) ==
  LET start == [todo |-> <<>>, script |-> script, out |-> <<>>, comp |-> Normal]
      t == Exec(CallFunction(main, start, fns), fns)
  IN  [out |-> t.out, exn |-> t.comp.exn]
=============================================================================
