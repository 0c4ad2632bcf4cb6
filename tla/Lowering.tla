------------------------------- MODULE Lowering -------------------------------
(***************************************************************************)
(* The lowering of statements to blocks of instructions, ir_lower_stmt of  *)
(* c/frontend.c.  The context is the code's IrFnCtx: the blocks so far, the *)
(* current one, the label counter and the stacks of break and loop targets. *)
(* Labels are the numbers the counter gives them.  A block also carries the *)
(* lexical scope of each of its positions (the handlers of the try bodies   *)
(* the position lies in), which the code does not compute: it is what the   *)
(* interpreter's handler stack is compared with.                            *)
(*                                                                         *)
(* A statement is a record with a kind k.  A body is a sequence of          *)
(* statements; an optional part (else, finally, default, a clause of for)   *)
(* is a sequence of length 0 or 1.                                         *)
(*                                                                         *)
(* LowerX(st, c) is the sequence of the calls the code makes to lower a     *)
(* statement of kind X in context c: what it emits, the blocks it adds and   *)
(* enters, the statements inside it that it lowers.  Lower makes them.      *)
(***************************************************************************)
EXTENDS Integers, Sequences, SequencesExt

Instr1(op)    == [op |-> op]
PushTo(l)     == [op |-> "push_handler", target |-> l]
JumpTo(l)     == [op |-> "jump", target |-> l]
Branch(t, e)  == [op |-> "branch_if", then |-> t, else |-> e]

-----------------------------------------------------------------------------
\* The context.

NewBlock(l, scope) == [label |-> l, instrs |-> <<>>, scopes |-> <<scope>>]
NewCtx == [blocks |-> <<NewBlock(0, <<>>)>>, cur |-> 1, next |-> 1,
           breaks |-> <<>>, loops |-> <<>>]

CurBlock(c) == c.blocks[c.cur]
ScopeAt(c)  == Last(CurBlock(c).scopes)

ScopeAfter(s, i) == IF i.op = "push_handler" THEN Append(s, i.target)
                    ELSE IF i.op = "pop_handler" THEN Front(s) ELSE s

Emit(c, i) ==
  [c EXCEPT !.blocks[c.cur].instrs = Append(@, i),
            !.blocks[c.cur].scopes = Append(@, ScopeAfter(ScopeAt(c), i))]

AddBlocks(c, ls, scope) ==
  [c EXCEPT !.blocks = @ \o [i \in DOMAIN ls |-> NewBlock(ls[i], scope)]]

\* Makes the block with label l the current one.
Enter(c, l) == [c EXCEPT !.cur = CHOOSE i \in DOMAIN c.blocks : c.blocks[i].label = l]

Terminated(c) ==
  LET is == CurBlock(c).instrs
  IN  is # <<>> /\ Last(is).op \in {"ret", "throw", "jump", "branch_if"}

-----------------------------------------------------------------------------
\* The calls a lowering makes.

Emits(i)        == [do |-> "emit", instr |-> i]
Adds(ls, scope) == [do |-> "add", labels |-> ls, scope |-> scope]
Enters(l)       == [do |-> "enter", label |-> l]
\* The labels c.next, ..., c.next + n - 1.
TakesLabels(n)  == [do |-> "labels", count |-> n]
JumpsUnlessTerminated(l) == [do |-> "close", label |-> l]
PushesLoop(brk, cont)    == [do |-> "push_loop", break |-> brk, continue |-> cont]
PushesBreak(brk)         == [do |-> "push_break", break |-> brk]
PopsLoop   == [do |-> "pop_loop"]
PopsBreak  == [do |-> "pop_break"]
Lowers(body) == [i \in DOMAIN body |-> [do |-> "lower", st |-> body[i]]]

Do(call, c) ==
  CASE call.do = "emit"       -> Emit(c, call.instr)
    [] call.do = "add"        -> AddBlocks(c, call.labels, call.scope)
    [] call.do = "enter"      -> Enter(c, call.label)
    [] call.do = "labels"     -> [c EXCEPT !.next = @ + call.count]
    [] call.do = "close"      -> IF Terminated(c) THEN c ELSE Emit(c, JumpTo(call.label))
    [] call.do = "push_loop"  -> [c EXCEPT !.breaks = Append(@, call.break),
                                           !.loops = Append(@, call.continue)]
    [] call.do = "pop_loop"   -> [c EXCEPT !.breaks = Front(@), !.loops = Front(@)]
    [] call.do = "push_break" -> [c EXCEPT !.breaks = Append(@, call.break)]
    [] call.do = "pop_break"  -> [c EXCEPT !.breaks = Front(@)]

Concat(n, Part(_)) == FlattenSeq([i \in 1..n |-> Part(i)])

\* The tests of a switch or of a dispatch, one block each: a hit goes to the
\* body of the same rank, a miss to the next test and in the end to otherwise.
Tests(tests, labels, bodies, otherwise) ==
  LET n == Len(tests)
      test(i) == <<Enters(labels[i])>> \o [j \in DOMAIN tests[i] |-> Emits(tests[i][j])]
                 \o <<Emits(Branch(bodies[i], IF i < n THEN labels[i + 1] ELSE otherwise))>>
  IN  Concat(n, test)

-----------------------------------------------------------------------------
\* An expression as a condition.  ir_lower_expr does not know assignments:
\* it emits unknown_expr for one, and the assignment is not performed.
LowerCond(part) ==
  Emits(Instr1(IF part.k = "cond" THEN "eval" ELSE "unknown_expr"))

\* The init and the step of a for: an assignment is lowered as a statement,
\* anything else as an expression whose value is dropped.
LowerClause(part) ==
  IF part.k = "cond" THEN <<Emits(Instr1("eval"))>> ELSE Lowers(<<part>>)

LowerIf(st, c) ==
  LET then == c.next  done == c.next + 1  else == c.next + 2
      hasElse == st.else # <<>>
  IN  << Emits(Instr1("eval")), TakesLabels(3),
         Adds(IF hasElse THEN <<then, done, else>> ELSE <<then, done>>, ScopeAt(c)),
         Emits(Branch(then, IF hasElse THEN else ELSE done)),
         Enters(then) >> \o Lowers(st.then) \o << JumpsUnlessTerminated(done) >>
      \o (IF hasElse THEN << Enters(else) >> \o Lowers(st.else[1])
                          \o << JumpsUnlessTerminated(done) >>
          ELSE <<>>)
      \o << Enters(done), Emits(Instr1("nop")) >>

LowerWhile(st, c) ==
  LET cond == c.next  body == c.next + 1  done == c.next + 2
  IN  << TakesLabels(3), Adds(<<cond, body, done>>, ScopeAt(c)), Emits(JumpTo(cond)),
         Enters(cond), Emits(Instr1("eval")), Emits(Branch(body, done)),
         PushesLoop(done, cond), Enters(body) >>
      \o Lowers(st.body)
      \o << JumpsUnlessTerminated(cond), PopsLoop, Enters(done), Emits(Instr1("nop")) >>

LowerDoWhile(st, c) ==
  LET body == c.next  cond == c.next + 1  done == c.next + 2
  IN  << TakesLabels(3), Adds(<<body, cond, done>>, ScopeAt(c)), Emits(JumpTo(body)),
         PushesLoop(done, cond), Enters(body) >>
      \o Lowers(st.body)
      \o << JumpsUnlessTerminated(cond), PopsLoop,
            Enters(cond), Emits(Instr1("eval")), Emits(Branch(body, done)),
            Enters(done), Emits(Instr1("nop")) >>

\* The parser leaves no child for an omitted clause, and the lowering takes
\* the children of the node by position: the first is the init, the second
\* the condition, the third the step, whichever clauses they were.
LowerFor(st, c) ==
  LET parts == st.init \o st.cond \o st.step
      init == c.next  cond == c.next + 1  body == c.next + 2
      step == c.next + 3  done == c.next + 4
      clause(i) == IF Len(parts) < i THEN <<>> ELSE LowerClause(parts[i])
  IN  << TakesLabels(5), Adds(<<init, cond, body, step, done>>, ScopeAt(c)),
         Emits(JumpTo(init)), Enters(init) >> \o clause(1)
      \o << Emits(JumpTo(cond)), Enters(cond) >>
      \o (IF Len(parts) > 1 THEN << LowerCond(parts[2]), Emits(Branch(body, done)) >>
          ELSE << Emits(JumpTo(body)) >>)
      \o << PushesLoop(done, step), Enters(body) >> \o Lowers(st.body)
      \o << JumpsUnlessTerminated(step), PopsLoop, Enters(step) >> \o clause(3)
      \o << Emits(JumpTo(cond)), Enters(done), Emits(Instr1("nop")) >>

\* sw_done is added after the bodies are lowered; with neither a case nor a
\* default nothing jumps to it.
LowerSwitch(st, c) ==
  LET n == Len(st.cases)
      scope == ScopeAt(c)
      done == c.next
      cmps == [i \in 1..n |-> c.next + 2 * i - 1]
      bodies == [i \in 1..n |-> c.next + 2 * i]
      dflt == c.next + 2 * n + 1
      hasDefault == st.default # <<>>
      otherwise == IF hasDefault THEN dflt ELSE done
      case(i) == << Enters(bodies[i]) >> \o Lowers(st.cases[i])
                 \o << JumpsUnlessTerminated(done) >>
  IN  << TakesLabels(2 * n + 2), PushesBreak(done),
         Adds(FlattenSeq(Interleave(cmps, bodies))
              \o (IF hasDefault THEN <<dflt>> ELSE <<>>), scope) >>
      \o (IF n > 0 THEN << Emits(JumpTo(cmps[1])) >>
          ELSE IF hasDefault THEN << Emits(JumpTo(dflt)) >> ELSE <<>>)
      \o Tests([i \in 1..n |-> <<Instr1("eval")>>], cmps, bodies, otherwise)
      \o Concat(n, case)
      \o (IF hasDefault THEN << Enters(dflt) >> \o Lowers(st.default[1])
                             \o << JumpsUnlessTerminated(done) >>
          ELSE <<>>)
      \o << Adds(<<done>>, scope), Enters(done), Emits(Instr1("nop")), PopsBreak >>

\* A finally block is lowered at the end of the normal path, and once more,
\* ended by a rethrow, only when the try has no catch clause.
LowerTry(st, c) ==
  LET n == Len(st.catches)
      hasFinally == st.finally # <<>>
      scope == ScopeAt(c)
      try == c.next
      dispatch == [i \in 1..n |-> c.next + 2 * i - 1]
      catch == [i \in 1..n |-> c.next + 2 * i]
      rethrow == c.next + 2 * n + 1
      finally == c.next + 2 * n + 2
      finallyRethrow == c.next + 2 * n + 3
      done == c.next + 2 * n + 4
      handler == IF n > 0 THEN dispatch[1]
                 ELSE IF hasFinally THEN finallyRethrow ELSE done
      after == IF hasFinally THEN finally ELSE done
      is(i) == [op |-> "exception_is", type |-> st.catches[i].type]
      tests == [i \in 1..n |-> IF i = 1 THEN <<Instr1("get_exception"), is(i)>>
                               ELSE <<is(i)>>]
      clause(i) == << Enters(catch[i]) >> \o Lowers(st.catches[i].body)
                   \o << Emits(JumpTo(after)) >>
      When(b, s) == IF b THEN s ELSE <<>>
  IN  << TakesLabels(2 * n + 5),
         Adds(<<try>>, Append(scope, handler)),
         Adds(FlattenSeq(Interleave(dispatch, catch))
              \o When(n > 0, <<rethrow>>) \o When(hasFinally, <<finally>>)
              \o When(hasFinally /\ n = 0, <<finallyRethrow>>) \o <<done>>, scope),
         Emits(PushTo(handler)), Emits(JumpTo(try)), Enters(try) >>
      \o Lowers(st.body)
      \o << Emits(Instr1("pop_handler")), Emits(JumpTo(after)) >>
      \o Tests(tests, dispatch, catch, rethrow)
      \o When(n > 0, << Enters(rethrow), Emits(Instr1("rethrow")) >>)
      \o Concat(n, clause)
      \o When(hasFinally, << Enters(finally) >> \o Lowers(st.finally[1])
                          \o << Emits(JumpTo(done)) >>)
      \o When(hasFinally /\ n = 0, << Enters(finallyRethrow) >> \o Lowers(st.finally[1])
                                   \o << Emits(Instr1("rethrow")) >>)
      \o << Enters(done), Emits(Instr1("nop")) >>

\* Mutant of LowerContinue: it takes the target of a break.
ContinueToBreak(c) == << Emits(JumpTo(Last(c.breaks))) >>

LowerBreak(c)    == << Emits(JumpTo(Last(c.breaks))) >>
LowerContinue(c) == << Emits(JumpTo(Last(c.loops))) >>

Calls(st, c) ==
  CASE st.k = "mark"     -> << Emits([op |-> "mark", id |-> st.id]) >>
    [] st.k = "throw"    -> << Emits([op |-> "throw", exn |-> st.exn]) >>
    [] st.k = "fault"    -> << Emits([op |-> "fault", code |-> st.code]) >>
    [] st.k = "call"     -> << Emits([op |-> "call_static", callee |-> st.callee]) >>
    [] st.k = "callback" -> << Emits([op |-> "call_method", callee |-> st.callee]) >>
    [] st.k = "return"   -> << Emits(Instr1("ret")) >>
    [] st.k = "break"    -> LowerBreak(c)
    [] st.k = "continue" -> LowerContinue(c)
    [] st.k = "block"    -> Lowers(st.body)
    [] st.k = "if"       -> LowerIf(st, c)
    [] st.k = "while"    -> LowerWhile(st, c)
    [] st.k = "dowhile"  -> LowerDoWhile(st, c)
    [] st.k = "for"      -> LowerFor(st, c)
    [] st.k = "switch"   -> LowerSwitch(st, c)
    [] st.k = "try"      -> LowerTry(st, c)

RECURSIVE Lower(_, _)
Lower(calls, c) ==
  FoldLeft(LAMBDA d, call : IF call.do = "lower" THEN Lower(Calls(call.st, d), d)
                            ELSE Do(call, d),
           c, calls)

\* A function: its body, and a return when the last block does not end it.
LowerFunction(body) ==
  LET c == Lower(Lowers(body), NewCtx)
  IN  (IF Terminated(c) THEN c ELSE Emit(c, Instr1("ret"))).blocks
=============================================================================
