------------------------------ MODULE IrMachine ------------------------------
(***************************************************************************)
(* The bytecode interpreter of the native runtime: exec_function and       *)
(* ps_vm_run_main of c/runtime/ps_vm.c.  A program is a set of functions,  *)
(* a function a list of labelled blocks of instructions.  The control of   *)
(* the interpreter is kept in full: the block/instruction cursor, the      *)
(* handler stack `tries`, the local `last_exception` of every activation,  *)
(* the context's error slot and last_exception, and the raise/error paths. *)
(* Values are abstracted to what control can tell apart: the truth of the  *)
(* last condition computed and the exception a catch dispatch looks at.    *)
(***************************************************************************)
EXTENDS Integers, Sequences

CONSTANTS
  Programs,    \* names of the programs the machine may be given
  Functions,   \* names of the functions of a program
  Main,        \* the entry point, "main" in the code
  IR(_, _),    \* IR(p, f): the blocks of function f of program p
  Labels,      \* block labels
  Types,       \* exception type names
  Subtypes,    \* pairs <<child, ancestor>> of the prototype table
  Codes,       \* runtime error codes a check or a primitive may report
  Marks,       \* observable effects (calls of Io.print and the like)
  Scripts,     \* the truth values the conditions of a run take, in order
  NoError      \* PS_ERR_NONE, and the code of an exception a program throws

Targeted == {"push_handler", "jump"}
Bare     == {"pop_handler", "get_exception", "rethrow", "ret", "eval", "nop",
             "unknown_expr"}
Calls    == {"call_static", "call_method"}

\* An exception value: its type, whether it descends from RuntimeException,
\* and the code of the error it was made from.
Exceptions == [type : Types, runtime : BOOLEAN, code : Codes \cup {NoError}]
NoExn      == [type |-> "none", runtime |-> FALSE, code |-> NoError]

Instructions ==
       [op : Targeted, target : Labels]
  \cup [op : Bare]
  \cup [op : {"exception_is"}, type : Types]
  \cup [op : {"branch_if"}, then : Labels, else : Labels]
  \cup [op : {"throw"}, exn : Exceptions]
  \cup [op : {"fault"}, code : Codes]
  \cup [op : Calls, callee : Functions]
  \cup [op : {"mark"}, id : Marks]

\* A block.  Its scopes annotate its positions with the lexical scope they
\* lie in; the machine never reads them.
Blocks == [label : Labels, instrs : Seq(Instructions), scopes : Seq(Seq(Labels))]

ASSUME MainAssumption   == Main \in Functions
ASSUME IRAssumption     == \A p \in Programs, f \in Functions : IR(p, f) \in Seq(Blocks)
ASSUME TypesAssumption  == {"Exception", "RuntimeException"} \subseteq Types
ASSUME CodesAssumption  == "internal" \in Codes /\ NoError \notin Codes
ASSUME ScriptAssumption == Scripts \subseteq Seq(BOOLEAN)
ASSUME NoneAssumption   == "none" \notin Types

VARIABLES
  prog,    \* the program being run
  frames,  \* the activations of exec_function, the running one last
  mode,    \* "run", "raise" (past the raise label), "ok" or "failed"
  err,     \* the context's error slot, ps_last_error_code
  ctxExn,  \* ctx->last_exception
  script,  \* the truth values the conditions of this run take
  reads,   \* how many of them the run has used
  out      \* the observable effects so far
vars == <<prog, frames, mode, err, ctxExn, script, reads, out>>

\* An activation of exec_function: its cursor, its locals `tries` and
\* `last_exception`, and the temporaries a branch and a dispatch read.
Frames == [fn : Functions, blk : Nat \ {0}, ip : Nat \ {0},
           tries : Seq(Labels), exn : Exceptions \cup {NoExn},
           cond : BOOLEAN, caught : Exceptions \cup {NoExn}]

NewFrame(f) == [fn |-> f, blk |-> 1, ip |-> 1, tries |-> <<>>, exn |-> NoExn,
                cond |-> FALSE, caught |-> NoExn]

TypeOK ==
  /\ prog \in Programs
  /\ frames \in Seq(Frames)
  /\ mode \in {"run", "raise", "ok", "failed"}
  /\ err \in Codes \cup {NoError}
  /\ ctxExn \in Exceptions \cup {NoExn}
  /\ script \in Scripts
  /\ reads \in 0..Len(script)
  /\ out \in Seq(Marks)
  /\ mode \in {"run", "raise"} => frames # <<>>

-----------------------------------------------------------------------------
Body(f)  == IR(prog, f)
Top      == frames[Len(frames)]
Callers  == SubSeq(frames, 1, Len(frames) - 1)
SetTop(f) == [frames EXCEPT ![Len(frames)] = f]

InFunction(f)  == f.blk \in DOMAIN Body(f.fn)
Instrs(f)      == Body(f.fn)[f.blk].instrs
AtInstr(f)     == InFunction(f) /\ f.ip \in DOMAIN Instrs(f)
Instr(f)       == Instrs(f)[f.ip]

\* find_block: the first block with the label, the entry block when none has.
IsFirst(blocks, l, i) ==
  /\ i \in DOMAIN blocks
  /\ blocks[i].label = l
  /\ \A j \in DOMAIN blocks : j < i => blocks[j].label # l
FindBlock(blocks, l) ==
  IF \E i \in DOMAIN blocks : IsFirst(blocks, l, i)
  THEN CHOOSE i \in DOMAIN blocks : IsFirst(blocks, l, i)
  ELSE 1

Step(f)      == [f EXCEPT !.ip = f.ip + 1]
GoTo(f, l)   == [f EXCEPT !.blk = FindBlock(Body(f.fn), l), !.ip = 1]

RuntimeExn(code) ==
  [type |-> "RuntimeException", runtime |-> TRUE, code |-> code]

\* exception_matches: the two built-in names, then the type and its ancestors.
Matches(e, t) ==
  /\ e # NoExn
  /\ \/ t = "Exception"
     \/ t = "RuntimeException" /\ e.runtime
     \/ t # "RuntimeException" /\ (e.type = t \/ <<e.type, t>> \in Subtypes)

Running(op) == mode = "run" /\ AtInstr(Top) /\ Instr(Top).op = op
Advance(f)  == frames' = SetTop(Step(f)) /\ mode' = "run"

Init ==
  /\ prog \in Programs
  /\ script \in Scripts
  /\ frames = <<NewFrame(Main)>>
  /\ mode = "run"
  /\ err = NoError
  /\ ctxExn = NoExn
  /\ reads = 0
  /\ out = <<>>

-----------------------------------------------------------------------------
\* Instructions that only move the cursor or the activation's own state.

PushHandler ==
  /\ Running("push_handler")
  /\ Advance([Top EXCEPT !.tries = Append(Top.tries, Instr(Top).target)])
  /\ UNCHANGED <<prog, err, ctxExn, script, reads, out>>

Pop(tries) == IF tries = <<>> THEN <<>> ELSE SubSeq(tries, 1, Len(tries) - 1)

PopHandler ==
  /\ Running("pop_handler")
  /\ Advance([Top EXCEPT !.tries = Pop(Top.tries)])
  /\ UNCHANGED <<prog, err, ctxExn, script, reads, out>>

\* Without an exception the instruction makes one from the (empty) error slot.
GetException ==
  /\ Running("get_exception")
  /\ LET e == IF Top.exn = NoExn THEN RuntimeExn(err) ELSE Top.exn
     IN  Advance([Top EXCEPT !.exn = e, !.caught = e])
  /\ UNCHANGED <<prog, err, ctxExn, script, reads, out>>

ExceptionIs ==
  /\ Running("exception_is")
  /\ Advance([Top EXCEPT !.cond = Matches(Top.caught, Instr(Top).type)])
  /\ UNCHANGED <<prog, err, ctxExn, script, reads, out>>

\* A condition of the program: the script says what it evaluates to, and
\* every condition past its end is false.
Eval ==
  /\ Running("eval")
  /\ Advance([Top EXCEPT !.cond = reads < Len(script) /\ script[reads + 1]])
  /\ reads' = IF reads < Len(script) THEN reads + 1 ELSE reads
  /\ UNCHANGED <<prog, err, ctxExn, script, out>>

\* An opcode the interpreter does not know does nothing, and a temporary that
\* nothing set is not truthy.
UnknownExpr ==
  /\ Running("unknown_expr")
  /\ Advance([Top EXCEPT !.cond = FALSE])
  /\ UNCHANGED <<prog, err, ctxExn, script, reads, out>>

Nop ==
  /\ Running("nop")
  /\ Advance(Top)
  /\ UNCHANGED <<prog, err, ctxExn, script, reads, out>>

Mark ==
  /\ Running("mark")
  /\ Advance(Top)
  /\ out' = Append(out, Instr(Top).id)
  /\ UNCHANGED <<prog, err, ctxExn, script, reads>>

Jump ==
  /\ Running("jump")
  /\ frames' = SetTop(GoTo(Top, Instr(Top).target))
  /\ UNCHANGED <<prog, mode, err, ctxExn, script, reads, out>>

BranchIf ==
  /\ Running("branch_if")
  /\ LET l == IF Top.cond THEN Instr(Top).then ELSE Instr(Top).else
     IN  frames' = SetTop(GoTo(Top, l))
  /\ UNCHANGED <<prog, mode, err, ctxExn, script, reads, out>>

\* A block whose last instruction transfers nothing runs into the next block
\* of the list.
FallThrough ==
  /\ mode = "run"
  /\ InFunction(Top) /\ ~AtInstr(Top)
  /\ frames' = SetTop([Top EXCEPT !.blk = Top.blk + 1, !.ip = 1])
  /\ UNCHANGED <<prog, mode, err, ctxExn, script, reads, out>>

-----------------------------------------------------------------------------
\* Calls and returns.

\* Mutant of Call: the caller has moved on when the callee starts.
CallAfterStep ==
  /\ mode = "run" /\ AtInstr(Top) /\ Instr(Top).op \in Calls
  /\ frames' = Append(SetTop(Step(Top)), NewFrame(Instr(Top).callee))
  /\ UNCHANGED <<prog, mode, err, ctxExn, script, reads, out>>

\* call_static, and the natives that call back into the interpreter
\* (list.sort with a compareTo, clone): a new activation is pushed and the
\* caller waits at its call instruction.
Call ==
  /\ mode = "run" /\ AtInstr(Top) /\ Instr(Top).op \in Calls
  /\ frames' = Append(frames, NewFrame(Instr(Top).callee))
  /\ UNCHANGED <<prog, mode, err, ctxExn, script, reads, out>>

\* Mutant of Return: main's own return goes on running.
ReturnToNobody ==
  /\ frames' = IF Callers = <<>> THEN <<>>
               ELSE LET c == Callers[Len(Callers)]
                    IN  [Callers EXCEPT ![Len(Callers)] = Step(c)]
  /\ UNCHANGED <<prog, mode, err, ctxExn, script, reads, out>>

\* The activation ends with no exception; its caller goes on.
Return ==
  /\ frames' = IF Callers = <<>> THEN <<>>
               ELSE LET c == Callers[Len(Callers)]
                    IN  [Callers EXCEPT ![Len(Callers)] = Step(c)]
  /\ mode' = IF Callers = <<>> THEN "ok" ELSE "run"
  /\ UNCHANGED <<prog, err, ctxExn, script, reads, out>>

Ret    == Running("ret") /\ Return
RunOff == mode = "run" /\ ~InFunction(Top) /\ Return

-----------------------------------------------------------------------------
\* Raising.

\* A check or a primitive reports an error in the context and raises.
Fault ==
  /\ Running("fault")
  /\ err' = Instr(Top).code
  /\ mode' = "raise"
  /\ UNCHANGED <<prog, frames, ctxExn, script, reads, out>>

Throw ==
  /\ Running("throw")
  /\ frames' = SetTop([Top EXCEPT !.exn = Instr(Top).exn])
  /\ mode' = "raise"
  /\ UNCHANGED <<prog, err, ctxExn, script, reads, out>>

\* Mutant of Rethrow: it dispatches on the exception again, in the block it
\* is in, instead of raising it.
RethrowHere ==
  /\ Running("rethrow")
  /\ frames' = SetTop([Top EXCEPT !.ip = 1])
  /\ UNCHANGED <<prog, mode, err, ctxExn, script, reads, out>>

Rethrow ==
  /\ Running("rethrow")
  /\ err' = IF Top.exn = NoExn THEN "internal" ELSE err
  /\ mode' = "raise"
  /\ UNCHANGED <<prog, frames, ctxExn, script, reads, out>>

\* What is raised at the raise label: the context's error, else the
\* activation's exception, else an internal error.
Raised == IF err # NoError THEN RuntimeExn(err)
          ELSE IF Top.exn = NoExn THEN RuntimeExn("internal")
          ELSE Top.exn

\* Mutants of EnterHandler: the handler stays on the stack; the outermost one
\* is entered; the error stays in the context.
EnterHandlerKeepsIt ==
  /\ mode = "raise" /\ Top.tries # <<>>
  /\ frames' = SetTop(GoTo([Top EXCEPT !.exn = Raised], Top.tries[Len(Top.tries)]))
  /\ err' = NoError
  /\ mode' = "run"
  /\ UNCHANGED <<prog, ctxExn, script, reads, out>>
EnterOutermostHandler ==
  /\ mode = "raise" /\ Top.tries # <<>>
  /\ frames' = SetTop(GoTo([Top EXCEPT !.exn = Raised, !.tries = Pop(Top.tries)],
                           Top.tries[1]))
  /\ err' = NoError
  /\ mode' = "run"
  /\ UNCHANGED <<prog, ctxExn, script, reads, out>>
EnterHandlerKeepsError ==
  /\ mode = "raise" /\ Top.tries # <<>>
  /\ LET h == Top.tries[Len(Top.tries)]
     IN  frames' = SetTop(GoTo([Top EXCEPT !.exn = Raised,
                                           !.tries = Pop(Top.tries)], h))
  /\ mode' = "run"
  /\ UNCHANGED <<prog, err, ctxExn, script, reads, out>>

\* The innermost handler is popped and entered.
EnterHandler ==
  /\ mode = "raise" /\ Top.tries # <<>>
  /\ LET h == Top.tries[Len(Top.tries)]
     IN  frames' = SetTop(GoTo([Top EXCEPT !.exn = Raised,
                                           !.tries = Pop(Top.tries)], h))
  /\ err' = NoError
  /\ mode' = "run"
  /\ UNCHANGED <<prog, ctxExn, script, reads, out>>

\* Mutant of Fails: the handlers are not looked at.
FailsAtOnce == mode = "raise"

\* No handler: the activation fails and leaves its exception in the context.
Fails == mode = "raise" /\ Top.tries = <<>>

\* Mutant of PropagateToCall: the caller raises without the exception.
PropagateNothing ==
  /\ Fails /\ Callers # <<>>
  /\ Instr(Callers[Len(Callers)]).op = "call_static"
  /\ frames' = Callers
  /\ err' = NoError
  /\ ctxExn' = NoExn
  /\ UNCHANGED <<prog, mode, script, reads, out>>

\* The caller is a call_static: it takes the exception out of the context and
\* raises it.
PropagateToCall ==
  /\ Fails /\ Callers # <<>>
  /\ LET c == Callers[Len(Callers)]
     IN  /\ Instr(c).op = "call_static"
         /\ frames' = [Callers EXCEPT ![Len(Callers)] = [c EXCEPT !.exn = Raised]]
  /\ err' = NoError
  /\ ctxExn' = NoExn
  /\ UNCHANGED <<prog, mode, script, reads, out>>

\* The caller is a native that called back: it raises without looking at the
\* exception the context holds.
PropagateToCallback ==
  /\ Fails /\ Callers # <<>>
  /\ Instr(Callers[Len(Callers)]).op = "call_method"
  /\ frames' = Callers
  /\ err' = NoError
  /\ ctxExn' = Raised
  /\ UNCHANGED <<prog, mode, script, reads, out>>

\* The failing activation is main's: the run ends with the exception.
LeaveMain ==
  /\ Fails /\ Callers = <<>>
  /\ frames' = <<>>
  /\ mode' = "failed"
  /\ err' = NoError
  /\ ctxExn' = Raised
  /\ UNCHANGED <<prog, script, reads, out>>

Next ==
  \/ PushHandler \/ PopHandler \/ GetException \/ ExceptionIs \/ Eval
  \/ UnknownExpr \/ Nop \/ Mark \/ Jump \/ BranchIf \/ FallThrough
  \/ Call \/ Ret \/ RunOff
  \/ Fault \/ Throw \/ Rethrow \/ EnterHandler
  \/ PropagateToCall \/ PropagateToCallback \/ LeaveMain

Spec     == Init /\ [][Next]_vars
FairSpec == Spec /\ WF_vars(Next)

-----------------------------------------------------------------------------
\* While the program runs, the error slot is clear: an error is always turned
\* into the exception that is delivered and never survives into code that
\* would take it for an error of its own (ps_clear_error on both ways out of
\* the raise label).
ErrorSlotClear == mode \in {"run", "ok", "failed"} => err = NoError
=============================================================================
