------------------------------- MODULE IrScopes -------------------------------
(***************************************************************************)
(* What the lowering of try statements promises the interpreter.  Every    *)
(* position of a function lies in a fixed nesting of try bodies, its       *)
(* lexical scope: the handlers of those bodies, outermost first.  The      *)
(* interpreter knows nothing of scopes; it pushes and pops handlers as it  *)
(* meets the instructions.  FunctionScoped says when the instructions keep *)
(* push, pop and jump consistent with a scoping; the properties say what   *)
(* exception delivery may then rely on.                                    *)
(***************************************************************************)
EXTENDS IrMachine

\* The handlers active before instruction i of block b; i = Len(instrs) + 1 is
\* the end of the block.
ScopeAt(p, f, b, i) == IR(p, f)[b].scopes[i]

FindIn(p, f, l) == FindBlock(IR(p, f), l)

\* The scope a block starts in.
EntryScope(p, f, b) == ScopeAt(p, f, b, 1)

JumpKeepsScope(p, f, s, l) ==
  FindIn(p, f, l) \in DOMAIN IR(p, f) => EntryScope(p, f, FindIn(p, f, l)) = s

\* What instruction i of a block makes of the scope, by its kind.
InstrScoped(p, f, b, i) ==
  LET instr == IR(p, f)[b].instrs[i]
      s     == ScopeAt(p, f, b, i)
      after == ScopeAt(p, f, b, i + 1)
  IN  /\ instr.op = "push_handler" => after = Append(s, instr.target)
      /\ instr.op = "pop_handler"  => after = Pop(s)
      /\ instr.op = "jump" => JumpKeepsScope(p, f, s, instr.target)
      /\ instr.op = "branch_if" => /\ JumpKeepsScope(p, f, s, instr.then)
                                   /\ JumpKeepsScope(p, f, s, instr.else)
      /\ instr.op \in {"get_exception", "exception_is", "eval",
                       "unknown_expr", "nop", "mark"} \cup Calls
           => after = s
      \* whatever raises here finds its handler's block one level further out
      /\ s # <<>> => JumpKeepsScope(p, f, Pop(s), s[Len(s)])

\* An end of block that control may run past.
Falls(p, f, b) ==
  LET is == IR(p, f)[b].instrs
  IN  is = <<>> \/ is[Len(is)].op \notin {"ret", "throw", "fault", "rethrow",
                                          "jump", "branch_if"}

BlockScoped(p, f, b) ==
  LET n == Len(IR(p, f)[b].instrs)
  IN  /\ Len(IR(p, f)[b].scopes) = n + 1
      /\ \A i \in 1..n : InstrScoped(p, f, b, i)
      /\ Falls(p, f, b) /\ b + 1 \in DOMAIN IR(p, f)
           => EntryScope(p, f, b + 1) = ScopeAt(p, f, b, n + 1)

FunctionScoped(p, f) ==
  /\ IR(p, f) # <<>> => EntryScope(p, f, 1) = <<>>
  /\ \A b \in DOMAIN IR(p, f) : BlockScoped(p, f, b)

ASSUME WellScopedAssumption ==
  \A p \in Programs, f \in Functions : FunctionScoped(p, f)

\* The scope of the position an activation is at.
ScopeOf(f) == ScopeAt(prog, f.fn, f.blk, f.ip)

-----------------------------------------------------------------------------
\* Every activation's handler stack, the suspended ones included, is the
\* scope of the position it is at: nothing is left over from a try that
\* control has left, and nothing is missing (ps_vm.c, tries/try_len).
HandlerStackIsLexical ==
  \A k \in DOMAIN frames : InFunction(frames[k]) =>
    /\ frames[k].ip \in 1..(Len(Instrs(frames[k])) + 1)
    /\ frames[k].tries = ScopeOf(frames[k])

\* A suspended activation waits at a call instruction: the raise and the
\* return paths of its callee find the instruction they resume.
SuspendedAtCall ==
  \A k \in 1..(Len(frames) - 1) :
    AtInstr(frames[k]) /\ Instr(frames[k]).op \in Calls

\* An exception that is raised is delivered to the innermost try around the
\* instruction that raised it, and that try is left: entering a handler takes
\* the activation to the block of the innermost handler in scope and leaves it
\* in the scope around it.
DeliveredToInnermostTry ==
  [][ (mode = "raise" /\ mode' = "run") =>
        /\ ScopeOf(Top) # <<>>
        /\ Len(frames') = Len(frames)
        /\ LET s == ScopeOf(Top)
               t == frames'[Len(frames)]
           IN  t.blk = FindIn(prog, Top.fn, s[Len(s)]) /\ t.tries = Pop(s) ]_vars

\* An exception leaves an activation only from a position no try of that
\* activation covers.
LeavesOnlyUncovered ==
  [][ (mode = "raise" /\ Len(frames') < Len(frames)) =>
        (InFunction(Top) => ScopeOf(Top) = <<>>) ]_vars

\* The inductive invariant: with the scoping, that a suspended activation can
\* be resumed, that what raises is an instruction, and that control reaches
\* the end of a block only where it may run on into the next one.
RaisedAtInstr == mode = "raise" => AtInstr(Top)
EndsFalling ==
  \A k \in DOMAIN frames :
    (InFunction(frames[k]) /\ ~AtInstr(frames[k])) =>
      Falls(prog, frames[k].fn, frames[k].blk)
IInv == TypeOK /\ HandlerStackIsLexical /\ SuspendedAtCall /\ RaisedAtInstr /\ EndsFalling

\* In a program whose natives never call back, whatever is raised has a cause:
\* the context's error or the activation's exception, never the internal
\* "missing exception".
NoCallbacks == \A f \in Functions : \A b \in DOMAIN Body(f) :
  \A i \in DOMAIN Body(f)[b].instrs : Body(f)[b].instrs[i].op # "call_method"
RaiseHasCause ==
  (mode = "raise" /\ NoCallbacks) => (err # NoError \/ Top.exn # NoExn)
=============================================================================
