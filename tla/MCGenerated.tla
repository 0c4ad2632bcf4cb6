------------------------------ MODULE MCGenerated ------------------------------
(***************************************************************************)
(* Every sample program, first in the reference interpreter, then lowered   *)
(* and generated as C; the samples for the optimizer go through it too.     *)
(***************************************************************************)
EXTENDS JsPrograms, CScopes

\* What the reference interpreter has; the rest are those of the compiled program.
VARIABLES todo, vals, scopes, lists, views, objs, out, comp

refVars == <<todo, vals, scopes, lists, views, objs, out, comp>>
genVars == <<frames, nextId, handlers, mem, objects, last, printed, mode>>
MCvars  == <<vars, refVars>>

Low == INSTANCE JsLowering WITH ReturnType <- Returns
Gen == INSTANCE CBackend
Opt == INSTANCE Optimizer
Validator == INSTANCE IrValidator

\* Each made once.  Functions are lowered and generated one by one: those
\* that all programs share, once for all.
With(mains, fns) ==
  SelectSeq([i \in DOMAIN mains |-> ("main" :> mains[i]) @@ fns], LAMBDA p : TRUE)
Samples == AllSamples \o OptSamples
MCPrograms == LET ss == Samples IN With([i \in DOMAIN ss |-> ss[i].main], Common)
MCRegular  == LET ss == Samples IN SelectSeq([i \in DOMAIN ss |-> ss[i].regular], LAMBDA r : TRUE)
FnReturns(fns) == ("main" :> "void") @@ [f \in DOMAIN fns |-> fns[f].ret]
\* Functions as C, and each of the bodies as the main function with them.
Generate(fns, mains) ==
  LET fnRet == FnReturns(fns)
  IN  With(SelectSeq([i \in DOMAIN mains |-> Gen!EmitFunctionBody(mains[i], fnRet)], LAMBDA c : TRUE),
           Gen!GenerateC(fns))
Lowered(ss) == SelectSeq([i \in DOMAIN ss |-> Low!LowerFunction("main", ss[i].main)], LAMBDA c : TRUE)
LoweredFns   == Low!LowerModule(Common)
LoweredMains == Lowered(AllSamples)
LoweredOpts  == Lowered(OptSamples)
Optimized(fns) == FoldSet(LAMBDA f, os : (f :> Opt!OptimizeIR(fns[f], fns)) @@ os, <<>>, DOMAIN fns)
OptimizedIn(mains, fns) ==
  SelectSeq([i \in DOMAIN mains |-> Opt!OptimizeIR(mains[i], fns)], LAMBDA c : TRUE)
OptimizedFns   == Optimized(LoweredFns)
OptimizedMains == OptimizedIn(LoweredOpts, LoweredFns)
PlainCode      == Generate(LoweredFns, LoweredMains)
OptimizedCode  == Generate(OptimizedFns, OptimizedMains)
CodeOf == PlainCode \o OptimizedCode
MCCompiled == 1..(Len(AllSamples) + Len(OptSamples))
MCCode(p) == LET code == CodeOf IN code[p]
\* Whether the validator accepts each main function and all that goes with it.
Accepts(mains, fns) ==
  LET rest == \A f \in DOMAIN fns : Validator!IsValid(fns[f])
  IN  SelectSeq([i \in DOMAIN mains |-> IF rest THEN Validator!IsValid(mains[i]) ELSE FALSE],
                LAMBDA a : a \in BOOLEAN)
MCAccepted == Accepts(LoweredMains, LoweredFns) \o Accepts(OptimizedMains, OptimizedFns)

\* The handlers at the instructions of a block that is entered with s, up to
\* its end or to a return or throw before it.
RECURSIVE Walk(_, _)
Walk(is, s) ==
  <<s>> \o (IF is = <<>> \/ Len(is) = 1 \/ Head(is).op \in {"ret", "ret_void", "default_return", "throw", "rethrow"} THEN <<>>
            ELSE Walk(Tail(is), CASE Head(is).op = "push_handler" -> <<Head(is).target>> \o s
                                  [] Head(is).op = "pop_handler" /\ s # <<>> -> Tail(s)
                                  [] OTHER -> s))
\* Where control goes from there: to the targets of the last jump, and to the
\* handlers pushed.
Leads(fn, b, s) ==
  LET is == fn.blocks[b].instrs
      w  == Walk(is, s)
      i  == is[Len(w)]
  IN  {<<BlockOf(fn, l), w[Len(w)]>> : l \in Validator!Targets(i)}
      \cup {<<BlockOf(fn, is[j].target), w[j]>> : j \in {k \in DOMAIN w : is[k].op = "push_handler"}}
\* All blocks that can be entered, with the handlers they are entered with;
\* a function that leaves more than MaxDepth is not followed.
MaxDepth == 4
RECURSIVE Spread(_, _, _)
Spread(fn, seen, fresh) ==
  IF fresh = {} THEN seen
  ELSE LET reached == UNION {Leads(fn, e[1], e[2]) : e \in fresh}
       IN  Spread(fn, seen \cup fresh, {e \in reached \ (seen \cup fresh) : Len(e[2]) <= MaxDepth})
ScopesOf(fn) ==
  LET entered == Spread(fn, {}, {<<1, <<>>>>})
      walks(b) == {Walk(fn.blocks[b].instrs, e[2]) : e \in {x \in entered : x[1] = b}}
  IN  SelectSeq([b \in DOMAIN fn.blocks |->
                  LET ws == walks(b)
                  IN  [j \in DOMAIN fn.blocks[b].instrs |-> {w[j] : w \in {x \in ws : j \in DOMAIN x}}]],
                LAMBDA x : TRUE)
\* The functions a program calls, other than those that return with handlers
\* left: what calls one of these is not scoped.
Called(fn) ==
  {i.callee : i \in {x \in UNION {Range(fn.blocks[b].instrs) : b \in DOMAIN fn.blocks} : x.op = "call_static"}}
RECURSIVE CalledFrom(_, _, _)
CalledFrom(calls, seen, fresh) ==
  IF fresh = {} THEN seen
  ELSE CalledFrom(calls, seen \cup fresh, UNION {calls[f] : f \in fresh} \ (seen \cup fresh))
ReturnsHandlers(fn, at) ==
  \E b \in DOMAIN fn.blocks : \E j \in DOMAIN fn.blocks[b].instrs :
     fn.blocks[b].instrs[j].op \in {"ret", "ret_void", "default_return"} /\ ~(at[b][j] \subseteq {<<>>})
FnScopes(fns) ==
  FoldSet(LAMBDA f, os : LET at == ScopesOf(fns[f]) IN IF ReturnsHandlers(fns[f], at) THEN os ELSE (f :> at) @@ os,
          <<>>, DOMAIN fns \ {"main"})
FnCalls(fns) == [f \in DOMAIN fns \ {"main"} |-> Called(fns[f])]
PlainScopes     == FnScopes(PlainCode[1])
OptimizedScopes == FnScopes(OptimizedCode[1])
PlainCalls      == FnCalls(PlainCode[1])
OptimizedCalls  == FnCalls(OptimizedCode[1])
\* Of each program, those of its main function and of the functions called.
ScopesWith(code, at, calls) ==
  LET fns(main) == CalledFrom(calls, {}, Called(main)) \cap DOMAIN at
  IN  SelectSeq([p \in DOMAIN code |->
                   ("main" :> ScopesOf(code[p]["main"])) @@ [f \in fns(code[p]["main"]) |-> at[f]]],
                LAMBDA c : TRUE)
ScopesAt == ScopesWith(PlainCode, PlainScopes, PlainCalls) \o ScopesWith(OptimizedCode, OptimizedScopes, OptimizedCalls)
MCScopes(p) == LET at == ScopesAt IN at[p]

R == INSTANCE JsReference WITH Programs <- MCPrograms

MCScoped == SelectSeq([p \in Compiled |-> ProgramScoped(p)], LAMBDA a : a \in BOOLEAN)

MCInit == R!Init /\ Init
MCNext == \/ ~R!Finished /\ R!Next /\ UNCHANGED genVars
          \/ R!Finished /\ Next /\ UNCHANGED refVars
MCSpec == MCInit /\ [][MCNext]_MCvars /\ WF_MCvars(MCNext)

\* The C prints what the reference prints and ends as it ends: normally, or
\* with the same exception.  This holds where lowering, optimizer, inference,
\* aliases and helpers together (JsLowering, Optimizer, CBackend, GeneratedC)
\* keep the meaning that the interpreter (JsReference) gives a program.
OutcomeMatchesReference ==
  (mode # "run" /\ MCRegular[prog]) =>
     /\ mode = (IF comp.kind = "throw" THEN "failed" ELSE "ok")
     /\ printed = out
     /\ comp.kind = "throw" =>
          /\ objects[last].proto = objs[comp.v.n].proto
          /\ objects[last].code = objs[comp.v.n].code

\* The code emitted for a program answers for its handlers without being run:
\* followed along every way through its blocks, also those no input takes, a
\* function returns with no handler pushed, takes off none but its own, and the
\* block of each handler is one that can be entered with those around it.
EmittedCodeIsScoped == MCRegular[prog] => MCScoped[prog]

\* What JsReference_proofs takes for granted is so: the operands of the
\* reference are what analyzer and program promise it, step by step.
OperandsFit == MCRegular[prog] => R!OperandsFit

\* A view of the reference whose version is its list's lies within the list,
\* so that the version test and the index test of a view are enough.
ValidViewsFit == MCRegular[prog] => R!ValidViewsFit

\* What passes the tests of indexGet and assignIndex is an element of the
\* array: no read through a view finds undefined, and no write makes the
\* array longer.
IndexedIsThere == MCRegular[prog] => R!IndexedIsThere

\* What runs is what the validator accepts: every block that lowering adds gets
\* an instruction, every jump has its block and no two blocks share a label,
\* and the optimizer leaves it so.
EmittedIrIsValid == MCAccepted[prog]

\* The samples all end, in the reference and as C: lowering and optimizer make
\* no loop of a program that ends, and no handler is entered for ever.
Termination == <>(mode # "run")
=============================================================================
