-------------------------------- MODULE CScopes --------------------------------
(***************************************************************************)
(* What the functions written by src/c_backend.js must promise the jump     *)
(* buffers.  ps_try_stack is one stack for all activations: nothing in it    *)
(* says where the handlers of one activation end and those of its caller    *)
(* begin, a return takes none off, and pop_handler takes whichever is last.  *)
(* Scopes says which handlers, innermost first, an activation may have of    *)
(* its own at a position; FunctionScoped, when push, pop, jumps and returns  *)
(* of a function agree with that.                                          *)
(***************************************************************************)
EXTENDS GeneratedC

CONSTANT Scopes(_)  \* of each program: by function, block and instruction, a set of sequences of labels

\* Control comes to instruction j of block b with the handlers s.
Reaches(fn, at, b, j, s) ==
  b \in DOMAIN fn.blocks /\ j \in DOMAIN fn.blocks[b].instrs /\ s \in at[b][j]
Enters(fn, at, l, s) == Reaches(fn, at, BlockOf(fn, l), 1, s)

Ends == {"jump", "branch_if", "branch_iter_has_next", "ret", "ret_void", "default_return",
         "throw", "rethrow"}

\* What instruction j of block b makes of the handlers s.  A function returns
\* with none of its own, takes off only its own, and whatever it raises finds
\* the block of its innermost handler with that handler taken off.
InstrScoped(fns, fn, at, b, j, s) ==
  LET i == fn.blocks[b].instrs[j]
      next(t) == Reaches(fn, at, b, j + 1, t)
  IN  /\ i.op = "jump" => Enters(fn, at, i.target, s)
      /\ i.op \in {"branch_if", "branch_iter_has_next"}
           => Enters(fn, at, i.then, s) /\ Enters(fn, at, i.else, s)
      /\ i.op \in {"ret", "ret_void", "default_return"} => s = <<>>
      /\ i.op = "push_handler" => next(<<i.target>> \o s)
      /\ i.op = "pop_handler"  => s # <<>> /\ next(Tail(s))
      /\ i.op = "call_static"  => i.callee \in fns
      /\ i.op \notin Ends \cup {"push_handler", "pop_handler"} => next(s)
      /\ s # <<>> => Enters(fn, at, Head(s), Tail(s))

FunctionScoped(fns, fn, at) ==
  /\ Reaches(fn, at, 1, 1, <<>>)
  /\ \A b \in DOMAIN fn.blocks : \A j \in DOMAIN fn.blocks[b].instrs :
       \A s \in at[b][j] : InstrScoped(fns, fn, at, b, j, s)

\* The functions Scopes lists call only each other.
ProgramScoped(p) ==
  LET fns == DOMAIN Scopes(p)
  IN  /\ "main" \in fns
      /\ \A f \in fns : FunctionScoped(fns, Code(p)[f], Scopes(p)[f])

-----------------------------------------------------------------------------
\* Each handler has an activation, inner ones inner activations.
BuffersAreLive ==
  /\ \E f \in [DOMAIN handlers -> DOMAIN frames] :
       /\ \A h \in DOMAIN handlers : frames[f[h]].id = handlers[h].id
       /\ \A g, h \in DOMAIN handlers : g < h => f[g] <= f[h]
  /\ mode = "ok" => handlers = <<>>

\* While scoped code runs, every jump buffer on ps_try_stack belongs to an
\* activation that has not returned, inner ones to inner activations, and none
\* is left at the end: a longjmp always has somewhere to go.
HandlersAreLive == BuffersAreLive \/ ~ProgramScoped(prog)

\* The inductive invariant: ps_try_stack falls into one part for each
\* activation, part j being handlers[cut[j-1]+1 .. cut[j]], and the labels of
\* the part are handlers the activation may have at its position.  own[k] is
\* the activation of handler k.
Divides(n, m, cut, own) ==
  /\ cut \in [0..n -> 0..m] /\ cut[0] = 0 /\ cut[n] = m
  /\ \A i, j \in 0..n : i <= j => cut[i] <= cut[j]
  /\ own \in [1..m -> 1..n]
  /\ \A k \in 1..m : cut[own[k] - 1] < k /\ k <= cut[own[k]]
Labels(hs, lo, hi) == [k \in 1..(hi - lo) |-> hs[lo + k].label]
Placed(p, f, s) ==
  f.fn \in DOMAIN Scopes(p) /\ Reaches(Code(p)[f.fn], Scopes(p)[f.fn], f.block, f.pc, s)
Shared(p, fs, hs, cut, own) ==
  /\ Divides(Len(fs), Len(hs), cut, own)
  /\ \A k \in 1..Len(hs) : fs[own[k]].id = hs[k].id
  /\ \A j \in 1..Len(fs) : Placed(p, fs[j], Labels(hs, cut[j - 1], cut[j]))
Partitioned(p, fs, hs) ==
  \E cut \in [0..Len(fs) -> 0..Len(hs)], own \in [1..Len(hs) -> 1..Len(fs)] :
    Shared(p, fs, hs, cut, own)

\* Activations are numbered as they are made, the inner after the outer.
IsFrame(f) == DOMAIN f = {"fn", "id", "block", "pc", "env", "dst"}
Numbered(fs, next) ==
  /\ next \in Nat
  /\ \A j \in 1..Len(fs) : IsFrame(fs[j]) /\ fs[j].id \in Nat /\ fs[j].id < next
  /\ \A i, j \in 1..Len(fs) : i < j => fs[i].id > fs[j].id
IInv ==
  /\ Len(frames) \in Nat \ {0}
  /\ Numbered(frames, nextId)
  /\ Partitioned(prog, frames, handlers)
  /\ mode = "ok" => handlers = <<>>
=============================================================================
