---------------------------- MODULE IrScopes_proofs ----------------------------
(***************************************************************************)
(* Proofs that scoped code makes the interpreter's handler stack lexical.   *)
(* The argument: an activation placed at a position of scoped code has that *)
(* position's scope as its handler stack (Placed); each kind of step takes  *)
(* a placed activation to a placed one (the Placed lemmas, which are about  *)
(* code and positions only); hence IInv is inductive.                       *)
(***************************************************************************)
EXTENDS IrScopes, IrMachine_proofs

\* Activation g of program p is at a position of its code with that position's
\* scope on its handler stack, or past the last block.
Placed(p, g) ==
  g.blk \in DOMAIN IR(p, g.fn) =>
    LET n == Len(IR(p, g.fn)[g.blk].instrs)
    IN  /\ g.ip \in 1..(n + 1)
        /\ g.tries = ScopeAt(p, g.fn, g.blk, g.ip)
        /\ g.ip = n + 1 => Falls(p, g.fn, g.blk)

\* Instruction i of block b of function f.
IsInstr(p, f, b, i) == b \in DOMAIN IR(p, f) /\ i \in 1..Len(IR(p, f)[b].instrs)
InstrOf(p, f, b, i) == IR(p, f)[b].instrs[i]

\* What the assumption on the code says of a function: its scopes, its blocks and
\* its labels have their types.
LEMMA CodeType ==
  ASSUME NEW p \in Programs, NEW f \in Functions
  PROVE  /\ IR(p, f) \in Seq(Blocks)
         /\ DOMAIN IR(p, f) = 1..Len(IR(p, f))
         /\ Len(IR(p, f)) \in Nat
         /\ \A b \in DOMAIN IR(p, f) :
              /\ IR(p, f)[b] \in Blocks
              /\ Len(IR(p, f)[b].instrs) \in Nat
              /\ DOMAIN IR(p, f)[b].instrs = 1..Len(IR(p, f)[b].instrs)
<1>1. IR(p, f) \in Seq(Blocks)
  BY IRAssumption
<1>2. DOMAIN IR(p, f) = 1..Len(IR(p, f)) /\ Len(IR(p, f)) \in Nat
  BY <1>1, LenProperties
<1>3. ASSUME NEW b \in DOMAIN IR(p, f)
      PROVE  IR(p, f)[b] \in Blocks /\ IR(p, f)[b].instrs \in Seq(Instructions)
  <2>1. IR(p, f)[b] \in Blocks
    BY <1>1, <1>2, <1>3, ElementOfSeq
  <2> QED
    BY <2>1 DEF Blocks
<1> QED
  BY <1>1, <1>2, <1>3, LenProperties

\* What the scoping of the code says of one of its instructions.
LEMMA ScopedInstr ==
  ASSUME NEW p \in Programs, NEW f \in Functions, NEW b, NEW i, IsInstr(p, f, b, i)
  PROVE  BlockScoped(p, f, b) /\ InstrScoped(p, f, b, i)
<1>1. FunctionScoped(p, f)
  BY WellScopedAssumption
<1>2. BlockScoped(p, f, b)
  BY <1>1 DEF FunctionScoped, IsInstr
<1> QED
  BY <1>2 DEF BlockScoped, IsInstr

\* An activation that has moved past an instruction that transfers nothing.
LEMMA StepPlaced ==
  ASSUME NEW p \in Programs, NEW g, NEW h, g.fn \in Functions,
         IsInstr(p, g.fn, g.blk, g.ip), g.blk \in Nat, g.ip \in Nat,
         InstrOf(p, g.fn, g.blk, g.ip).op \notin
           {"ret", "throw", "fault", "rethrow", "jump", "branch_if"},
         h.fn = g.fn, h.blk = g.blk, h.ip = g.ip + 1,
         h.tries = ScopeAt(p, g.fn, g.blk, g.ip + 1)
  PROVE  Placed(p, h)
<1> DEFINE n == Len(IR(p, g.fn)[g.blk].instrs)
<1>1. n \in Nat /\ g.ip \in 1..n
  BY CodeType DEF IsInstr
<1>2. h.ip \in 1..(n + 1)
  BY <1>1
<1>3. ASSUME h.ip = n + 1 PROVE Falls(p, g.fn, g.blk)
  <2>1. g.ip = n
    BY <1>1, <1>3
  <2> QED
    BY <2>1 DEF Falls, InstrOf
<1> QED
  BY <1>2, <1>3 DEF Placed

\* An activation that has jumped to a label whose block starts in its scope.
LEMMA GoToPlaced ==
  ASSUME NEW p \in Programs, NEW h, NEW l, h.fn \in Functions,
         h.blk = FindIn(p, h.fn, l), h.ip = 1, JumpKeepsScope(p, h.fn, h.tries, l)
  PROVE  Placed(p, h)
<1> SUFFICES ASSUME h.blk \in DOMAIN IR(p, h.fn) PROVE Placed(p, h)
  BY DEF Placed
<1> DEFINE n == Len(IR(p, h.fn)[h.blk].instrs)
<1>1. n \in Nat /\ IR(p, h.fn)[h.blk].instrs \in Seq(Instructions)
  BY CodeType DEF Blocks
<1>2. h.tries = ScopeAt(p, h.fn, h.blk, 1)
  BY DEF JumpKeepsScope, EntryScope
<1>3. n = 0 => Falls(p, h.fn, h.blk)
  BY <1>1, EmptySeq DEF Falls
<1> QED
  BY <1>1, <1>2, <1>3 DEF Placed

\* An activation that has just been made.
LEMMA NewPlaced ==
  ASSUME NEW p \in Programs, NEW f \in Functions
  PROVE  Placed(p, NewFrame(f))
<1> SUFFICES ASSUME 1 \in DOMAIN IR(p, f) PROVE Placed(p, NewFrame(f))
  BY DEF Placed, NewFrame
<1> DEFINE n == Len(IR(p, f)[1].instrs)
<1>1. n \in Nat /\ IR(p, f)[1].instrs \in Seq(Instructions)
  BY CodeType DEF Blocks
<1>2. ScopeAt(p, f, 1, 1) = <<>>
  BY WellScopedAssumption, CodeType, EmptySeq DEF FunctionScoped, EntryScope
<1>3. n = 0 => Falls(p, f, 1)
  BY <1>1, EmptySeq DEF Falls
<1> QED
  BY <1>1, <1>2, <1>3 DEF Placed, NewFrame

\* An activation that has run past the end of a block into the next one.
LEMMA FallPlaced ==
  ASSUME NEW p \in Programs, NEW g, NEW h, g.fn \in Functions, Placed(p, g),
         g.blk \in DOMAIN IR(p, g.fn), g.ip \in Nat \ {0},
         ~IsInstr(p, g.fn, g.blk, g.ip),
         h.fn = g.fn, h.blk = g.blk + 1, h.ip = 1, h.tries = g.tries
  PROVE  Placed(p, h)
<1> SUFFICES ASSUME h.blk \in DOMAIN IR(p, g.fn) PROVE Placed(p, h)
  BY DEF Placed
<1> DEFINE n == Len(IR(p, g.fn)[g.blk].instrs)
           m == Len(IR(p, g.fn)[h.blk].instrs)
<1>1. n \in Nat /\ m \in Nat /\ IR(p, g.fn)[h.blk].instrs \in Seq(Instructions)
  BY CodeType DEF Blocks
<1>2. g.ip = n + 1 /\ Falls(p, g.fn, g.blk) /\ g.tries = ScopeAt(p, g.fn, g.blk, n + 1)
  BY <1>1 DEF Placed, IsInstr
<1>3. BlockScoped(p, g.fn, g.blk)
  BY WellScopedAssumption DEF FunctionScoped
<1>4. h.tries = ScopeAt(p, g.fn, h.blk, 1)
  BY <1>2, <1>3 DEF BlockScoped, EntryScope
<1>5. m = 0 => Falls(p, g.fn, h.blk)
  BY <1>1, EmptySeq DEF Falls
<1> QED
  BY <1>1, <1>4, <1>5 DEF Placed

-----------------------------------------------------------------------------
\* The inductive invariant again, with its two parts about positions in one.
PInv == /\ TypeOK
        /\ \A k \in DOMAIN frames : Placed(prog, frames[k])
        /\ SuspendedAtCall
        /\ RaisedAtInstr

\* The instruction the running activation stands at, as the code gives it.
LEMMA AtInstrIs ==
  ASSUME prog \in Programs, NEW g \in Frames
  PROVE  /\ AtInstr(g) <=> IsInstr(prog, g.fn, g.blk, g.ip)
         /\ AtInstr(g) => Instr(g) = InstrOf(prog, g.fn, g.blk, g.ip)
         /\ InFunction(g) <=> g.blk \in DOMAIN IR(prog, g.fn)
         /\ g.fn \in Functions /\ g.blk \in Nat \ {0} /\ g.ip \in Nat \ {0}
<1>1. g.fn \in Functions /\ g.blk \in Nat \ {0} /\ g.ip \in Nat \ {0}
  BY DEF Frames
<1>2. ASSUME g.blk \in DOMAIN IR(prog, g.fn)
      PROVE  DOMAIN IR(prog, g.fn)[g.blk].instrs = 1..Len(IR(prog, g.fn)[g.blk].instrs)
  BY <1>1, <1>2, CodeType
<1> QED
  BY <1>1, <1>2 DEF AtInstr, InFunction, Instrs, Body, Instr, IsInstr, InstrOf

\* The form of the invariant the proof works with is the invariant that is
\* model-checked.
LEMMA PInvIsIInv == PInv <=> IInv
<1> SUFFICES ASSUME TypeOK
             PROVE  (\A k \in DOMAIN frames : Placed(prog, frames[k]))
                      <=> HandlerStackIsLexical /\ EndsFalling
  BY DEF PInv, IInv
<1> SUFFICES ASSUME NEW k \in DOMAIN frames
             PROVE  Placed(prog, frames[k]) <=>
                      /\ InFunction(frames[k]) =>
                           /\ frames[k].ip \in 1..(Len(Instrs(frames[k])) + 1)
                           /\ frames[k].tries = ScopeOf(frames[k])
                      /\ (InFunction(frames[k]) /\ ~AtInstr(frames[k])) =>
                           Falls(prog, frames[k].fn, frames[k].blk)
  BY DEF HandlerStackIsLexical, EndsFalling
<1> DEFINE g == frames[k]
<1>1. prog \in Programs /\ g \in Frames
  BY LenProperties, ElementOfSeq DEF TypeOK
<1>2. CASE ~InFunction(g)
  BY <1>1, <1>2, AtInstrIs DEF Placed
<1>3. CASE InFunction(g)
  <2> DEFINE n == Len(IR(prog, g.fn)[g.blk].instrs)
  <2>1. /\ n \in Nat /\ g.ip \in Nat \ {0}
        /\ Len(Instrs(g)) = n
        /\ AtInstr(g) <=> g.ip \in 1..n
    BY <1>1, <1>3, AtInstrIs, CodeType DEF Instrs, Body, IsInstr
  <2>2. Placed(prog, g) <=> /\ g.ip \in 1..(n + 1)
                            /\ g.tries = ScopeOf(g)
                            /\ g.ip = n + 1 => Falls(prog, g.fn, g.blk)
    BY <1>1, <1>3, AtInstrIs DEF Placed, ScopeOf
  <2> HIDE DEF n
  <2> QED
    BY <1>3, <2>1, <2>2
<1> QED
  BY <1>2, <1>3

\* A step that replaces the running activation by a placed one.
LEMMA TopReplaced ==
  ASSUME PInv, frames # <<>>, NEW g \in Frames, Placed(prog, g), frames' = SetTop(g),
         prog' = prog, TypeOK', mode' = "raise" => AtInstr(g)
  PROVE  PInv'
<1>1. /\ Len(frames) \in Nat \ {0}
      /\ DOMAIN frames = 1..Len(frames)
      /\ DOMAIN frames' = 1..Len(frames)
      /\ Len(frames') = Len(frames)
      /\ frames'[Len(frames)] = g
      /\ \A k \in 1..(Len(frames) - 1) : frames'[k] = frames[k]
  BY SetTopIs, LastOf, LenProperties DEF PInv, TypeOK
<1>2. \A k \in DOMAIN frames' : Placed(prog', frames'[k])
  BY <1>1 DEF PInv
<1>3. SuspendedAtCall'
  BY <1>1 DEF PInv, SuspendedAtCall, AtInstr, InFunction, Instr, Instrs, Body
<1>4. RaisedAtInstr'
  BY <1>1 DEF RaisedAtInstr, Top, AtInstr, InFunction, Instrs, Body
<1> QED
  BY <1>2, <1>3, <1>4 DEF PInv

\* What the invariant says of the running activation.
LEMMA TopPlaced ==
  ASSUME PInv, frames # <<>>
  PROVE  /\ Top \in Frames /\ Placed(prog, Top) /\ prog \in Programs
         /\ AtInstr(Top) =>
              /\ IsInstr(prog, Top.fn, Top.blk, Top.ip)
              /\ Instr(Top) = InstrOf(prog, Top.fn, Top.blk, Top.ip)
              /\ Top.tries = ScopeAt(prog, Top.fn, Top.blk, Top.ip)
              /\ InstrScoped(prog, Top.fn, Top.blk, Top.ip)
<1>1. Top \in Frames /\ prog \in Programs
  BY TopType DEF PInv, TypeOK
<1>2. Placed(prog, Top)
  BY LastOf DEF PInv, TypeOK, Top
<1>3. ASSUME AtInstr(Top)
      PROVE  /\ IsInstr(prog, Top.fn, Top.blk, Top.ip)
             /\ Instr(Top) = InstrOf(prog, Top.fn, Top.blk, Top.ip)
             /\ Top.tries = ScopeAt(prog, Top.fn, Top.blk, Top.ip)
             /\ InstrScoped(prog, Top.fn, Top.blk, Top.ip)
  <2>1. /\ IsInstr(prog, Top.fn, Top.blk, Top.ip)
        /\ Instr(Top) = InstrOf(prog, Top.fn, Top.blk, Top.ip)
        /\ Top.fn \in Functions
    BY <1>1, <1>3, AtInstrIs
  <2> QED
    BY <1>1, <1>2, <2>1, ScopedInstr DEF Placed, IsInstr
<1> QED
  BY <1>1, <1>2, <1>3

\* The running activation moves on to the next position, with its scope.
LEMMA Advanced ==
  ASSUME PInv, mode = "run", AtInstr(Top), TypeOK', prog' = prog,
         NEW g \in Frames, Advance(g), g.fn = Top.fn, g.blk = Top.blk, g.ip = Top.ip,
         Instr(Top).op \notin {"ret", "throw", "fault", "rethrow", "jump", "branch_if"},
         g.tries = ScopeAt(prog, Top.fn, Top.blk, Top.ip + 1)
  PROVE  PInv'
<1>1. frames # <<>>
  BY DEF PInv, TypeOK
<1>2. Step(g) \in Frames
  BY FrameTypes DEF PInv, TypeOK
<1>3. /\ Step(g).fn = Top.fn /\ Step(g).blk = Top.blk /\ Step(g).ip = Top.ip + 1
      /\ Step(g).tries = ScopeAt(prog, Top.fn, Top.blk, Top.ip + 1)
  BY DEF Step, Frames
<1>4. Placed(prog, Step(g))
  <2>1. Top.fn \in Functions /\ Top.blk \in Nat /\ Top.ip \in Nat
    BY <1>1, TopPlaced, AtInstrIs
  <2> QED
    BY <1>1, <1>3, <2>1, TopPlaced, StepPlaced
<1> QED
  BY <1>1, <1>2, <1>4, TopReplaced DEF Advance

\* The running activation jumps, with its scope.
LEMMA Jumped ==
  ASSUME PInv, frames # <<>>, TypeOK', prog' = prog, mode' = "run",
         NEW g \in Frames, NEW l, frames' = SetTop(GoTo(g, l)),
         JumpKeepsScope(prog, g.fn, g.tries, l)
  PROVE  PInv'
<1>1. GoTo(g, l) \in Frames /\ g.fn \in Functions
  BY FrameTypes DEF PInv, TypeOK, Frames
<1>2. /\ GoTo(g, l).fn = g.fn /\ GoTo(g, l).tries = g.tries
      /\ GoTo(g, l).blk = FindIn(prog, g.fn, l) /\ GoTo(g, l).ip = 1
  BY DEF GoTo, FindIn, Body, Frames
<1>3. Placed(prog, GoTo(g, l))
  <2> HIDE DEF GoTo
  <2> QED
    BY <1>1, <1>2, GoToPlaced DEF PInv, TypeOK
<1> QED
  BY <1>1, <1>3, TopReplaced

\* The activation that waits for the running one.
LEMMA CallerPlaced ==
  ASSUME PInv, frames # <<>>, Callers # <<>>,
         NEW c, c = Callers[Len(Callers)]
  PROVE  /\ c \in Frames /\ Placed(prog, c)
         /\ AtInstr(c) /\ Instr(c).op \in Calls
         /\ Placed(prog, Step(c))
<1>1. /\ Len(frames) \in Nat \ {0} /\ DOMAIN frames = 1..Len(frames)
      /\ Len(Callers) = Len(frames) - 1 /\ Len(Callers) \in Nat \ {0}
      /\ \A k \in 1..(Len(frames) - 1) : Callers[k] = frames[k]
  BY LastOf, CallersAre DEF PInv, TypeOK
<1>2. c = frames[Len(frames) - 1] /\ Len(frames) - 1 \in 1..(Len(frames) - 1)
  BY <1>1
<1>3. c \in Frames
  BY CallerType DEF PInv
<1>4. Placed(prog, c) /\ AtInstr(c) /\ Instr(c).op \in Calls
  BY <1>1, <1>2 DEF PInv, SuspendedAtCall
<1>5. Placed(prog, Step(c))
  <2>1. /\ IsInstr(prog, c.fn, c.blk, c.ip)
        /\ Instr(c) = InstrOf(prog, c.fn, c.blk, c.ip)
        /\ c.fn \in Functions /\ c.blk \in Nat /\ c.ip \in Nat /\ prog \in Programs
    BY <1>3, <1>4, AtInstrIs DEF PInv, TypeOK
  <2>2. InstrScoped(prog, c.fn, c.blk, c.ip)
    BY <2>1, ScopedInstr
  <2>3. c.tries = ScopeAt(prog, c.fn, c.blk, c.ip)
    BY <1>4, <2>1 DEF Placed, IsInstr
  <2>4. c.tries = ScopeAt(prog, c.fn, c.blk, c.ip + 1)
    BY <1>4, <2>1, <2>2, <2>3 DEF InstrScoped, InstrOf
  <2>5. Step(c).fn = c.fn /\ Step(c).blk = c.blk /\ Step(c).ip = c.ip + 1 /\ Step(c).tries = c.tries
    BY <1>3 DEF Step, Frames
  <2> QED
    BY <1>4, <2>1, <2>4, <2>5, StepPlaced DEF Calls
<1> QED
  BY <1>3, <1>4, <1>5

\* The running activation ends and its caller goes on from a placed position.
LEMMA BackInCaller ==
  ASSUME PInv, frames # <<>>, Callers # <<>>, NEW g \in Frames, Placed(prog, g),
         frames' = [Callers EXCEPT ![Len(Callers)] = g], prog' = prog, TypeOK',
         mode' = "raise" => AtInstr(g)
  PROVE  PInv'
<1> DEFINE m == Len(Callers)
<1>1. /\ m \in Nat /\ m >= 1
      /\ Len(frames) = m + 1 /\ DOMAIN frames = 1..(m + 1)
      /\ Callers \in Seq(Frames)
      /\ \A k \in 1..m : Callers[k] = frames[k]
  BY LastOf, CallersAre DEF PInv, TypeOK
<1>2. /\ Len(frames') = m /\ DOMAIN frames' = 1..m /\ frames'[m] = g
      /\ \A k \in 1..(m - 1) : frames'[k] = Callers[k]
  BY <1>1, LastSet
<1> HIDE DEF m
<1>3. \A k \in 1..(m - 1) : frames'[k] = frames[k] /\ k \in 1..(m + 1)
  BY <1>1, <1>2
<1>4. \A k \in DOMAIN frames' : Placed(prog', frames'[k])
  <2>1. \A k \in 1..m : k = m \/ k \in 1..(m - 1)
    BY <1>1
  <2> QED
    BY <1>1, <1>2, <1>3, <2>1 DEF PInv
<1>5. SuspendedAtCall'
  BY <1>1, <1>2, <1>3 DEF PInv, SuspendedAtCall, AtInstr, InFunction, Instr, Instrs, Body
<1>6. RaisedAtInstr'
  BY <1>1, <1>2 DEF RaisedAtInstr, Top, AtInstr, InFunction, Instrs, Body
<1> QED
  BY <1>4, <1>5, <1>6 DEF PInv

\* The first activation is at a placed position with no handler.
LEMMA InitPInv == Init => PInv
<1> SUFFICES ASSUME Init PROVE PInv
  OBVIOUS
<1>1. TypeOK
  BY InitType
<1>2. frames = <<NewFrame(Main)>> /\ prog \in Programs /\ mode = "run"
  BY DEF Init
<1>3. Len(frames) = 1 /\ DOMAIN frames = {1} /\ frames[1] = NewFrame(Main)
  <2> HIDE DEF NewFrame
  <2> QED
    BY <1>2
<1>4. \A k \in DOMAIN frames : Placed(prog, frames[k])
  BY <1>2, <1>3, NewPlaced, MainAssumption
<1>5. SuspendedAtCall /\ RaisedAtInstr
  BY <1>2, <1>3 DEF SuspendedAtCall, RaisedAtInstr
<1> QED
  BY <1>1, <1>4, <1>5 DEF PInv

\* One step keeps the invariant: one case for each instruction of scoped code.
LEMMA NextPInv == PInv /\ [Next]_vars => PInv'
<1> SUFFICES ASSUME PInv, [Next]_vars PROVE PInv'
  OBVIOUS
<1>1. TypeOK /\ TypeOK'
  BY NextType DEF PInv
<1>2. CASE UNCHANGED vars
  <2>1. UNCHANGED <<prog, frames, mode>>
    BY <1>2 DEF vars
  <2>2. SuspendedAtCall'
    BY <2>1 DEF PInv, SuspendedAtCall, AtInstr, InFunction, Instr, Instrs, Body
  <2>3. RaisedAtInstr'
    BY <2>1 DEF PInv, RaisedAtInstr, AtInstr, InFunction, Instrs, Body, Top
  <2> QED
    BY <1>1, <2>1, <2>2, <2>3 DEF PInv
<1>3. ASSUME mode \in {"run", "raise"}
      PROVE  frames # <<>> /\ Top \in Frames /\ prog \in Programs
  BY <1>1, <1>3, TopPlaced DEF TypeOK
<1>4. ASSUME mode = "run", AtInstr(Top)
      PROVE  /\ Instr(Top) = InstrOf(prog, Top.fn, Top.blk, Top.ip)
             /\ Top.tries = ScopeAt(prog, Top.fn, Top.blk, Top.ip)
             /\ InstrScoped(prog, Top.fn, Top.blk, Top.ip)
  BY <1>3, <1>4, TopPlaced
<1>5. CASE PushHandler
  <2> DEFINE g == [Top EXCEPT !.tries = Append(Top.tries, Instr(Top).target)]
  <2>1. Top \in Frames /\ Append(Top.tries, Instr(Top).target) \in Seq(Labels)
    <3>1. Instr(Top) \in Instructions /\ Top \in Frames
      BY <1>1, <1>3, <1>5, InstrType DEF PushHandler, Running, AtInstr
    <3> QED
      BY <1>5, <3>1, Operands, AppendProperties DEF PushHandler, Running, Targeted, Frames
  <2>2. g \in Frames /\ g.fn = Top.fn /\ g.blk = Top.blk /\ g.ip = Top.ip
    BY <2>1 DEF Frames
  <2>3. g.tries = Append(Top.tries, Instr(Top).target)
    BY <2>1 DEF Frames
  <2>4. g.tries = ScopeAt(prog, Top.fn, Top.blk, Top.ip + 1)
    BY <1>4, <1>5, <2>3 DEF PushHandler, Running, InstrScoped, InstrOf
  <2>5. Advance(g) /\ prog' = prog /\ mode = "run" /\ AtInstr(Top) /\ Instr(Top).op = "push_handler"
    BY <1>5 DEF PushHandler, Running
  <2> HIDE DEF g
  <2> QED
    BY <1>1, <2>2, <2>4, <2>5, Advanced
<1>6. CASE PopHandler
  <2> DEFINE g == [Top EXCEPT !.tries = Pop(Top.tries)]
  <2>1. Top \in Frames /\ Pop(Top.tries) \in Seq(Labels)
    BY <1>3, <1>6, PopType DEF PopHandler, Running, Frames
  <2>2. g \in Frames /\ g.fn = Top.fn /\ g.blk = Top.blk /\ g.ip = Top.ip
    BY <2>1 DEF Frames
  <2>3. g.tries = Pop(Top.tries)
    BY <2>1 DEF Frames
  <2>4. g.tries = ScopeAt(prog, Top.fn, Top.blk, Top.ip + 1)
    BY <1>4, <1>6, <2>3 DEF PopHandler, Running, InstrScoped, InstrOf
  <2>5. Advance(g) /\ prog' = prog /\ mode = "run" /\ AtInstr(Top) /\ Instr(Top).op = "pop_handler"
    BY <1>6 DEF PopHandler, Running
  <2> HIDE DEF g
  <2> QED
    BY <1>1, <2>2, <2>4, <2>5, Advanced
\* The instructions that leave the scope as it is and only move on.
<1>7. ASSUME mode = "run", AtInstr(Top), prog' = prog, NEW g \in Frames, Advance(g),
             g.fn = Top.fn, g.blk = Top.blk, g.ip = Top.ip, g.tries = Top.tries,
             Instr(Top).op \in {"get_exception", "exception_is", "eval",
                                "unknown_expr", "nop", "mark"}
      PROVE  PInv'
  <2>1. g.tries = ScopeAt(prog, Top.fn, Top.blk, Top.ip + 1)
    BY <1>4, <1>7 DEF InstrScoped, InstrOf
  <2> QED
    BY <1>1, <1>7, <2>1, Advanced
<1>8. CASE GetException
  <2> DEFINE e == IF Top.exn = NoExn THEN RuntimeExn(err) ELSE Top.exn
             g == [Top EXCEPT !.exn = e, !.caught = e]
  <2>1. Top \in Frames /\ Running("get_exception") /\ Advance(g) /\ prog' = prog
    BY <1>3, <1>8 DEF GetException, Running
  <2>2. e \in Exceptions
    <3>1. RuntimeExn(err) \in Exceptions
      BY <1>1, TypesAssumption DEF RuntimeExn, Exceptions, TypeOK
    <3> QED
      BY <2>1, <3>1 DEF Frames
  <2> HIDE DEF e
  <2>3. g \in Frames /\ g.fn = Top.fn /\ g.blk = Top.blk /\ g.ip = Top.ip /\ g.tries = Top.tries
    BY <2>1, <2>2 DEF Frames
  <2> HIDE DEF g
  <2> QED
    BY <1>7, <2>1, <2>3 DEF Running
<1>9. ASSUME NEW op \in {"exception_is", "eval", "unknown_expr"}, Running(op),
             NEW b \in BOOLEAN, Advance([Top EXCEPT !.cond = b]), prog' = prog
      PROVE  PInv'
  <2> DEFINE g == [Top EXCEPT !.cond = b]
  <2>1. Top \in Frames
    BY <1>3, <1>9 DEF Running
  <2>2. g \in Frames /\ g.fn = Top.fn /\ g.blk = Top.blk /\ g.ip = Top.ip /\ g.tries = Top.tries
    BY <2>1 DEF Frames
  <2>3. Advance(g)
    BY <1>9
  <2> HIDE DEF g
  <2> QED
    BY <1>7, <1>9, <2>2, <2>3 DEF Running
<1>10. CASE ExceptionIs
  <2>1. Matches(Top.caught, Instr(Top).type) \in BOOLEAN
    BY DEF Matches
  <2> QED
    BY <1>9, <1>10, <2>1 DEF ExceptionIs
<1>11. CASE Eval
  <2>1. (reads < Len(script) /\ script[reads + 1]) \in BOOLEAN
    BY <1>1, ScriptAssumption, ElementOfSeq DEF TypeOK
  <2> QED
    BY <1>9, <1>11, <2>1 DEF Eval
<1>12. CASE UnknownExpr
  BY <1>9, <1>12 DEF UnknownExpr
<1>13. CASE Nop \/ Mark
  BY <1>3, <1>7, <1>13 DEF Nop, Mark, Running
<1>14. CASE Jump
  <2>1. JumpKeepsScope(prog, Top.fn, Top.tries, Instr(Top).target)
    BY <1>4, <1>14 DEF Jump, Running, InstrScoped, InstrOf
  <2> QED
    BY <1>1, <1>3, <1>14, <2>1, Jumped DEF Jump, Running
<1>15. CASE BranchIf
  <2>1. /\ JumpKeepsScope(prog, Top.fn, Top.tries, Instr(Top).then)
        /\ JumpKeepsScope(prog, Top.fn, Top.tries, Instr(Top).else)
    BY <1>4, <1>15 DEF BranchIf, Running, InstrScoped, InstrOf
  <2> QED
    BY <1>1, <1>3, <1>15, <2>1, Jumped DEF BranchIf, Running
<1>16. CASE FallThrough
  <2> DEFINE g == [Top EXCEPT !.blk = Top.blk + 1, !.ip = 1]
  <2>1. Top \in Frames /\ prog \in Programs /\ Placed(prog, Top) /\ frames # <<>>
    BY <1>3, <1>16, TopPlaced DEF FallThrough
  <2>2. /\ Top.fn \in Functions /\ Top.blk \in DOMAIN IR(prog, Top.fn)
        /\ Top.blk \in Nat \ {0} /\ Top.ip \in Nat \ {0}
        /\ ~IsInstr(prog, Top.fn, Top.blk, Top.ip)
    BY <1>16, <2>1, AtInstrIs DEF FallThrough
  <2>3. g \in Frames
    <3>1. 1 \in Nat \ {0} /\ Top.blk + 1 \in Nat \ {0}
      BY <2>2
    <3>2. \A b, i \in Nat \ {0} : [Top EXCEPT !.blk = b, !.ip = i] \in Frames
      BY <2>1 DEF Frames
    <3> QED
      BY <3>1, <3>2
  <2>4. g.fn = Top.fn /\ g.blk = Top.blk + 1 /\ g.ip = 1 /\ g.tries = Top.tries
    BY <2>1 DEF Frames
  <2>5. frames' = SetTop(g) /\ prog' = prog /\ mode' = "run"
    BY <1>16 DEF FallThrough
  <2> HIDE DEF g
  <2>6. Placed(prog, g)
    BY <2>1, <2>2, <2>4, FallPlaced
  <2> QED
    BY <1>1, <2>1, <2>3, <2>5, <2>6, TopReplaced
<1>17. CASE Call
  <2> DEFINE g == NewFrame(Instr(Top).callee)
             n == Len(frames)
  <2>1. Instr(Top) \in Instructions /\ frames # <<>>
    BY <1>1, <1>3, <1>17, InstrType DEF Call, AtInstr
  <2>2. g \in Frames /\ Placed(prog, g)
    BY <1>1, <1>17, <2>1, Operands, FrameTypes, NewPlaced DEF Call, TypeOK
  <2> HIDE DEF g
  <2>3. n \in Nat /\ n >= 1 /\ DOMAIN frames = 1..n
    BY <1>1, <2>1, LastOf DEF TypeOK
  <2>4. /\ Len(frames') = n + 1 /\ DOMAIN frames' = 1..(n + 1) /\ frames'[n + 1] = g
        /\ \A k \in 1..n : frames'[k] = frames[k]
    BY <1>1, <1>17, <2>2, AppendProperties, LenProperties DEF Call, TypeOK, g
  <2> HIDE DEF n
  <2>5. \A k \in DOMAIN frames' : Placed(prog', frames'[k])
    <3>1. \A k \in 1..(n + 1) : k = n + 1 \/ k \in 1..n
      BY <2>3
    <3>2. prog' = prog
      BY <1>17 DEF Call
    <3> QED
      BY <2>2, <2>3, <2>4, <3>1, <3>2 DEF PInv
  <2>6. SuspendedAtCall'
    <3>1. \A k \in 1..n : AtInstr(frames[k]) /\ Instr(frames[k]).op \in Calls
      <4>1. AtInstr(frames[n]) /\ Instr(frames[n]).op \in Calls
        BY <1>17 DEF Call, Top, n
      <4>2. \A k \in 1..(n - 1) : AtInstr(frames[k]) /\ Instr(frames[k]).op \in Calls
        BY DEF PInv, SuspendedAtCall, n
      <4>3. \A k \in 1..n : k = n \/ k \in 1..(n - 1)
        BY <2>3
      <4> QED
        BY <4>1, <4>2, <4>3
    <3>2. prog' = prog /\ Len(frames') - 1 = n
      BY <1>17, <2>3, <2>4 DEF Call
    <3> QED
      BY <2>4, <3>1, <3>2 DEF SuspendedAtCall, AtInstr, InFunction, Instr, Instrs, Body
  <2>7. RaisedAtInstr'
    BY <1>17 DEF Call, RaisedAtInstr
  <2> QED
    BY <1>1, <2>5, <2>6, <2>7 DEF PInv
\* The last activation is gone.
<1>18. ASSUME frames' = <<>>, mode' \in {"ok", "failed"} PROVE PInv'
  <2>1. Len(frames') = 0 /\ DOMAIN frames' = {}
    BY <1>18
  <2> QED
    BY <1>1, <1>18, <2>1 DEF PInv, SuspendedAtCall, RaisedAtInstr
<1>19. ASSUME Return, mode = "run" PROVE PInv'
  <2>1. CASE Callers = <<>>
    BY <1>18, <1>19, <2>1 DEF Return
  <2>2. CASE Callers # <<>>
    <3> DEFINE c == Callers[Len(Callers)]
    <3>1. c \in Frames /\ Step(c) \in Frames /\ Placed(prog, Step(c))
      BY <1>1, <1>3, <1>19, <2>2, CallerPlaced, FrameTypes
    <3>2. frames' = [Callers EXCEPT ![Len(Callers)] = Step(c)] /\ mode' = "run" /\ prog' = prog
      BY <1>19, <2>2 DEF Return
    <3> HIDE DEF c
    <3> QED
      BY <1>1, <1>3, <1>19, <2>2, <3>1, <3>2, BackInCaller
  <2> QED
    BY <2>1, <2>2
<1>20. CASE Fault \/ Rethrow
  <2>1. prog' = prog /\ frames' = frames /\ AtInstr(Top)
    BY <1>20 DEF Fault, Rethrow, Running
  <2>2. SuspendedAtCall'
    BY <2>1 DEF PInv, SuspendedAtCall, AtInstr, InFunction, Instr, Instrs, Body
  <2>3. RaisedAtInstr'
    BY <2>1 DEF RaisedAtInstr, AtInstr, InFunction, Instrs, Body, Top
  <2> QED
    BY <1>1, <2>1, <2>2, <2>3 DEF PInv
<1>21. CASE Throw
  <2> DEFINE g == [Top EXCEPT !.exn = Instr(Top).exn]
  <2>1. Top \in Frames /\ AtInstr(Top) /\ frames # <<>> /\ Instr(Top).op = "throw"
    BY <1>3, <1>21 DEF Throw, Running
  <2>2. Instr(Top).exn \in Exceptions
    BY <1>1, <1>3, <1>21, <2>1, InstrType, Operands DEF AtInstr, Throw, Running
  <2>3. g \in Frames /\ g.fn = Top.fn /\ g.blk = Top.blk /\ g.ip = Top.ip /\ g.tries = Top.tries
    BY <2>1, <2>2 DEF Frames
  <2>4. frames' = SetTop(g) /\ prog' = prog
    BY <1>21 DEF Throw
  <2> HIDE DEF g
  <2>5. Placed(prog, g)
    BY <2>1, <2>3, TopPlaced DEF Placed
  <2>6. AtInstr(g)
    BY <2>1, <2>3 DEF AtInstr, InFunction, Instrs, Body
  <2> QED
    BY <1>1, <2>1, <2>3, <2>4, <2>5, <2>6, TopReplaced
<1>22. CASE EnterHandler
  <2> DEFINE g == [Top EXCEPT !.exn = Raised, !.tries = Pop(Top.tries)]
             l == Top.tries[Len(Top.tries)]
  <2>1. Top \in Frames /\ frames # <<>> /\ AtInstr(Top)
    BY <1>3, <1>22 DEF EnterHandler, PInv, RaisedAtInstr
  <2>2. Raised \in Exceptions /\ Pop(Top.tries) \in Seq(Labels)
    BY <1>1, <2>1, RaisedType, PopType DEF Frames
  <2>3. g \in Frames /\ g.fn = Top.fn /\ g.tries = Pop(Top.tries)
    BY <2>1, <2>2 DEF Frames
  <2>4. JumpKeepsScope(prog, Top.fn, Pop(Top.tries), l)
    BY <1>22, <2>1, TopPlaced DEF EnterHandler, InstrScoped
  <2>5. frames' = SetTop(GoTo(g, l)) /\ prog' = prog /\ mode' = "run"
    BY <1>22 DEF EnterHandler
  <2> HIDE DEF g, l
  <2> QED
    BY <1>1, <2>1, <2>3, <2>4, <2>5, Jumped
<1>23. CASE PropagateToCall
  <2> DEFINE c == Callers[Len(Callers)]
             g == [c EXCEPT !.exn = Raised]
  <2>1. frames # <<>> /\ Callers # <<>> /\ mode = "raise"
    BY <1>3, <1>23 DEF PropagateToCall, Fails
  <2>2. c \in Frames /\ Placed(prog, c) /\ AtInstr(c)
    BY <2>1, CallerPlaced
  <2>3. Raised \in Exceptions
    BY <1>1, <2>1, RaisedType
  <2>4. g \in Frames /\ g.fn = c.fn /\ g.blk = c.blk /\ g.ip = c.ip /\ g.tries = c.tries
    BY <2>2, <2>3 DEF Frames
  <2>5. frames' = [Callers EXCEPT ![Len(Callers)] = g] /\ prog' = prog
    BY <1>23 DEF PropagateToCall
  <2> HIDE DEF g
  <2>6. Placed(prog, g)
    BY <2>2, <2>4 DEF Placed
  <2>7. AtInstr(g)
    BY <2>2, <2>4 DEF AtInstr, InFunction, Instrs, Body
  <2> QED
    BY <1>1, <2>1, <2>4, <2>5, <2>6, <2>7, BackInCaller
<1>24. CASE PropagateToCallback
  <2> DEFINE c == Callers[Len(Callers)]
  <2>1. frames # <<>> /\ Callers # <<>>
    BY <1>3, <1>24 DEF PropagateToCallback, Fails
  <2>2. c \in Frames /\ Placed(prog, c) /\ AtInstr(c)
    BY <2>1, CallerPlaced
  <2>3. Callers \in Seq(Frames)
    BY <1>1, <2>1, CallersAre DEF TypeOK
  <2>4. Callers = [Callers EXCEPT ![Len(Callers)] = c]
    BY <2>1, <2>3, LenProperties
  <2>5. frames' = [Callers EXCEPT ![Len(Callers)] = c] /\ prog' = prog
    BY <1>24, <2>4 DEF PropagateToCallback
  <2> HIDE DEF c
  <2> QED
    BY <1>1, <2>1, <2>2, <2>5, BackInCaller
<1>25. CASE LeaveMain
  BY <1>18, <1>25 DEF LeaveMain
<1> QED
  BY <1>2, <1>5, <1>6, <1>8, <1>10, <1>11, <1>12, <1>13, <1>14, <1>15, <1>16, <1>17,
     <1>19, <1>20, <1>21, <1>22, <1>23, <1>24, <1>25
     DEF Next, Ret, RunOff, Running

\* The invariant of scoped code.
THEOREM ScopesInvariant == Spec => []IInv
<1>1. Init => IInv
  BY InitPInv, PInvIsIInv
<1>2. IInv /\ [Next]_vars => IInv'
  <2>1. PInv' <=> IInv'
    BY PInvIsIInv, PTL
  <2> QED
    BY <2>1, NextPInv, PInvIsIInv
<1> QED
  BY <1>1, <1>2, PTL DEF Spec

\* Whatever scoped code the interpreter runs, no handler is left over from a try
\* that control has left, and none is missing.
THEOREM HandlersLexical == Spec => []HandlerStackIsLexical
<1>1. IInv => HandlerStackIsLexical
  BY DEF IInv
<1> QED
  BY <1>1, ScopesInvariant, PTL

\* Where a raise sends control: to the innermost try of the scope it came from.
LEMMA RaisedScope ==
  ASSUME IInv, mode = "raise"
  PROVE  /\ frames # <<>> /\ Top \in Frames /\ InFunction(Top)
         /\ Top.tries = ScopeOf(Top)
<1>1. frames # <<>> /\ Top \in Frames
  BY TopType DEF IInv, TypeOK
<1>2. InFunction(Top)
  BY DEF IInv, RaisedAtInstr, AtInstr
<1>3. Len(frames) \in DOMAIN frames
  BY <1>1, LastOf DEF IInv, TypeOK
<1> QED
  BY <1>1, <1>2, <1>3 DEF IInv, HandlerStackIsLexical, Top

\* An exception is caught by the innermost try around the instruction that
\* raised it, and that try is left.
THEOREM Delivered == Spec => DeliveredToInnermostTry
<1> DEFINE s == ScopeOf(Top)
           t == frames'[Len(frames)]
<1>1. ASSUME IInv, Next, mode = "raise", mode' = "run"
      PROVE  /\ s # <<>>
             /\ Len(frames') = Len(frames)
             /\ t.blk = FindIn(prog, Top.fn, s[Len(s)]) /\ t.tries = Pop(s)
  <2>1. EnterHandler
    BY <1>1 DEF Next, PushHandler, PopHandler, GetException, ExceptionIs, Eval, UnknownExpr,
                Nop, Mark, Jump, BranchIf, FallThrough, Call, Ret, RunOff, Fault, Throw,
                Rethrow, PropagateToCall, PropagateToCallback, LeaveMain, Fails, Running
  <2>2. frames # <<>> /\ Top \in Frames /\ Top.tries = s
    BY <1>1, RaisedScope
  <2> DEFINE g == [Top EXCEPT !.exn = Raised, !.tries = Pop(Top.tries)]
             l == Top.tries[Len(Top.tries)]
  <2>3. Raised \in Exceptions /\ Pop(Top.tries) \in Seq(Labels)
    BY <1>1, <2>2, RaisedType, PopType DEF Frames, IInv
  <2>4. g \in Frames /\ g.fn = Top.fn /\ g.tries = Pop(Top.tries)
    BY <2>2, <2>3 DEF Frames
  <2>5. frames' = SetTop(GoTo(g, l)) /\ Top.tries # <<>>
    BY <2>1 DEF EnterHandler
  <2> HIDE DEF g
  <2>6. GoTo(g, l) \in Frames
    BY <1>1, <2>4, FrameTypes DEF IInv, TypeOK
  <2>7. GoTo(g, l).blk = FindIn(prog, Top.fn, l) /\ GoTo(g, l).tries = Pop(Top.tries)
    BY <2>4 DEF GoTo, FindIn, Body, Frames
  <2>8. t = GoTo(g, l) /\ Len(frames') = Len(frames)
    BY <1>1, <2>2, <2>5, <2>6, SetTopIs DEF IInv, TypeOK
  <2> QED
    BY <2>2, <2>5, <2>7, <2>8
<1>2. IInv /\ [Next]_vars =>
        [ (mode = "raise" /\ mode' = "run") =>
            /\ ScopeOf(Top) # <<>>
            /\ Len(frames') = Len(frames)
            /\ LET s1 == ScopeOf(Top)
                   t1 == frames'[Len(frames)]
               IN  t1.blk = FindIn(prog, Top.fn, s1[Len(s1)]) /\ t1.tries = Pop(s1) ]_vars
  BY <1>1
<1> QED
  BY <1>2, ScopesInvariant, PTL DEF Spec, DeliveredToInnermostTry

\* An exception leaves an activation only where no try of it covers the
\* position.
THEOREM LeavesUncovered == Spec => LeavesOnlyUncovered
<1>1. ASSUME IInv, Next, mode = "raise", Len(frames') < Len(frames)
      PROVE  ScopeOf(Top) = <<>>
  <2>1. frames # <<>> /\ Top \in Frames /\ Top.tries = ScopeOf(Top)
    BY <1>1, RaisedScope
  <2>2. CASE EnterHandler
    <3> DEFINE g == GoTo([Top EXCEPT !.exn = Raised, !.tries = Pop(Top.tries)],
                         Top.tries[Len(Top.tries)])
    <3>1. Raised \in Exceptions /\ Pop(Top.tries) \in Seq(Labels)
      BY <1>1, <2>1, RaisedType, PopType DEF Frames, IInv
    <3>2. [Top EXCEPT !.exn = Raised, !.tries = Pop(Top.tries)] \in Frames
      BY <1>1, <2>1, <3>1, TopType DEF IInv
    <3>3. g \in Frames
      BY <1>1, <3>2, FrameTypes DEF IInv, TypeOK
    <3>4. frames' = SetTop(g)
      BY <2>2 DEF EnterHandler
    <3> HIDE DEF g
    <3>5. Len(frames') = Len(frames) /\ Len(frames) \in Nat
      BY <1>1, <2>1, <3>3, <3>4, SetTopIs, LastOf DEF IInv, TypeOK
    <3> QED
      BY <1>1, <3>5
  <2>3. CASE Fails
    BY <2>1, <2>3 DEF Fails
  <2> QED
    BY <1>1, <2>2, <2>3
       DEF Next, PushHandler, PopHandler, GetException, ExceptionIs, Eval, UnknownExpr,
           Nop, Mark, Jump, BranchIf, FallThrough, Call, Ret, RunOff, Fault, Throw,
           Rethrow, PropagateToCall, PropagateToCallback, LeaveMain, Running
<1>2. IInv /\ [Next]_vars =>
        [ (mode = "raise" /\ Len(frames') < Len(frames)) =>
            (InFunction(Top) => ScopeOf(Top) = <<>>) ]_vars
  BY <1>1
<1> QED
  BY <1>2, ScopesInvariant, PTL DEF Spec, LeavesOnlyUncovered

\* Whatever is raised in a program without callbacks has a cause.
THEOREM Caused == Spec => []RaiseHasCause
<1>1. Init => RaiseHasCause
  BY DEF Init, RaiseHasCause
<1>2. IInv /\ RaiseHasCause /\ [Next]_vars => RaiseHasCause'
  <2> SUFFICES ASSUME IInv, RaiseHasCause, [Next]_vars, mode' = "raise", NoCallbacks'
               PROVE  err' # NoError \/ Top'.exn # NoExn
    BY DEF RaiseHasCause
  <2>1. CASE UNCHANGED vars
    BY <2>1 DEF vars, RaiseHasCause, NoCallbacks, Body, Top
  <2>2. CASE Fault
    <3>1. Instr(Top) \in Instructions
      BY <2>2, TopType, InstrType DEF Fault, Running, IInv, TypeOK, AtInstr
    <3> QED
      BY <2>2, <3>1, Operands, CodesAssumption DEF Fault, Running
  <2>3. CASE Throw
    <3> DEFINE g == [Top EXCEPT !.exn = Instr(Top).exn]
    <3>1. frames # <<>> /\ Top \in Frames
      BY <2>3, TopType DEF Throw, Running, IInv, TypeOK
    <3>2. Instr(Top).exn \in Exceptions
      BY <2>3, <3>1, InstrType, Operands DEF Throw, Running, IInv, TypeOK, AtInstr
    <3>3. g \in Frames /\ g.exn \in Exceptions
      BY <3>1, <3>2 DEF Frames
    <3>4. frames' = SetTop(g)
      BY <2>3 DEF Throw
    <3> HIDE DEF g
    <3>5. Top' = g
      BY <3>1, <3>3, <3>4, SetTopIs DEF IInv, TypeOK, Top
    <3> QED
      BY <3>3, <3>5, NoneAssumption DEF NoExn, Exceptions
  <2>4. CASE Rethrow
    BY <2>4, CodesAssumption DEF Rethrow, Top
  <2>5. CASE PropagateToCall
    <3> DEFINE c == Callers[Len(Callers)]
               g == [c EXCEPT !.exn = Raised]
    <3>1. frames # <<>> /\ Callers # <<>>
      BY <2>5 DEF PropagateToCall, Fails, IInv, TypeOK
    <3>2. c \in Frames /\ Callers \in Seq(Frames) /\ Raised \in Exceptions
      BY <3>1, CallerType, RaisedType DEF IInv
    <3>3. g \in Frames /\ g.exn \in Exceptions
      BY <3>2 DEF Frames
    <3>4. frames' = [Callers EXCEPT ![Len(Callers)] = g]
      BY <2>5 DEF PropagateToCall
    <3> HIDE DEF g
    <3>5. Top' = g
      BY <3>1, <3>2, <3>3, <3>4, LastSet DEF Top
    <3> QED
      BY <3>3, <3>5, NoneAssumption DEF NoExn, Exceptions
  <2>6. CASE PropagateToCallback
    <3> DEFINE c == Callers[Len(Callers)]
    <3>1. frames # <<>> /\ Callers # <<>> /\ Instr(c).op = "call_method" /\ prog' = prog
      BY <2>6 DEF PropagateToCallback, Fails, IInv, TypeOK
    <3>2. c \in Frames /\ AtInstr(c)
      BY <3>1, CallerPlaced, PInvIsIInv
    <3> HIDE DEF c
    <3>3. c.fn \in Functions
      BY <3>2 DEF Frames
    <3> QED
      BY <3>1, <3>2, <3>3 DEF NoCallbacks, AtInstr, InFunction, Instr, Instrs, Body
  <2> QED
    BY <2>1, <2>2, <2>3, <2>4, <2>5, <2>6
       DEF Next, PushHandler, PopHandler, GetException, ExceptionIs, Eval, UnknownExpr,
           Nop, Mark, Jump, BranchIf, FallThrough, Call, Ret, RunOff, Return, EnterHandler,
           LeaveMain, Running, Advance
<1> QED
  BY <1>1, <1>2, ScopesInvariant, PTL DEF Spec
=============================================================================
