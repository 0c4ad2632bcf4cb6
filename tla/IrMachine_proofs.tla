--------------------------- MODULE IrMachine_proofs ---------------------------
(***************************************************************************)
(* Proofs about the interpreter that hold of any code it is given: type     *)
(* correctness, and that no error survives in the context's slot.           *)
(***************************************************************************)
EXTENDS IrMachine, SequenceTheorems, TLAPS

\* Facts about the sequences the machine's stacks are.
LEMMA PopType ==
  ASSUME NEW S, NEW t \in Seq(S)
  PROVE  Pop(t) \in Seq(S)
<1>1. CASE t = <<>>
  BY <1>1, EmptySeq DEF Pop
<1>2. CASE t # <<>>
  <2>1. Len(t) \in Nat \ {0}
    BY <1>2, EmptySeq
  <2> QED
    BY <1>2, <2>1, SubSeqProperties DEF Pop
<1> QED
  BY <1>1, <1>2

\* All of a sequence but its last element.
LEMMA FrontOf ==
  ASSUME NEW S, NEW t \in Seq(S), t # <<>>
  PROVE  /\ Pop(t) \in Seq(S)
         /\ Len(Pop(t)) = Len(t) - 1
         /\ \A k \in 1..(Len(t) - 1) : Pop(t)[k] = t[k]
<1> DEFINE n == Len(t) - 1
<1>1. n \in Nat /\ n + 1 = Len(t)
  BY EmptySeq
<1>2. \A i \in 1..n : t[i] \in S
  BY <1>1, ElementOfSeq
<1>3. Pop(t) = SubSeq(t, 1, n)
  BY DEF Pop
<1> HIDE DEF n
<1>4. /\ Len(SubSeq(t, 1, n)) = IF 1 <= n THEN n - 1 + 1 ELSE 0
      /\ \A i \in 1..(n - 1 + 1) : SubSeq(t, 1, n)[i] = t[1 + i - 1]
  BY <1>1, <1>2, SubSeqProperties
<1>5. Len(Pop(t)) = n
  BY <1>1, <1>3, <1>4
<1>6. \A i \in 1..n : Pop(t)[i] = t[i]
  BY <1>1, <1>3, <1>4
<1> QED
  BY <1>5, <1>6, PopType DEF n

\* The last element of a sequence that is not empty is one of its elements.
LEMMA LastOf ==
  ASSUME NEW S, NEW t \in Seq(S), t # <<>>
  PROVE  /\ Len(t) \in Nat \ {0}
         /\ DOMAIN t = 1..Len(t)
         /\ t[Len(t)] \in S
<1>1. Len(t) \in Nat \ {0}
  BY EmptySeq
<1> QED
  BY <1>1, ElementOfSeq, LenProperties

\* Replacing the last element changes nothing else.
LEMMA LastSet ==
  ASSUME NEW S, NEW t \in Seq(S), t # <<>>, NEW e \in S,
         NEW u, u = [t EXCEPT ![Len(t)] = e]
  PROVE  /\ u \in Seq(S) /\ u # <<>>
         /\ Len(u) = Len(t) /\ DOMAIN u = 1..Len(t)
         /\ u[Len(t)] = e
         /\ \A k \in 1..(Len(t) - 1) : u[k] = t[k]
<1>1. Len(t) \in Nat \ {0} /\ Len(t) \in 1..Len(t)
  BY LastOf
<1>2. /\ u \in Seq(S)
      /\ Len(u) = Len(t)
      /\ \A j \in 1..Len(t) : u[j] = IF j = Len(t) THEN e ELSE t[j]
  BY <1>1, ExceptSeq
<1>3. DOMAIN u = 1..Len(t)
  BY <1>2, LenProperties
<1>4. u # <<>>
  BY <1>1, <1>2, EmptySeq
<1>5. u[Len(t)] = e
  BY <1>1, <1>2
<1>6. \A k \in 1..(Len(t) - 1) : k \in 1..Len(t) /\ k # Len(t)
  BY <1>1
<1>7. \A k \in 1..(Len(t) - 1) : u[k] = t[k]
  BY <1>2, <1>6
<1> QED
  BY <1>2, <1>3, <1>4, <1>5, <1>7

\* Writing the top of a stack of activations: the rest of it stays, the length
\* too, and the top is what was written.
LEMMA SetTopIs ==
  ASSUME frames \in Seq(Frames), frames # <<>>, NEW g \in Frames
  PROVE  /\ SetTop(g) \in Seq(Frames)
         /\ Len(SetTop(g)) = Len(frames)
         /\ SetTop(g) # <<>>
         /\ SetTop(g)[Len(frames)] = g
         /\ \A k \in 1..(Len(frames) - 1) : SetTop(g)[k] = frames[k]
BY LastSet DEF SetTop

\* The caller's part of the stack.
LEMMA CallersAre ==
  ASSUME frames \in Seq(Frames), frames # <<>>
  PROVE  /\ Callers \in Seq(Frames)
         /\ Len(Callers) = Len(frames) - 1
         /\ \A k \in 1..(Len(frames) - 1) : Callers[k] = frames[k]
BY FrontOf DEF Pop, Callers

\* The operands of an instruction, by its kind.
LEMMA Operands ==
  ASSUME NEW i \in Instructions
  PROVE  /\ i.op \in Targeted => i.target \in Labels
         /\ i.op = "branch_if" => i.then \in Labels /\ i.else \in Labels
         /\ i.op = "throw" => i.exn \in Exceptions
         /\ i.op = "fault" => i.code \in Codes
         /\ i.op \in Calls => i.callee \in Functions
         /\ i.op = "mark" => i.id \in Marks
BY DEF Instructions, Targeted, Bare, Calls

\* The block an activation is in and the instruction it is at.
LEMMA InstrType ==
  ASSUME prog \in Programs, NEW f \in Frames, InFunction(f)
  PROVE  /\ Body(f.fn) \in Seq(Blocks)
         /\ Instrs(f) \in Seq(Instructions)
         /\ AtInstr(f) => Instr(f) \in Instructions
<1>1. f.fn \in Functions
  BY DEF Frames
<1>2. Body(f.fn) \in Seq(Blocks)
  BY <1>1, IRAssumption DEF Body
<1>3. Body(f.fn)[f.blk] \in Blocks
  BY <1>2, LenProperties, ElementOfSeq DEF InFunction
<1>4. Instrs(f) \in Seq(Instructions)
  BY <1>3 DEF Blocks, Instrs
<1> QED
  BY <1>2, <1>4, LenProperties, ElementOfSeq DEF AtInstr, Instr

\* A jump goes to a block number.
LEMMA FindBlockType ==
  ASSUME NEW blocks \in Seq(Blocks), NEW l
  PROVE  FindBlock(blocks, l) \in Nat \ {0}
<1>1. DOMAIN blocks \subseteq Nat \ {0}
  BY LenProperties
<1>2. CASE \E i \in DOMAIN blocks : IsFirst(blocks, l, i)
  <2>1. FindBlock(blocks, l) \in DOMAIN blocks
    BY <1>2 DEF FindBlock
  <2> QED
    BY <1>1, <2>1
<1> QED
  BY <1>2 DEF FindBlock

\* The parts of an activation have their types, and an activation with one part
\* replaced by a value of that type is an activation.
LEMMA FrameTypes ==
  ASSUME prog \in Programs
  PROVE  /\ \A f \in Functions : NewFrame(f) \in Frames
         /\ \A f \in Frames : Step(f) \in Frames
         /\ \A f \in Frames : \A l : GoTo(f, l) \in Frames
         /\ \A f \in Frames, e \in Exceptions : [f EXCEPT !.exn = e] \in Frames
<1>1. ASSUME NEW f \in Functions PROVE NewFrame(f) \in Frames
  BY EmptySeq DEF NewFrame, Frames
<1>2. ASSUME NEW f \in Frames PROVE Step(f) \in Frames
  BY DEF Step, Frames
<1>3. ASSUME NEW f \in Frames, NEW l PROVE GoTo(f, l) \in Frames
  <2>1. FindBlock(Body(f.fn), l) \in Nat \ {0}
    BY IRAssumption, FindBlockType DEF Body, Frames
  <2>2. \A b, i \in Nat \ {0} : [f EXCEPT !.blk = b, !.ip = i] \in Frames
    BY DEF Frames
  <2>3. 1 \in Nat \ {0}
    OBVIOUS
  <2> QED
    BY <2>1, <2>2, <2>3 DEF GoTo
<1>4. ASSUME NEW f \in Frames, NEW e \in Exceptions PROVE [f EXCEPT !.exn = e] \in Frames
  BY DEF Frames
<1> QED
  BY <1>1, <1>2, <1>3, <1>4

\* Raising keeps the types, from whatever position and with any exception.
LEMMA RaisedType ==
  ASSUME TypeOK, frames # <<>>
  PROVE  Raised \in Exceptions /\ (Raised.code = NoError => Top.exn # NoExn)
<1>1. Top.exn \in Exceptions \cup {NoExn}
  <2>1. Top \in Frames
    BY LastOf DEF TypeOK, Top
  <2> QED
    BY <2>1 DEF Frames
<1>2. \A c \in Codes \cup {NoError} : RuntimeExn(c) \in Exceptions
  BY TypesAssumption DEF RuntimeExn, Exceptions
<1>3. "internal" \in Codes
  BY CodesAssumption
<1>4. err \in Codes \cup {NoError}
  BY DEF TypeOK
<1>5. CASE err # NoError
  BY <1>2, <1>4, <1>5, CodesAssumption DEF Raised, RuntimeExn
<1>6. CASE err = NoError /\ Top.exn = NoExn
  BY <1>2, <1>3, <1>6, CodesAssumption DEF Raised, RuntimeExn
<1>7. CASE err = NoError /\ Top.exn # NoExn
  BY <1>1, <1>7 DEF Raised
<1> QED
  BY <1>5, <1>6, <1>7

\* The activation a step goes on with, for each of the ways it may be changed.
LEMMA TopType ==
  ASSUME TypeOK, frames # <<>>
  PROVE  /\ Top \in Frames
         /\ \A t \in Seq(Labels) : Step([Top EXCEPT !.tries = t]) \in Frames
         /\ \A b \in BOOLEAN : Step([Top EXCEPT !.cond = b]) \in Frames
         /\ \A e \in Exceptions : Step([Top EXCEPT !.exn = e, !.caught = e]) \in Frames
         /\ \A e \in Exceptions, t \in Seq(Labels) :
              [Top EXCEPT !.exn = e, !.tries = t] \in Frames
<1>1. Top \in Frames
  BY LastOf DEF TypeOK, Top
<1>2. \A f \in Frames : Step(f) \in Frames
  BY FrameTypes DEF TypeOK
<1>3. \A t \in Seq(Labels) : [Top EXCEPT !.tries = t] \in Frames
  BY <1>1 DEF Frames
<1>4. \A b \in BOOLEAN : [Top EXCEPT !.cond = b] \in Frames
  BY <1>1 DEF Frames
<1>5. \A e \in Exceptions : [Top EXCEPT !.exn = e, !.caught = e] \in Frames
  BY <1>1 DEF Frames
<1>6. \A e \in Exceptions, t \in Seq(Labels) : [Top EXCEPT !.exn = e, !.tries = t] \in Frames
  BY <1>1 DEF Frames
<1> QED
  BY <1>1, <1>2, <1>3, <1>4, <1>5, <1>6

\* A step that only replaces the running activation keeps the types.
LEMMA AdvanceType ==
  ASSUME TypeOK, frames # <<>>, NEW g \in Frames, frames' = SetTop(g),
         UNCHANGED <<prog, ctxExn, script>>,
         err' \in Codes \cup {NoError}, reads' \in 0..Len(script), out' \in Seq(Marks),
         mode' \in {"run", "raise"}
  PROVE  TypeOK'
BY SetTopIs DEF TypeOK

\* The end of an activation leaves a well typed rest of the stack.
LEMMA CallerType ==
  ASSUME TypeOK, frames # <<>>, Callers # <<>>
  PROVE  /\ Callers \in Seq(Frames)
         /\ Callers[Len(Callers)] \in Frames
         /\ \A g \in Frames : /\ [Callers EXCEPT ![Len(Callers)] = g] \in Seq(Frames)
                              /\ [Callers EXCEPT ![Len(Callers)] = g] # <<>>
<1>1. Callers \in Seq(Frames)
  BY CallersAre DEF TypeOK
<1>2. Len(Callers) \in Nat \ {0} /\ Callers[Len(Callers)] \in Frames
  BY <1>1, LastOf
<1>3. ASSUME NEW g \in Frames
      PROVE  /\ [Callers EXCEPT ![Len(Callers)] = g] \in Seq(Frames)
             /\ Len([Callers EXCEPT ![Len(Callers)] = g]) = Len(Callers)
  BY <1>1, <1>2, ExceptSeq
<1> QED
  BY <1>1, <1>2, <1>3, EmptySeq

\* The first activation is well typed.
LEMMA InitType == Init => TypeOK
<1> SUFFICES ASSUME Init PROVE TypeOK
  OBVIOUS
<1>1. NewFrame(Main) \in Frames
  BY MainAssumption, FrameTypes DEF Init
<1>2. frames \in Seq(Frames) /\ frames # <<>>
  BY <1>1 DEF Init
<1>3. reads \in 0..Len(script)
  BY ScriptAssumption DEF Init
<1>4. out \in Seq(Marks)
  BY EmptySeq DEF Init
<1> QED
  BY <1>2, <1>3, <1>4 DEF Init, TypeOK

\* One step of the interpreter keeps the types: one case for each instruction.
LEMMA NextType == TypeOK /\ [Next]_vars => TypeOK'
<1> SUFFICES ASSUME TypeOK, [Next]_vars PROVE TypeOK'
  OBVIOUS
<1> USE DEF TypeOK
<1>1. CASE UNCHANGED vars
  BY <1>1 DEF vars
<1>2. ASSUME mode \in {"run", "raise"} PROVE frames # <<>> /\ Top \in Frames
  BY <1>2, TopType
<1>3. ASSUME mode = "run", AtInstr(Top)
      PROVE  Instr(Top) \in Instructions /\ InFunction(Top)
  BY <1>2, <1>3, InstrType DEF AtInstr
<1>4. CASE PushHandler
  <2>1. Append(Top.tries, Instr(Top).target) \in Seq(Labels)
    BY <1>2, <1>3, <1>4, Operands, AppendProperties DEF PushHandler, Running, Targeted, Frames
  <2> QED
    BY <1>2, <1>4, <2>1, TopType, AdvanceType DEF PushHandler, Running, Advance
<1>5. CASE PopHandler
  <2>1. Pop(Top.tries) \in Seq(Labels)
    BY <1>2, <1>5, PopType DEF PopHandler, Running, Frames
  <2> QED
    BY <1>2, <1>5, <2>1, TopType, AdvanceType DEF PopHandler, Running, Advance
<1>6. CASE GetException
  <2> DEFINE e == IF Top.exn = NoExn THEN RuntimeExn(err) ELSE Top.exn
  <2>1. Top.exn \in Exceptions \cup {NoExn}
    BY <1>2, <1>6 DEF GetException, Running, Frames
  <2>2. RuntimeExn(err) \in Exceptions
    BY TypesAssumption DEF RuntimeExn, Exceptions
  <2>3. e \in Exceptions
    BY <2>1, <2>2
  <2>4. frames' = SetTop(Step([Top EXCEPT !.exn = e, !.caught = e])) /\ mode' = "run"
    BY <1>6 DEF GetException, Advance
  <2> HIDE DEF e
  <2> QED
    BY <1>2, <1>6, <2>3, <2>4, TopType, AdvanceType DEF GetException, Running
<1>7. CASE ExceptionIs
  <2>1. Matches(Top.caught, Instr(Top).type) \in BOOLEAN
    BY DEF Matches
  <2> QED
    BY <1>2, <1>7, <2>1, TopType, AdvanceType DEF ExceptionIs, Running, Advance
<1>8. CASE Eval
  <2> DEFINE b == reads < Len(script) /\ script[reads + 1]
  <2>1. b \in BOOLEAN
    BY ScriptAssumption, ElementOfSeq
  <2>2. reads' \in 0..Len(script)
    BY <1>8, ScriptAssumption DEF Eval
  <2>3. frames' = SetTop(Step([Top EXCEPT !.cond = b])) /\ mode' = "run"
    BY <1>8 DEF Eval, Advance
  <2> HIDE DEF b
  <2> QED
    BY <1>2, <1>8, <2>1, <2>2, <2>3, TopType, AdvanceType DEF Eval, Running
<1>9. CASE UnknownExpr
  BY <1>2, <1>9, TopType, AdvanceType DEF UnknownExpr, Running, Advance
<1>10. CASE Nop
  BY <1>2, <1>10, FrameTypes, AdvanceType DEF Nop, Running, Advance
<1>11. CASE Mark
  <2>1. out' \in Seq(Marks)
    BY <1>3, <1>11, Operands, AppendProperties DEF Mark, Running
  <2> QED
    BY <1>2, <1>11, <2>1, FrameTypes, AdvanceType DEF Mark, Running, Advance
<1>12. CASE Jump
  <2>1. GoTo(Top, Instr(Top).target) \in Frames
    BY <1>2, <1>12, FrameTypes DEF Jump, Running
  <2> QED
    BY <1>2, <1>12, <2>1, AdvanceType DEF Jump, Running
<1>13. CASE BranchIf
  <2>1. \A l : GoTo(Top, l) \in Frames
    BY <1>2, <1>13, FrameTypes DEF BranchIf, Running
  <2> QED
    BY <1>2, <1>13, <2>1, AdvanceType DEF BranchIf, Running
<1>14. CASE FallThrough
  <2>1. [Top EXCEPT !.blk = Top.blk + 1, !.ip = 1] \in Frames
    <3>1. 1 \in Nat \ {0} /\ Top.blk + 1 \in Nat \ {0}
      BY <1>2, <1>14 DEF FallThrough, Frames
    <3>2. \A b, i \in Nat \ {0} : [Top EXCEPT !.blk = b, !.ip = i] \in Frames
      BY <1>2, <1>14 DEF FallThrough, Frames
    <3> QED
      BY <3>1, <3>2
  <2> QED
    BY <1>2, <1>14, <2>1, AdvanceType DEF FallThrough
<1>15. CASE Call
  <2>1. NewFrame(Instr(Top).callee) \in Frames
    BY <1>3, <1>15, Operands, FrameTypes DEF Call
  <2>2. frames' \in Seq(Frames) /\ frames' # <<>>
    BY <1>15, <2>1, AppendProperties DEF Call
  <2> QED
    BY <1>15, <2>2 DEF Call
<1>16. ASSUME Return, mode = "run" PROVE TypeOK'
  <2>1. CASE Callers = <<>>
    BY <1>16, <2>1, EmptySeq DEF Return
  <2>2. CASE Callers # <<>>
    BY <1>2, <1>16, <2>2, CallerType, FrameTypes DEF Return
  <2> QED
    BY <2>1, <2>2
<1>17. CASE Fault
  BY <1>3, <1>17, Operands DEF Fault, Running
<1>18. CASE Throw
  <2>1. [Top EXCEPT !.exn = Instr(Top).exn] \in Frames
    BY <1>2, <1>3, <1>18, Operands, FrameTypes DEF Throw, Running
  <2> QED
    BY <1>2, <1>18, <2>1, AdvanceType DEF Throw, Running
<1>19. CASE Rethrow
  BY <1>19, CodesAssumption DEF Rethrow, Running
<1>20. CASE EnterHandler
  <2>1. Raised \in Exceptions /\ Pop(Top.tries) \in Seq(Labels)
    BY <1>2, <1>20, RaisedType, PopType DEF EnterHandler, Frames
  <2>2. [Top EXCEPT !.exn = Raised, !.tries = Pop(Top.tries)] \in Frames
    BY <1>2, <1>20, <2>1, TopType DEF EnterHandler
  <2>3. GoTo([Top EXCEPT !.exn = Raised, !.tries = Pop(Top.tries)],
             Top.tries[Len(Top.tries)]) \in Frames
    BY <2>2, FrameTypes
  <2> QED
    BY <1>2, <1>20, <2>3, AdvanceType DEF EnterHandler
<1>21. CASE PropagateToCall
  <2>1. Raised \in Exceptions /\ Callers[Len(Callers)] \in Frames
    BY <1>2, <1>21, RaisedType, CallerType DEF PropagateToCall, Fails
  <2>2. [Callers[Len(Callers)] EXCEPT !.exn = Raised] \in Frames
    BY <2>1, FrameTypes
  <2>3. frames' \in Seq(Frames) /\ frames' # <<>>
    BY <1>2, <1>21, <2>2, CallerType DEF PropagateToCall, Fails
  <2> QED
    BY <1>21, <2>3 DEF PropagateToCall, Fails
<1>22. CASE PropagateToCallback
  BY <1>2, <1>22, RaisedType, CallerType DEF PropagateToCallback, Fails
<1>23. CASE LeaveMain
  BY <1>2, <1>23, RaisedType, EmptySeq DEF LeaveMain, Fails
<1> QED
  BY <1>1, <1>4, <1>5, <1>6, <1>7, <1>8, <1>9, <1>10, <1>11, <1>12, <1>13, <1>14,
     <1>15, <1>16, <1>17, <1>18, <1>19, <1>20, <1>21, <1>22, <1>23
     DEF Next, Ret, RunOff, Running

\* The interpreter's state stays well formed whatever code it is given: labels
\* that exist nowhere, a block that ends in nothing, an unbalanced pop_handler.
THEOREM TypeCorrect == Spec => []TypeOK
BY InitType, NextType, PTL DEF Spec

-----------------------------------------------------------------------------
\* The steps that take the machine out of the raise mode clear the slot, and
\* the only steps that fill it enter that mode.
THEOREM SlotClear == Spec => []ErrorSlotClear
<1> USE DEF ErrorSlotClear
<1>1. Init => ErrorSlotClear
  BY DEF Init
<1>2. ErrorSlotClear /\ [Next]_vars => ErrorSlotClear'
  BY DEF vars, Next, PushHandler, PopHandler, GetException, ExceptionIs, Eval,
         UnknownExpr, Nop, Mark, Jump, BranchIf, FallThrough, Call, Ret, RunOff,
         Return, Fault, Throw, Rethrow, EnterHandler, PropagateToCall,
         PropagateToCallback, LeaveMain, Fails, Running, Advance
<1> QED
  BY <1>1, <1>2, PTL DEF Spec
=============================================================================
