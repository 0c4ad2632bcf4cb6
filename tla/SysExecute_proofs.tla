------------------------- MODULE SysExecute_proofs -------------------------
(***************************************************************************)
(* For every size of a pipe and of a read, every input and output, every   *)
(* program and every failing system call: no descriptor outlives the call, *)
(* and unless a read or write of the stream fails, a result holds all the  *)
(* output and a child that reads to the end has read all of its input.     *)
(***************************************************************************)
EXTENDS SysExecute, TLAPS

\* The order in which the pipes are made tells them apart.
LEMMA OrderIsOne ==
    \A p, q \in Pipes : Order[p] \in 1..4 /\ (Order[p] = Order[q] => p = q)
BY DEF Order, Pipes, Streams

\* The pipes of a call are pipes.
LEMMA UsedPipes == IInv => Used \subseteq Pipes
BY DEF IInv, TypeOK, Calls, Used, Pipes

\* When the last pipe is made the parent holds both ends of every pipe of the call.
LEMMA AllMade == IInv /\ PipesMade => mine = Ends(Used)
<1> SUFFICES ASSUME IInv, PipesMade PROVE mine = Ends(Used)
  OBVIOUS
<1>1. mine \subseteq Ends(Used)
  BY DEF IInv, MineInOrder, PipesMade
<1>2. ASSUME NEW p \in Used PROVE Ends({p}) \subseteq mine
  <2>1. Order[p] <= Order[p]
    BY OrderIsOne, UsedPipes
  <2> QED
    BY <2>1 DEF IInv, MineInOrder, PipesMade
<1> QED
  BY <1>1, <1>2 DEF Ends

\* A pipe is made after those before it, so the pipes stay made in order.
LEMMA MadeNextInOrder ==
  ASSUME IInv, NEW p \in Pipes, MakePipe(p)
  PROVE  MineInOrder'
<1>1. mine' = mine \cup Ends({p}) /\ pc = "start" /\ p \in Used
  BY DEF MakePipe, MakesNext
<1>2. mine' \subseteq Ends(Used)
  BY <1>1 DEF IInv, MineInOrder, Ends
<1>3. ASSUME NEW a \in Used, NEW b \in Used, NEW e \in {"r", "w"},
             <<a, e>> \in mine', Order[b] <= Order[a]
      PROVE  Ends({b}) \subseteq mine'
  <2>1. CASE <<a, e>> \in mine
    BY <1>1, <1>3, <2>1 DEF IInv, MineInOrder, Ends
  <2>2. CASE <<a, e>> \notin mine
    <3>1. a = p
      BY <1>1, <1>3, <2>2 DEF Ends
    <3>2. CASE b = p
      BY <3>2, <1>1
    <3>3. CASE b # p
      <4>1. Order[b] < Order[p] /\ Order[b] <= Order[b]
        BY <1>3, <3>1, <3>3, OrderIsOne, UsedPipes
      <4>2. <<b, "r">> \in mine
        BY <4>1 DEF MakePipe, MakesNext
      <4> QED
        BY <1>1, <4>1, <4>2 DEF IInv, MineInOrder, Ends
    <3> QED
      BY <3>2, <3>3
  <2> QED
    BY <2>1, <2>2
<1> QED
  BY <1>2, <1>3 DEF MineInOrder, MakePipe, MakesNext, Used

\* The pipes made before the one that fails are all there are: its error path closes them.
LEMMA FailedPipeClosesAll ==
  ASSUME IInv, NEW p \in Pipes, PipeFails(p)
  PROVE  mine' = {}
<1> SUFFICES ASSUME NEW fd \in mine' PROVE FALSE
  OBVIOUS
<1>1. fd \in mine /\ fd \notin Ends({q \in Used : Order[q] < Order[p]})
  BY DEF PipeFails, GiveUp
<1>2. PICK q \in Used, e \in {"r", "w"} : fd = <<q, e>>
  BY <1>1 DEF IInv, MineInOrder, PipeFails, MakesNext, Ends
<1>3. ~(Order[p] <= Order[q])
  BY <1>1, <1>2 DEF IInv, MineInOrder, PipeFails, MakesNext, Ends
<1>4. Order[q] < Order[p]
  BY <1>3, OrderIsOne, UsedPipes
<1> QED
  BY <1>1, <1>2, <1>4 DEF Ends

\* Without the ends it gives the child the parent holds the other end of each pipe.
LEMMA ParentKeepsItsEnds ==
  ASSUME IInv, CloseChildEnds
  PROVE  MineByPlace'
<1>1. mine = Ends(Used)
  BY DEF IInv, MineByPlace, CloseChildEnds
<1>2. call.capture \subseteq {"out", "err"}
  BY DEF IInv, TypeOK, Calls, Streams
<1>3. ASSUME NEW fd
      PROVE  fd \in mine' <=> fd \in ParentEnds({"exec", "in"} \cup call.capture)
  <2>1. CASE \E s, e : fd = <<s, e>>
    <3> PICK s, e : fd = <<s, e>>
      BY <2>1
    <3> QED
      BY <1>1, <1>2 DEF CloseChildEnds, Ends, Used, ChildEnds, ParentEnds, ParentEnd
  <2>2. CASE ~\E s, e : fd = <<s, e>>
    BY <1>1, <2>2 DEF CloseChildEnds, Ends, ParentEnds, ParentEnd
  <2> QED
    BY <2>1, <2>2
<1> QED
  BY <1>3 DEF MineByPlace, CloseChildEnds, LoopPcs, Over

\* The call starts with no pipe, no child and nothing sent.
LEMMA InitIInv == Init => IInv
<1> SUFFICES ASSUME Init PROVE IInv
  OBVIOUS
<1>1. TypeOK
  <2>1. call.input \in Nat /\ 0 \in 0..call.input
    BY SysAssumption DEF Init, Calls
  <2>2. 0 \in 0..PipeCap
    BY SysAssumption
  <2> QED
    BY <2>1, <2>2 DEF Init, TypeOK
<1>2. MineInOrder /\ MineByPlace /\ TheirsByPlace
  BY DEF Init, MineInOrder, MineByPlace, TheirsByPlace, Pipes, Streams, LoopPcs, Over
<1>3. OutputKept /\ InputKept /\ InputComplete
  BY DEF Init, OutputKept, InputKept, InputComplete, Pipes, Streams, LoopPcs
<1> QED
  BY <1>1, <1>2, <1>3 DEF IInv

\* The steps of the parent before the loop keep the invariant.
LEMMA BeforeTheLoop ==
  ASSUME IInv,
         \/ \E p \in Pipes : MakePipe(p)
         \/ \E p \in Pipes : PipeFails(p)
         \/ Fork
         \/ ForkFails
         \/ CloseChildEnds
         \/ ExecFailed
         \/ StartLoop
         \/ NoLoop
  PROVE  IInv'
<1> USE SysAssumption
    DEF vars, parentVars, childVars, IInv, Used, Pipes, Streams, Calls, Fds,
        LoopPcs, Over, Ends, ParentEnds, ParentEnd, ChildEnds, HasReader,
        HasWriter
<1>1. ASSUME NEW p \in Pipes, MakePipe(p) PROVE IInv'
  <2>1. TypeOK'
    BY <1>1 DEF MakePipe, MakesNext, TypeOK
  <2>2. MineInOrder'
    BY <1>1, MadeNextInOrder DEF MakePipe, MakesNext, MineInOrder
  <2>3. MineByPlace'
    BY <1>1 DEF MakePipe, MakesNext, MineByPlace
  <2>4. TheirsByPlace' /\ OutputKept' /\ InputKept' /\ InputComplete'
    BY <1>1 DEF MakePipe, MakesNext, TheirsByPlace, OutputKept, InputKept,
       InputComplete
  <2> QED
    BY <2>1, <2>2, <2>3, <2>4
<1>2. ASSUME NEW p \in Pipes, PipeFails(p) PROVE IInv'
  <2>1. TypeOK'
    BY <1>2 DEF PipeFails, MakesNext, GiveUp, TypeOK
  <2>2. MineInOrder'
    BY <1>2 DEF PipeFails, MakesNext, GiveUp, MineInOrder
  <2>3. MineByPlace'
    BY <1>2, FailedPipeClosesAll DEF PipeFails, MakesNext, GiveUp, MineByPlace
  <2>4. TheirsByPlace'
    BY <1>2 DEF PipeFails, MakesNext, GiveUp, TheirsByPlace
  <2>5. OutputKept'
    BY <1>2 DEF PipeFails, MakesNext, GiveUp, OutputKept
  <2>6. InputKept'
    BY <1>2 DEF PipeFails, MakesNext, GiveUp, InputKept
  <2>7. InputComplete'
    BY <1>2 DEF PipeFails, MakesNext, GiveUp, InputComplete
  <2> QED
    BY <2>1, <2>2, <2>3, <2>4, <2>5, <2>6, <2>7
<1>3. ASSUME Fork PROVE IInv'
  <2>1. TypeOK'
    BY <1>3 DEF Fork, PipesMade, TypeOK
  <2>2. MineInOrder'
    BY <1>3 DEF Fork, PipesMade, MineInOrder
  <2>3. MineByPlace'
    BY <1>3, AllMade DEF Fork, PipesMade, MineByPlace
  <2>4. TheirsByPlace'
    BY <1>3, AllMade DEF Fork, PipesMade, TheirsByPlace
  <2>5. OutputKept'
    BY <1>3 DEF Fork, PipesMade, OutputKept
  <2>6. InputKept'
    BY <1>3 DEF Fork, PipesMade, InputKept
  <2>7. InputComplete'
    BY <1>3 DEF Fork, PipesMade, InputComplete
  <2> QED
    BY <2>1, <2>2, <2>3, <2>4, <2>5, <2>6, <2>7
<1>4. ASSUME ForkFails PROVE IInv'
  <2>1. TypeOK'
    BY <1>4 DEF ForkFails, PipesMade, GiveUp, TypeOK
  <2>2. MineInOrder'
    BY <1>4 DEF ForkFails, PipesMade, GiveUp, MineInOrder
  <2>3. MineByPlace'
    BY <1>4 DEF ForkFails, PipesMade, GiveUp, MineByPlace, TypeOK, MineInOrder,
       TheirsByPlace, OutputKept, InputKept, InputComplete
  <2>4. TheirsByPlace'
    BY <1>4 DEF ForkFails, PipesMade, GiveUp, TheirsByPlace
  <2>5. OutputKept'
    BY <1>4 DEF ForkFails, PipesMade, GiveUp, OutputKept
  <2>6. InputKept'
    BY <1>4 DEF ForkFails, PipesMade, GiveUp, InputKept
  <2>7. InputComplete'
    BY <1>4 DEF ForkFails, PipesMade, GiveUp, InputComplete
  <2> QED
    BY <2>1, <2>2, <2>3, <2>4, <2>5, <2>6, <2>7
<1>5. ASSUME CloseChildEnds PROVE IInv'
  <2>1. TypeOK'
    BY <1>5 DEF CloseChildEnds, TypeOK
  <2>2. MineInOrder'
    BY <1>5 DEF CloseChildEnds, MineInOrder
  <2>3. MineByPlace'
    BY <1>5, ParentKeepsItsEnds DEF CloseChildEnds, MineByPlace
  <2>4. TheirsByPlace'
    BY <1>5 DEF CloseChildEnds, TheirsByPlace
  <2>5. OutputKept'
    BY <1>5 DEF CloseChildEnds, OutputKept
  <2>6. InputKept'
    BY <1>5 DEF CloseChildEnds, InputKept
  <2>7. InputComplete'
    BY <1>5 DEF CloseChildEnds, InputComplete
  <2> QED
    BY <2>1, <2>2, <2>3, <2>4, <2>5, <2>6, <2>7
<1>6. ASSUME ExecFailed PROVE IInv'
  <2>1. TypeOK'
    BY <1>6 DEF ExecFailed, TypeOK
  <2>2. MineInOrder'
    BY <1>6 DEF ExecFailed, MineInOrder
  <2>3. MineByPlace'
    BY <1>6 DEF ExecFailed, MineByPlace
  <2>4. TheirsByPlace'
    BY <1>6 DEF ExecFailed, TheirsByPlace
  <2>5. OutputKept'
    BY <1>6 DEF ExecFailed, OutputKept
  <2>6. InputKept'
    BY <1>6 DEF ExecFailed, InputKept
  <2>7. InputComplete'
    BY <1>6 DEF ExecFailed, InputComplete
  <2> QED
    BY <2>1, <2>2, <2>3, <2>4, <2>5, <2>6, <2>7
<1>7. ASSUME StartLoop PROVE IInv'
  <2>1. TypeOK'
    BY <1>7 DEF StartLoop, ExecRead, TypeOK
  <2>2. MineInOrder'
    BY <1>7 DEF StartLoop, ExecRead, MineInOrder
  <2>3. MineByPlace'
    BY <1>7 DEF StartLoop, ExecRead, MineByPlace, TypeOK
  <2>4. TheirsByPlace'
    BY <1>7 DEF StartLoop, ExecRead, TheirsByPlace
  <2>5. OutputKept'
    BY <1>7 DEF StartLoop, ExecRead, OutputKept
  <2>6. InputKept'
    BY <1>7 DEF StartLoop, ExecRead, InputKept, TypeOK
  <2>7. InputComplete'
    BY <1>7 DEF StartLoop, ExecRead, InputComplete
  <2> QED
    BY <2>1, <2>2, <2>3, <2>4, <2>5, <2>6, <2>7
<1>8. ASSUME NoLoop PROVE IInv'
  <2>1. TypeOK'
    BY <1>8 DEF NoLoop, ExecRead, GiveUp, TypeOK
  <2>2. MineInOrder'
    BY <1>8 DEF NoLoop, ExecRead, GiveUp, MineInOrder
  <2>3. MineByPlace'
    BY <1>8 DEF NoLoop, ExecRead, GiveUp, MineByPlace
  <2>4. TheirsByPlace'
    BY <1>8 DEF NoLoop, ExecRead, GiveUp, TheirsByPlace
  <2>5. OutputKept'
    BY <1>8 DEF NoLoop, ExecRead, GiveUp, OutputKept
  <2>6. InputKept'
    BY <1>8 DEF NoLoop, ExecRead, GiveUp, InputKept
  <2>7. InputComplete'
    BY <1>8 DEF NoLoop, ExecRead, GiveUp, InputComplete
  <2> QED
    BY <2>1, <2>2, <2>3, <2>4, <2>5, <2>6, <2>7
<1> QED
  BY <1>1, <1>2, <1>3, <1>4, <1>5, <1>6, <1>7, <1>8

\* The steps of the loop, and the wait behind it, keep the invariant.
LEMMA InTheLoop ==
  ASSUME IInv,
         \/ Poll
         \/ PollFails
         \/ LeaveLoop
         \/ \E s \in Streams \cup {"in"} : Skip(s)
         \/ \E n \in 1..PipeCap : WriteInput(n)
         \/ WriteBroken
         \/ \E s \in Streams : Read(s)
         \/ \E s \in Streams : EventFails(s)
         \/ \E s \in Streams : ReadEnd(s)
         \/ \E s \in Streams \cup {"in"} : MovesNothing(s)
         \/ \E s \in Streams \cup {"in"} : TransferFails(s)
         \/ Reap
  PROVE  IInv'
<1> USE SysAssumption
    DEF vars, parentVars, childVars, IInv, Used, Pipes, Streams, Calls, Fds,
        LoopPcs, Over, Ends, ParentEnds, ParentEnd, ChildEnds, HasReader,
        HasWriter
<1>1. ASSUME Poll PROVE IInv'
  <2>1. TypeOK'
    BY <1>1 DEF Poll, Polled, HasEvent, TypeOK
  <2>2. MineInOrder'
    BY <1>1 DEF Poll, Polled, HasEvent, MineInOrder
  <2>3. MineByPlace'
    BY <1>1 DEF Poll, Polled, HasEvent, MineByPlace
  <2>4. TheirsByPlace'
    BY <1>1 DEF Poll, Polled, HasEvent, TheirsByPlace
  <2>5. OutputKept'
    BY <1>1 DEF Poll, Polled, HasEvent, OutputKept
  <2>6. InputKept'
    BY <1>1 DEF Poll, Polled, HasEvent, InputKept
  <2>7. InputComplete'
    BY <1>1 DEF Poll, Polled, HasEvent, InputComplete
  <2> QED
    BY <2>1, <2>2, <2>3, <2>4, <2>5, <2>6, <2>7
<1>2. ASSUME PollFails PROVE IInv'
  <2>1. TypeOK'
    BY <1>2 DEF PollFails, GiveUp, TypeOK
  <2>2. MineInOrder'
    BY <1>2 DEF PollFails, GiveUp, MineInOrder
  <2>3. MineByPlace'
    BY <1>2 DEF PollFails, GiveUp, MineByPlace
  <2>4. TheirsByPlace'
    BY <1>2 DEF PollFails, GiveUp, TheirsByPlace
  <2>5. OutputKept'
    BY <1>2 DEF PollFails, GiveUp, OutputKept
  <2>6. InputKept'
    BY <1>2 DEF PollFails, GiveUp, InputKept
  <2>7. InputComplete'
    BY <1>2 DEF PollFails, GiveUp, InputComplete
  <2> QED
    BY <2>1, <2>2, <2>3, <2>4, <2>5, <2>6, <2>7
<1>3. ASSUME LeaveLoop PROVE IInv'
  <2>1. TypeOK'
    BY <1>3 DEF LeaveLoop, Polled, TypeOK
  <2>2. MineInOrder'
    BY <1>3 DEF LeaveLoop, Polled, MineInOrder
  <2>3. MineByPlace'
    BY <1>3 DEF LeaveLoop, Polled, MineByPlace, TypeOK, MineInOrder, TheirsByPlace,
       OutputKept, InputKept, InputComplete
  <2>4. TheirsByPlace'
    BY <1>3 DEF LeaveLoop, Polled, TheirsByPlace
  <2>5. OutputKept'
    BY <1>3 DEF LeaveLoop, Polled, OutputKept
  <2>6. InputKept'
    BY <1>3 DEF LeaveLoop, Polled, InputKept
  <2>7. InputComplete'
    BY <1>3 DEF LeaveLoop, Polled, InputComplete
  <2> QED
    BY <2>1, <2>2, <2>3, <2>4, <2>5, <2>6, <2>7
<1>4. ASSUME NEW s \in Streams \cup {"in"}, Skip(s) PROVE IInv'
  <2>1. TypeOK'
    BY <1>4 DEF Skip, Turn, Follows, TypeOK
  <2>2. MineInOrder'
    BY <1>4 DEF Skip, Turn, Follows, MineInOrder
  <2>3. MineByPlace'
    BY <1>4 DEF Skip, Turn, Follows, MineByPlace
  <2>4. TheirsByPlace'
    BY <1>4 DEF Skip, Turn, Follows, TheirsByPlace
  <2>5. OutputKept'
    BY <1>4 DEF Skip, Turn, Follows, OutputKept
  <2>6. InputKept'
    BY <1>4 DEF Skip, Turn, Follows, InputKept
  <2>7. InputComplete'
    BY <1>4 DEF Skip, Turn, Follows, InputComplete
  <2> QED
    BY <2>1, <2>2, <2>3, <2>4, <2>5, <2>6, <2>7
<1>5. ASSUME NEW n \in 1..PipeCap, WriteInput(n) PROVE IInv'
  <2>1. TypeOK'
    BY <1>5 DEF WriteInput, At, Turn, Follows, CloseStream, TypeOK
  <2>2. MineInOrder'
    BY <1>5 DEF WriteInput, At, Turn, Follows, CloseStream, MineInOrder
  <2>3. MineByPlace'
    BY <1>5 DEF WriteInput, At, Turn, Follows, CloseStream, MineByPlace
  <2>4. TheirsByPlace'
    BY <1>5 DEF WriteInput, At, Turn, Follows, CloseStream, TheirsByPlace
  <2>5. OutputKept'
    BY <1>5 DEF WriteInput, At, Turn, Follows, CloseStream, OutputKept, TypeOK
  <2>6. InputKept'
    BY <1>5 DEF WriteInput, At, Turn, Follows, CloseStream, InputKept, TypeOK
  <2>7. InputComplete'
    BY <1>5 DEF WriteInput, At, Turn, Follows, CloseStream, InputComplete
  <2> QED
    BY <2>1, <2>2, <2>3, <2>4, <2>5, <2>6, <2>7
<1>6. ASSUME WriteBroken PROVE IInv'
  <2>1. TypeOK'
    BY <1>6 DEF WriteBroken, At, Turn, Follows, CloseStream, TypeOK
  <2>2. MineInOrder'
    BY <1>6 DEF WriteBroken, At, Turn, Follows, CloseStream, MineInOrder
  <2>3. MineByPlace'
    BY <1>6 DEF WriteBroken, At, Turn, Follows, CloseStream, MineByPlace
  <2>4. TheirsByPlace'
    BY <1>6 DEF WriteBroken, At, Turn, Follows, CloseStream, TheirsByPlace
  <2>5. OutputKept'
    BY <1>6 DEF WriteBroken, At, Turn, Follows, CloseStream, OutputKept, TypeOK
  <2>6. InputKept'
    BY <1>6 DEF WriteBroken, At, Turn, Follows, CloseStream, InputKept
  <2>7. InputComplete'
    BY <1>6 DEF WriteBroken, At, Turn, Follows, CloseStream, InputComplete
  <2> QED
    BY <2>1, <2>2, <2>3, <2>4, <2>5, <2>6, <2>7
<1>7. ASSUME NEW s \in Streams, Read(s) PROVE IInv'
  <2>1. TypeOK'
    BY <1>7 DEF Read, At, Turn, Follows, TypeOK
  <2>2. MineInOrder'
    BY <1>7 DEF Read, At, Turn, Follows, MineInOrder
  <2>3. MineByPlace'
    BY <1>7 DEF Read, At, Turn, Follows, MineByPlace
  <2>4. TheirsByPlace'
    BY <1>7 DEF Read, At, Turn, Follows, TheirsByPlace
  <2>5. OutputKept'
    BY <1>7 DEF Read, At, Turn, Follows, OutputKept, TypeOK
  <2>6. InputKept'
    BY <1>7 DEF Read, At, Turn, Follows, InputKept
  <2>7. InputComplete'
    BY <1>7 DEF Read, At, Turn, Follows, InputComplete
  <2> QED
    BY <2>1, <2>2, <2>3, <2>4, <2>5, <2>6, <2>7
<1>8. ASSUME NEW s \in Streams, EventFails(s) PROVE IInv'
  <2>1. TypeOK'
    BY <1>8 DEF EventFails, At, GiveUp, TypeOK
  <2>2. MineInOrder'
    BY <1>8 DEF EventFails, At, GiveUp, MineInOrder
  <2>3. MineByPlace'
    BY <1>8 DEF EventFails, At, GiveUp, MineByPlace
  <2>4. TheirsByPlace'
    BY <1>8 DEF EventFails, At, GiveUp, TheirsByPlace
  <2>5. OutputKept'
    BY <1>8 DEF EventFails, At, GiveUp, OutputKept
  <2>6. InputKept'
    BY <1>8 DEF EventFails, At, GiveUp, InputKept
  <2>7. InputComplete'
    BY <1>8 DEF EventFails, At, GiveUp, InputComplete
  <2> QED
    BY <2>1, <2>2, <2>3, <2>4, <2>5, <2>6, <2>7
<1>9. ASSUME NEW s \in Streams, ReadEnd(s) PROVE IInv'
  <2>1. TypeOK'
    BY <1>9 DEF ReadEnd, At, Turn, Follows, CloseStream, TypeOK
  <2>2. MineInOrder'
    BY <1>9 DEF ReadEnd, At, Turn, Follows, CloseStream, MineInOrder
  <2>3. MineByPlace'
    BY <1>9 DEF ReadEnd, At, Turn, Follows, CloseStream, MineByPlace
  <2>4. TheirsByPlace'
    BY <1>9 DEF ReadEnd, At, Turn, Follows, CloseStream, TheirsByPlace
  <2>5. OutputKept'
    BY <1>9 DEF ReadEnd, At, Turn, Follows, CloseStream, OutputKept
  <2>6. InputKept'
    BY <1>9 DEF ReadEnd, At, Turn, Follows, CloseStream, InputKept
  <2>7. InputComplete'
    BY <1>9 DEF ReadEnd, At, Turn, Follows, CloseStream, InputComplete
  <2> QED
    BY <2>1, <2>2, <2>3, <2>4, <2>5, <2>6, <2>7
<1>10. ASSUME Reap PROVE IInv'
  <2>1. TypeOK'
    BY <1>10 DEF Reap, TypeOK
  <2>2. MineInOrder'
    BY <1>10 DEF Reap, MineInOrder
  <2>3. MineByPlace'
    BY <1>10 DEF Reap, MineByPlace
  <2>4. TheirsByPlace'
    BY <1>10 DEF Reap, TheirsByPlace
  <2>5. OutputKept'
    BY <1>10 DEF Reap, OutputKept
  <2>6. InputKept'
    BY <1>10 DEF Reap, InputKept
  <2>7. InputComplete'
    BY <1>10 DEF Reap, InputComplete
  <2> QED
    BY <2>1, <2>2, <2>3, <2>4, <2>5, <2>6, <2>7
<1>11. ASSUME NEW s \in Streams \cup {"in"}, MovesNothing(s) PROVE IInv'
  <2>1. TypeOK'
    BY <1>11 DEF MovesNothing, Transfers, At, Turn, Follows, TypeOK
  <2>2. MineInOrder'
    BY <1>11 DEF MovesNothing, Transfers, At, Turn, Follows, MineInOrder
  <2>3. MineByPlace'
    BY <1>11 DEF MovesNothing, Transfers, At, Turn, Follows, MineByPlace
  <2>4. TheirsByPlace'
    BY <1>11 DEF MovesNothing, Transfers, At, Turn, Follows, TheirsByPlace
  <2>5. OutputKept'
    BY <1>11 DEF MovesNothing, Transfers, At, Turn, Follows, OutputKept, TypeOK
  <2>6. InputKept'
    BY <1>11 DEF MovesNothing, Transfers, At, Turn, Follows, InputKept, TypeOK
  <2>7. InputComplete'
    BY <1>11 DEF MovesNothing, Transfers, At, Turn, Follows, InputComplete
  <2> QED
    BY <2>1, <2>2, <2>3, <2>4, <2>5, <2>6, <2>7
<1>12. ASSUME NEW s \in Streams \cup {"in"}, TransferFails(s) PROVE IInv'
  <2>1. TypeOK'
    BY <1>12 DEF TransferFails, Transfers, At, Turn, Follows, CloseStream, TypeOK
  <2>2. MineInOrder'
    BY <1>12 DEF TransferFails, Transfers, At, Turn, Follows, CloseStream, MineInOrder
  <2>3. MineByPlace'
    BY <1>12 DEF TransferFails, Transfers, At, Turn, Follows, CloseStream, MineByPlace
  <2>4. TheirsByPlace'
    BY <1>12 DEF TransferFails, Transfers, At, Turn, Follows, CloseStream, TheirsByPlace
  <2>5. OutputKept'
    BY <1>12 DEF TransferFails, Transfers, At, Turn, Follows, CloseStream, OutputKept, TypeOK
  <2>6. InputKept'
    BY <1>12 DEF TransferFails, Transfers, At, Turn, Follows, CloseStream, InputKept, TypeOK
  <2>7. InputComplete'
    BY <1>12 DEF TransferFails, Transfers, At, Turn, Follows, CloseStream, InputComplete
  <2> QED
    BY <2>1, <2>2, <2>3, <2>4, <2>5, <2>6, <2>7
<1> QED
  BY <1>1, <1>2, <1>3, <1>4, <1>5, <1>6, <1>7, <1>8, <1>9, <1>10, <1>11, <1>12

\* The steps of the child keep the invariant, whatever the parent is at.
LEMMA TheChild ==
  ASSUME IInv,
         \/ ChildExecs
         \/ ChildExecFails
         \/ ChildSetupFails
         \/ ChildReads
         \/ \E n \in 1..PipeCap : ChildGets(n)
         \/ ChildGetsEnd
         \/ \E s \in Streams : ChildWrites(s)
         \/ \E s \in Streams : ChildPuts(s)
         \/ \E s \in Streams : ChildBroken(s)
         \/ \E p \in Streams \cup {"in"} : ChildCloses(p)
         \/ ChildExits
  PROVE  IInv'
<1> USE SysAssumption
    DEF vars, parentVars, childVars, IInv, Used, Pipes, Streams, Calls, Fds,
        LoopPcs, Over, Ends, ParentEnds, ParentEnd, ChildEnds, HasReader,
        HasWriter
<1>1. ASSUME ChildExecs PROVE IInv'
  <2>1. TypeOK'
    BY <1>1 DEF ChildExecs, TypeOK
  <2>2. TheirsByPlace'
    BY <1>1 DEF ChildExecs, TheirsByPlace
  <2>3. OutputKept'
    BY <1>1 DEF ChildExecs, OutputKept, TypeOK, MineByPlace, TheirsByPlace
  <2>4. InputKept'
    BY <1>1 DEF ChildExecs, InputKept, TypeOK, MineByPlace, TheirsByPlace
  <2>5. MineInOrder' /\ MineByPlace' /\ InputComplete'
    BY <1>1 DEF ChildExecs, MineInOrder, MineByPlace, InputComplete
  <2> QED
    BY <2>1, <2>2, <2>3, <2>4, <2>5
<1>2. ASSUME ChildExecFails PROVE IInv'
  <2>1. TypeOK'
    BY <1>2 DEF ChildExecFails, Leaves, TypeOK
  <2>2. TheirsByPlace'
    BY <1>2 DEF ChildExecFails, Leaves, TheirsByPlace
  <2>3. OutputKept'
    BY <1>2 DEF ChildExecFails, Leaves, OutputKept, TypeOK
  <2>4. InputKept'
    BY <1>2 DEF ChildExecFails, Leaves, InputKept
  <2>5. MineInOrder' /\ MineByPlace' /\ InputComplete'
    BY <1>2 DEF ChildExecFails, Leaves, MineInOrder, MineByPlace, InputComplete
  <2> QED
    BY <2>1, <2>2, <2>3, <2>4, <2>5
<1>3. ASSUME ChildSetupFails PROVE IInv'
  <2>1. TypeOK'
    BY <1>3 DEF ChildSetupFails, Leaves, TypeOK
  <2>2. TheirsByPlace'
    BY <1>3 DEF ChildSetupFails, Leaves, TheirsByPlace
  <2>3. OutputKept'
    BY <1>3 DEF ChildSetupFails, Leaves, OutputKept
  <2>4. InputKept'
    BY <1>3 DEF ChildSetupFails, Leaves, InputKept
  <2>5. MineInOrder' /\ MineByPlace' /\ InputComplete'
    BY <1>3 DEF ChildSetupFails, Leaves, MineInOrder, MineByPlace, InputComplete
  <2> QED
    BY <2>1, <2>2, <2>3, <2>4, <2>5
<1>4. ASSUME ChildReads PROVE IInv'
  <2>1. TypeOK'
    BY <1>4 DEF ChildReads, Starts, Runs, TypeOK
  <2>2. TheirsByPlace'
    BY <1>4 DEF ChildReads, Starts, Runs, TheirsByPlace
  <2>3. MineInOrder' /\ MineByPlace' /\ OutputKept' /\ InputKept' /\ InputComplete'
    BY <1>4 DEF ChildReads, Starts, Runs, MineInOrder, MineByPlace, OutputKept,
       InputKept, InputComplete
  <2> QED
    BY <2>1, <2>2, <2>3
<1>5. ASSUME NEW n \in 1..PipeCap, ChildGets(n) PROVE IInv'
  <2>1. TypeOK'
    BY <1>5 DEF ChildGets, TypeOK, MineInOrder, MineByPlace, TheirsByPlace,
       OutputKept, InputKept, InputComplete
  <2>2. TheirsByPlace'
    BY <1>5 DEF ChildGets, TheirsByPlace
  <2>3. OutputKept'
    BY <1>5 DEF ChildGets, OutputKept
  <2>4. InputKept'
    BY <1>5 DEF ChildGets, InputKept, TypeOK
  <2>5. InputComplete'
    BY <1>5 DEF ChildGets, InputComplete, TypeOK, MineInOrder, MineByPlace,
       TheirsByPlace, OutputKept, InputKept
  <2>6. MineInOrder' /\ MineByPlace'
    BY <1>5 DEF ChildGets, MineInOrder, MineByPlace
  <2> QED
    BY <2>1, <2>2, <2>3, <2>4, <2>5, <2>6
<1>6. ASSUME ChildGetsEnd PROVE IInv'
  <2>1. TypeOK'
    BY <1>6 DEF ChildGetsEnd, TypeOK
  <2>2. TheirsByPlace'
    BY <1>6 DEF ChildGetsEnd, TheirsByPlace
  <2>3. InputComplete'
    BY <1>6 DEF ChildGetsEnd, InputComplete, TypeOK, MineInOrder, MineByPlace,
       TheirsByPlace, OutputKept, InputKept
  <2>4. MineInOrder' /\ MineByPlace' /\ OutputKept' /\ InputKept'
    BY <1>6 DEF ChildGetsEnd, MineInOrder, MineByPlace, OutputKept, InputKept
  <2> QED
    BY <2>1, <2>2, <2>3, <2>4
<1>7. ASSUME NEW s \in Streams, ChildWrites(s) PROVE IInv'
  <2>1. TypeOK'
    BY <1>7 DEF ChildWrites, Starts, Runs, TypeOK
  <2>2. TheirsByPlace'
    BY <1>7 DEF ChildWrites, Starts, Runs, TheirsByPlace
  <2>3. MineInOrder' /\ MineByPlace' /\ OutputKept' /\ InputKept' /\ InputComplete'
    BY <1>7 DEF ChildWrites, Starts, Runs, MineInOrder, MineByPlace, OutputKept,
       InputKept, InputComplete
  <2> QED
    BY <2>1, <2>2, <2>3
<1>8. ASSUME NEW s \in Streams, ChildPuts(s) PROVE IInv'
  <2>1. TypeOK'
    BY <1>8 DEF ChildPuts, TypeOK
  <2>2. TheirsByPlace'
    BY <1>8 DEF ChildPuts, TheirsByPlace
  <2>3. OutputKept'
    BY <1>8 DEF ChildPuts, OutputKept, TypeOK, MineByPlace, TheirsByPlace
  <2>4. InputKept'
    BY <1>8 DEF ChildPuts, InputKept
  <2>5. MineInOrder' /\ MineByPlace' /\ InputComplete'
    BY <1>8 DEF ChildPuts, MineInOrder, MineByPlace, InputComplete
  <2> QED
    BY <2>1, <2>2, <2>3, <2>4, <2>5
<1>9. ASSUME NEW s \in Streams, ChildBroken(s) PROVE IInv'
  <2>1. TypeOK'
    BY <1>9 DEF ChildBroken, Leaves, TypeOK
  <2>2. TheirsByPlace'
    BY <1>9 DEF ChildBroken, Leaves, TheirsByPlace
  <2>3. OutputKept'
    BY <1>9 DEF ChildBroken, Leaves, OutputKept
  <2>4. InputKept'
    BY <1>9 DEF ChildBroken, Leaves, InputKept
  <2>5. MineInOrder' /\ MineByPlace' /\ InputComplete'
    BY <1>9 DEF ChildBroken, Leaves, MineInOrder, MineByPlace, InputComplete
  <2> QED
    BY <2>1, <2>2, <2>3, <2>4, <2>5
<1>10. ASSUME NEW p \in Streams \cup {"in"}, ChildCloses(p) PROVE IInv'
  <2>1. TypeOK'
    BY <1>10 DEF ChildCloses, Runs, TypeOK
  <2>2. TheirsByPlace'
    BY <1>10 DEF ChildCloses, Runs, TheirsByPlace
  <2>3. OutputKept'
    BY <1>10 DEF ChildCloses, Runs, OutputKept
  <2>4. InputKept'
    BY <1>10 DEF ChildCloses, Runs, InputKept
  <2>5. MineInOrder' /\ MineByPlace' /\ InputComplete'
    BY <1>10 DEF ChildCloses, Runs, MineInOrder, MineByPlace, InputComplete
  <2> QED
    BY <2>1, <2>2, <2>3, <2>4, <2>5
<1>11. ASSUME ChildExits PROVE IInv'
  <2>1. TypeOK'
    BY <1>11 DEF ChildExits, Runs, Leaves, TypeOK
  <2>2. TheirsByPlace'
    BY <1>11 DEF ChildExits, Runs, Leaves, TheirsByPlace
  <2>3. OutputKept'
    BY <1>11 DEF ChildExits, Runs, Leaves, OutputKept
  <2>4. InputKept'
    BY <1>11 DEF ChildExits, Runs, Leaves, InputKept
  <2>5. MineInOrder' /\ MineByPlace' /\ InputComplete'
    BY <1>11 DEF ChildExits, Runs, Leaves, MineInOrder, MineByPlace, InputComplete
  <2> QED
    BY <2>1, <2>2, <2>3, <2>4, <2>5
<1> QED
  BY <1>1, <1>2, <1>3, <1>4, <1>5, <1>6, <1>7, <1>8, <1>9, <1>10, <1>11

\* A step that changes nothing keeps the invariant.
LEMMA Stutter == IInv /\ UNCHANGED vars => IInv'
BY DEF vars, parentVars, childVars, IInv, TypeOK, MineInOrder, MineByPlace, TheirsByPlace,
   OutputKept, InputKept, InputComplete, Used, Ends, ParentEnds, ParentEnd, ChildEnds,
   LoopPcs, Over, Calls

\* Each step of parent or child keeps the invariant.
LEMMA NextIInv == IInv /\ [Next]_vars => IInv'
<1> SUFFICES ASSUME IInv, [Next]_vars PROVE IInv'
  OBVIOUS
<1>1. CASE ParentNext
  BY <1>1, BeforeTheLoop, InTheLoop DEF ParentNext
<1>2. CASE ChildNext
  BY <1>2, TheChild DEF ChildNext
<1>3. CASE UNCHANGED vars
  BY <1>3, Stutter
<1> QED
  BY <1>1, <1>2, <1>3 DEF Next, Done

\* The invariant of the call: who holds which end of which pipe, and where every byte is.
THEOREM CallInvariant == Spec => []IInv
BY InitIInv, NextIInv, PTL DEF Spec

\* Every variable keeps its type: no pipe overflows and no more than the input is sent.
THEOREM CallTypes == Spec => []TypeOK
<1>1. IInv => TypeOK
  BY DEF IInv
<1> QED
  BY <1>1, CallInvariant, PTL

\* No path out of sys_execute leaves a descriptor of a pipe open.
THEOREM NoDescriptorLeaks == Spec => []DescriptorsClosed
<1>1. IInv => DescriptorsClosed
  BY DEF IInv, MineByPlace, DescriptorsClosed
<1> QED
  BY <1>1, CallInvariant, PTL

\* When sys_execute returns a result its events hold all that the child wrote to the
\* captured streams, unless a read of the stream failed.
THEOREM NoOutputLost == Spec => []OutputComplete
<1>1. IInv => OutputComplete
  <2> SUFFICES ASSUME IInv, pc = "returned", NEW s \in call.capture \ lost
               PROVE  captured[s] = wrote[s]
    BY DEF OutputComplete
  <2>1. s \in Streams
    BY DEF IInv, TypeOK, Calls
  <2>2. buf[s] = 0
    BY DEF IInv, MineByPlace, OutputKept
  <2> QED
    BY <2>1, <2>2 DEF IInv, TypeOK, OutputKept
<1> QED
  BY <1>1, CallInvariant, PTL

\* The end of its input reaches the child behind all of the input, unless a write of it
\* or the call failed.
THEOREM NoInputLost == Spec => []InputComplete
<1>1. IInv => InputComplete
  BY DEF IInv
<1> QED
  BY <1>1, CallInvariant, PTL
=============================================================================
