----------------------------- MODULE SysExecute -----------------------------
(***************************************************************************)
(* Sys.execute of c/modules/sys.c: the interpreter starts a program, feeds *)
(* it the input and drains its captured streams under one poll loop, and   *)
(* waits for it. Parent, child and pipes are processes and shared state:   *)
(* every system call of the parent is a step, and the child may do         *)
(* anything a program can do with its three streams between two of them.   *)
(*                                                                         *)
(* Bytes are counted, not kept. The kernel and the child are external: a   *)
(* pipe holds PipeCap bytes, a read of an empty pipe and a write to a full *)
(* one block the child, a write to a pipe nobody reads kills the writer    *)
(* unless it ignores SIGPIPE, poll reports POLLOUT for room, POLLIN and    *)
(* POLLHUP for bytes or no writer, and returns as well on the POLLERR of a *)
(* pipe without a reader.                                                  *)
(***************************************************************************)
EXTENDS Naturals

CONSTANTS PipeCap,       \* bytes a pipe holds
          Chunk,         \* bytes one read of the parent takes, buf[4096] in the code
          MaxInput,      \* bound: the longest input
          MaxOutput,     \* bound: bytes the child writes to a stream
          Dispositions,  \* whether the interpreter inherited SIGPIPE as ignored
          SystemFails    \* whether system calls and allocations may fail

ASSUME SysAssumption ==
    /\ PipeCap \in Nat \ {0}
    /\ Chunk \in Nat \ {0}
    /\ MaxInput \in Nat
    /\ MaxOutput \in Nat
    /\ Dispositions \subseteq BOOLEAN
    /\ SystemFails \in BOOLEAN

Streams == {"out", "err"}
Pipes   == Streams \cup {"in", "exec"}
Fds     == Pipes \X {"r", "w"}
Calls   == [input : 0..MaxInput, capture : SUBSET Streams, ignores : Dispositions]

VARIABLES call,      \* the arguments of the call, and the signal disposition
          pc,        \* where the parent is
          mine,      \* descriptors of the pipes the parent holds
          theirs,    \* descriptors of the pipes the child holds
          open,      \* stdin_open, stdout_open, stderr_open
          ready,     \* the revents of the last poll the loop looks for
          off,       \* input_off
          captured,  \* bytes of a stream in the list of events
          lost,      \* streams closed because a read or a write failed
          buf,       \* bytes in a pipe
          child,     \* none, forked, running, exited or reaped
          doing,     \* the stream the child is reading or writing, or free
          eof,       \* the child has read the end of its input
          hungup,    \* the child gave up its input before it could read the end
          ate,       \* bytes of input the child has read
          wrote      \* bytes of a stream the child has written

parentVars == <<pc, open, ready, off, captured, lost>>
childVars  == <<child, theirs, doing, eof, hungup, ate, wrote>>
vars == <<call, mine, buf, parentVars, childVars>>

(***************************************************************************)
(* The ends the two sides keep.                                            *)
(***************************************************************************)
Used        == {"in", "exec"} \cup call.capture
Ends(S)     == S \X {"r", "w"}
ParentEnd(s) == <<s, IF s = "in" THEN "w" ELSE "r">>
ParentEnds(S) == {ParentEnd(s) : s \in S}
ChildEnds   == {<<"in", "r">>} \cup {<<s, "w">> : s \in call.capture}
HasReader(p) == <<p, "r">> \in mine \cup theirs
HasWriter(p) == <<p, "w">> \in mine \cup theirs

Init ==
    /\ call \in Calls
    /\ pc = "start"
    /\ mine = {} /\ theirs = {}
    /\ open = {} /\ ready = {} /\ lost = {}
    /\ off = 0 /\ ate = 0
    /\ captured = [s \in Streams |-> 0] /\ wrote = [s \in Streams |-> 0]
    /\ buf = [p \in Pipes |-> 0]
    /\ child = "none" /\ doing = "free"
    /\ eof = FALSE /\ hungup = FALSE

(***************************************************************************)
(* The parent before the loop.                                             *)
(***************************************************************************)
Order == [p \in Pipes |-> CASE p = "in" -> 1 [] p = "out" -> 2 [] p = "err" -> 3 [] p = "exec" -> 4]

\* p is the pipe the code makes next.
MakesNext(p) ==
    /\ pc = "start"
    /\ p \in Used /\ <<p, "r">> \notin mine
    /\ \A q \in Used : Order[q] < Order[p] => <<q, "r">> \in mine

MakePipe(p) ==
    /\ MakesNext(p)
    /\ mine' = mine \cup Ends({p})
    /\ UNCHANGED <<call, buf, parentVars, childVars>>

\* An error path: it closes the descriptors fds and raises.
GiveUp(fds) ==
    /\ SystemFails
    /\ mine' = mine \ fds
    /\ pc' = "failed"
    /\ UNCHANGED <<call, buf, open, ready, off, captured, lost, childVars>>

\* Each failure closes the pipes made before the one that failed.
PipeFails(p) == MakesNext(p) /\ GiveUp(Ends({q \in Used : Order[q] < Order[p]}))

PipesMade == pc = "start" /\ \A p \in Used : <<p, "r">> \in mine

Fork ==
    /\ PipesMade
    /\ child' = "forked" /\ theirs' = mine
    /\ pc' = "parent"
    /\ UNCHANGED <<call, mine, buf, open, ready, off, captured, lost, doing, eof, hungup, ate, wrote>>

\* fcntl on the exec pipe and fork fail alike.
ForkFails == PipesMade /\ GiveUp(Ends({"exec", "in"} \cup call.capture))

CloseChildEnds ==
    /\ pc = "parent"
    /\ mine' = mine \ (ChildEnds \cup {<<"exec", "w">>})
    /\ pc' = "exec"
    /\ UNCHANGED <<call, buf, open, ready, off, captured, lost, childVars>>

\* read of the exec pipe returns: an errno, or the end when execve has closed it. An
\* error of the read itself passes for the end.
ExecFailed ==
    /\ pc = "exec" /\ buf["exec"] > 0
    /\ mine' = mine \ ParentEnds({"exec", "in"} \cup call.capture)
    /\ pc' = "reap"
    /\ UNCHANGED <<call, buf, open, ready, off, captured, lost, childVars>>

ExecRead == pc = "exec" /\ (SystemFails \/ (buf["exec"] = 0 /\ ~HasWriter("exec")))

\* Mutant of StartLoop: an empty input leaves the child's standard input open.
StartLoopKeepsInput ==
    /\ ExecRead
    /\ open' = call.capture \cup (IF call.input = 0 THEN {} ELSE {"in"})
    /\ mine' = mine \ ParentEnds({"exec"})
    /\ pc' = "poll"
    /\ UNCHANGED <<call, buf, ready, off, captured, lost, childVars>>

StartLoop ==
    /\ ExecRead
    /\ open' = call.capture \cup (IF call.input = 0 THEN {} ELSE {"in"})
    /\ mine' = mine \ ParentEnds({"exec"} \cup (IF call.input = 0 THEN {"in"} ELSE {}))
    /\ pc' = "poll"
    /\ UNCHANGED <<call, buf, ready, off, captured, lost, childVars>>

\* fcntl fails on one of the three ends, or the list of events is not made.
NoLoop == ExecRead /\ GiveUp(ParentEnds({"exec", "in"} \cup call.capture))

(***************************************************************************)
(* The loop: poll, then one look at each stream in turn.                   *)
(***************************************************************************)
Polled == {s \in open : s = "in" => off < call.input}

HasEvent(s) == IF s = "in" THEN buf["in"] < PipeCap ELSE buf[s] > 0 \/ ~HasWriter(s)

Poll ==
    /\ pc = "poll"
    /\ \E s \in Polled : HasEvent(s) \/ (s = "in" /\ ~HasReader("in"))
    /\ ready' = {s \in Polled : HasEvent(s)}
    /\ pc' = "in"
    /\ UNCHANGED <<call, mine, buf, open, off, captured, lost, childVars>>

PollFails == pc = "poll" /\ Polled # {} /\ GiveUp(ParentEnds(open))

LeaveLoop ==
    /\ pc = "poll" /\ Polled = {}
    /\ pc' = "wait"
    /\ UNCHANGED <<call, mine, buf, open, ready, off, captured, lost, childVars>>

Follows(s) == CASE s = "in" -> "out" [] s = "out" -> "err" [] s = "err" -> "poll"

At(s) == pc = s /\ s \in ready \cap open

\* The loop goes on to the next stream; the revents of this one are not read again.
Turn(s) == pc' = Follows(s) /\ ready' = ready \ {s}

Skip(s) ==
    /\ pc = s /\ s \notin ready \cap open
    /\ Turn(s)
    /\ UNCHANGED <<call, mine, buf, open, off, captured, lost, childVars>>

CloseStream(s) ==
    /\ open' = open \ {s}
    /\ mine' = mine \ {ParentEnd(s)}

\* Mutant of WriteInput: whatever write took counts as the rest of the input.
WriteAllAtOnce(n) ==
    /\ At("in") /\ HasReader("in")
    /\ n <= PipeCap - buf["in"] /\ n <= call.input - off
    /\ off' = call.input
    /\ buf' = [buf EXCEPT !["in"] = @ + n]
    /\ CloseStream("in")
    /\ Turn("in")
    /\ UNCHANGED <<call, captured, lost, childVars>>

\* write takes some of the rest, what the pipe has room for at most.
WriteInput(n) ==
    /\ At("in") /\ HasReader("in")
    /\ n <= PipeCap - buf["in"] /\ n <= call.input - off
    /\ off' = off + n
    /\ buf' = [buf EXCEPT !["in"] = @ + n]
    /\ IF off' >= call.input THEN CloseStream("in") ELSE UNCHANGED <<open, mine>>
    /\ Turn("in")
    /\ UNCHANGED <<call, captured, lost, childVars>>

\* Nobody reads any more: EPIPE, or the signal ends the interpreter.
WriteBroken ==
    /\ At("in") /\ ~HasReader("in")
    /\ IF call.ignores
       THEN CloseStream("in") /\ Turn("in")
       ELSE mine' = {} /\ pc' = "killed" /\ UNCHANGED <<open, ready>>
    /\ UNCHANGED <<call, buf, off, captured, lost, childVars>>

Read(s) ==
    /\ At(s) /\ buf[s] > 0
    /\ \E n \in 1..Chunk :
        /\ n = Chunk \/ n = buf[s]
        /\ n <= buf[s]
        /\ buf' = [buf EXCEPT ![s] = @ - n]
        /\ captured' = [captured EXCEPT ![s] = @ + n]
    /\ Turn(s)
    /\ UNCHANGED <<call, mine, open, off, lost, childVars>>

\* Mutant of EventFails: the error path forgets the child's standard input.
EventFailsKeepsInput(s) == At(s) /\ buf[s] > 0 /\ GiveUp(ParentEnds(open \ {"in"}))

\* The event is not made or not pushed.
EventFails(s) == At(s) /\ buf[s] > 0 /\ GiveUp(ParentEnds(open))

\* Mutants of ReadEnd: a hang-up closes the stream before it is drained; an empty read
\* counts as nothing to read yet.
ReadHangup(s) ==
    /\ At(s) /\ ~HasWriter(s)
    /\ CloseStream(s)
    /\ Turn(s)
    /\ UNCHANGED <<call, buf, off, captured, lost, childVars>>

ReadNothing(s) ==
    /\ At(s) /\ buf[s] = 0 /\ ~HasWriter(s)
    /\ Turn(s)
    /\ UNCHANGED <<call, mine, buf, open, off, captured, lost, childVars>>

ReadEnd(s) ==
    /\ At(s) /\ buf[s] = 0 /\ ~HasWriter(s)
    /\ CloseStream(s)
    /\ Turn(s)
    /\ UNCHANGED <<call, buf, off, captured, lost, childVars>>

\* The read or write of a stream that poll has reported. An input nobody reads is not
\* among them, its write is WriteBroken.
Transfers(s) == At(s) /\ (s = "in" => HasReader("in"))

\* EAGAIN, or a write of no bytes: the stream has its turn again in the next round.
MovesNothing(s) ==
    /\ SystemFails /\ Transfers(s)
    /\ Turn(s)
    /\ UNCHANGED <<call, mine, buf, open, off, captured, lost, childVars>>

\* Any other error closes the stream as its end does; nothing else is said of it.
TransferFails(s) ==
    /\ SystemFails /\ Transfers(s)
    /\ CloseStream(s)
    /\ lost' = lost \cup {s}
    /\ Turn(s)
    /\ UNCHANGED <<call, buf, off, captured, childVars>>

\* waitpid blocks until the child has ended; it or the result may fail.
Reap ==
    /\ child = "exited"
    /\ child' = "reaped"
    /\ \/ pc = "wait" /\ pc' = "returned"
       \/ pc = "wait" /\ SystemFails /\ pc' = "failed"
       \/ pc = "reap" /\ pc' = "failed"
    /\ UNCHANGED <<call, mine, buf, open, ready, off, captured, lost,
                   theirs, doing, eof, hungup, ate, wrote>>

ParentNext ==
    \/ \E p \in Pipes : MakePipe(p) \/ PipeFails(p)
    \/ Fork \/ ForkFails \/ CloseChildEnds
    \/ ExecFailed \/ StartLoop \/ NoLoop
    \/ Poll \/ PollFails \/ LeaveLoop
    \/ \E s \in Streams \cup {"in"} : Skip(s)
    \/ \E n \in 1..PipeCap : WriteInput(n)
    \/ WriteBroken
    \/ \E s \in Streams : Read(s) \/ EventFails(s) \/ ReadEnd(s)
    \/ \E s \in Streams \cup {"in"} : MovesNothing(s) \/ TransferFails(s)
    \/ Reap

(***************************************************************************)
(* The child: what the code between fork and execve does, then any program.*)
(***************************************************************************)
Runs == child = "running" /\ doing = "free"

\* The duplicates take the standard descriptors, the exec pipe closes on exec.
ChildExecs ==
    /\ child = "forked"
    /\ child' = "running" /\ theirs' = ChildEnds
    /\ UNCHANGED <<call, mine, buf, parentVars, doing, eof, hungup, ate, wrote>>

Leaves ==
    /\ child' = "exited" /\ theirs' = {} /\ doing' = "free"
    /\ hungup' = (hungup \/ buf["in"] > 0 \/ <<"in", "w">> \in mine)
    /\ UNCHANGED <<call, mine, parentVars, eof, ate, wrote>>

\* The errno goes to the parent, if it still reads.
ChildExecFails ==
    /\ child = "forked"
    /\ buf' = IF <<"exec", "r">> \in mine THEN [buf EXCEPT !["exec"] = 1] ELSE buf
    /\ Leaves

\* dup2 fails: the child ends without a word on the exec pipe.
ChildSetupFails == SystemFails /\ child = "forked" /\ Leaves /\ UNCHANGED buf

Starts(s) ==
    /\ Runs
    /\ doing' = s
    /\ UNCHANGED <<call, mine, buf, parentVars, child, theirs, eof, hungup, ate, wrote>>

ChildReads == <<"in", "r">> \in theirs /\ ~eof /\ Starts("in")

ChildGets(n) ==
    /\ doing = "in" /\ n <= buf["in"]
    /\ doing' = "free"
    /\ buf' = [buf EXCEPT !["in"] = @ - n]
    /\ ate' = ate + n
    /\ UNCHANGED <<call, mine, parentVars, child, theirs, eof, hungup, wrote>>

ChildGetsEnd ==
    /\ doing = "in" /\ buf["in"] = 0 /\ ~HasWriter("in")
    /\ doing' = "free" /\ eof' = TRUE
    /\ UNCHANGED <<call, mine, buf, parentVars, child, theirs, hungup, ate, wrote>>

ChildWrites(s) == <<s, "w">> \in theirs /\ wrote[s] < MaxOutput /\ Starts(s)

ChildPuts(s) ==
    /\ doing = s /\ HasReader(s) /\ buf[s] < PipeCap
    /\ doing' = "free"
    /\ buf' = [buf EXCEPT ![s] = @ + 1]
    /\ wrote' = [wrote EXCEPT ![s] = @ + 1]
    /\ UNCHANGED <<call, mine, parentVars, child, theirs, eof, hungup, ate>>

\* The parent has given up the call, or the stream: the write ends the child, or the
\* child ignores SIGPIPE and gives the stream up too.
ChildBroken(s) ==
    /\ doing = s /\ ~HasReader(s)
    /\ UNCHANGED buf
    /\ \/ Leaves
       \/ /\ call.ignores
          /\ theirs' = theirs \ Ends({s}) /\ doing' = "free"
          /\ UNCHANGED <<call, mine, parentVars, child, eof, hungup, ate, wrote>>

ChildCloses(p) ==
    /\ Runs
    /\ \E e \in {"r", "w"} : <<p, e>> \in theirs
    /\ theirs' = theirs \ Ends({p})
    /\ hungup' = (hungup \/ (p = "in" /\ (buf["in"] > 0 \/ <<"in", "w">> \in mine)))
    /\ UNCHANGED <<call, mine, buf, parentVars, child, doing, eof, ate, wrote>>

ChildExits == Runs /\ Leaves /\ UNCHANGED buf

ChildNext ==
    \/ ChildExecs \/ ChildExecFails \/ ChildSetupFails
    \/ ChildReads \/ ChildGetsEnd \/ ChildExits
    \/ \E n \in 1..PipeCap : ChildGets(n)
    \/ \E s \in Streams : ChildWrites(s) \/ ChildPuts(s) \/ ChildBroken(s)
    \/ \E p \in Streams \cup {"in"} : ChildCloses(p)

Over == pc \in {"returned", "failed", "killed"}

Done == Over /\ UNCHANGED vars

Next == ParentNext \/ ChildNext \/ Done

\* The bytes and the ends that pass between the parent and its streams.
Moves == \/ \E n \in 1..PipeCap : WriteInput(n)
         \/ \E s \in Streams : Read(s) \/ ReadEnd(s)

\* The kernel runs both processes: a step that stays possible is taken. And it does not
\* for ever answer EAGAIN for what it reports ready.
Fairness == WF_vars(ParentNext) /\ WF_vars(ChildNext) /\ SF_vars(Moves)

Spec     == Init /\ [][Next]_vars
FairSpec == Spec /\ Fairness

(***************************************************************************)
(* Types and what is promised.                                             *)
(***************************************************************************)
LoopPcs == {"poll", "in", "out", "err"}

\* Every variable has its type: the counters stay within what pipes and call allow.
TypeOK ==
    /\ call \in Calls
    /\ pc \in LoopPcs \cup {"start", "parent", "exec", "reap", "wait", "returned", "failed", "killed"}
    /\ mine \subseteq Fds /\ theirs \subseteq Fds
    /\ open \subseteq Used \ {"exec"} /\ ready \subseteq Used \ {"exec"}
    /\ lost \subseteq Used \ {"exec"}
    /\ off \in 0..call.input /\ ate \in 0..call.input
    /\ buf \in [Pipes -> 0..PipeCap]
    /\ captured \in [Streams -> Nat] /\ wrote \in [Streams -> Nat]
    /\ child \in {"none", "forked", "running", "exited", "reaped"}
    /\ doing \in Streams \cup {"in", "free"}
    /\ eof \in BOOLEAN /\ hungup \in BOOLEAN

\* Whatever system call failed and whatever the child did meanwhile, the call leaves
\* no descriptor open: the error paths repeat by hand what is open at their place.
DescriptorsClosed == Over => mine = {}

\* A result holds every byte the child wrote to a captured stream, those it wrote just
\* before it closed the stream or ended included, unless a read of the stream failed.
OutputComplete == pc = "returned" => \A s \in call.capture \ lost : captured[s] = wrote[s]

\* A child that reads to the end of its input has read all of it, unless the call or a
\* write of the input failed.
InputComplete == eof /\ pc \notin {"failed", "killed"} /\ "in" \notin lost => ate = call.input

\* The child will not read the rest of the input: a signal ends the interpreter, or a
\* full pipe keeps poll from reporting POLLOUT.
GaveUp == hungup /\ "in" \in open /\ (call.ignores => buf["in"] = PipeCap)

\* The call ends, in whatever order the child reads and writes and however full the
\* pipes get, unless the child gives up its input in the middle.
CallEnds == <>(pc \in {"returned", "failed"} \/ GaveUp)

(***************************************************************************)
(* Why: who holds which end, and what a closed end says, at every step.    *)
(***************************************************************************)
\* While the pipes are made they are made in order, both ends of each.
MineInOrder == pc = "start" =>
    /\ mine \subseteq Ends(Used)
    /\ \A p, q \in Used : \A e \in {"r", "w"} :
          <<p, e>> \in mine /\ Order[q] <= Order[p] => Ends({q}) \subseteq mine

\* After the fork the parent's descriptors follow from where it is; in the loop they
\* are those of the streams it takes for open.
MineByPlace ==
    /\ pc = "parent" => mine = Ends(Used)
    /\ pc = "exec" => mine = ParentEnds({"exec", "in"} \cup call.capture)
    /\ pc \in LoopPcs => mine = ParentEnds(open)
    /\ pc \in {"reap", "wait"} \/ Over => mine = {}
    /\ pc \in {"wait", "returned"} => open = {}

\* The child holds every end until it runs the program; the exec pipe tells when, unless
\* reading it failed.
TheirsByPlace ==
    /\ child = "none" => pc \in {"start", "failed"}
    /\ pc = "start" => child = "none"
    /\ child = "forked" => theirs = Ends(Used) /\ pc \notin {"start", "reap", "returned", "killed"}
    /\ child = "running" => theirs \subseteq ChildEnds
    /\ child \in {"none", "exited", "reaped"} => theirs = {}
    /\ buf["exec"] > 0 => child \in {"exited", "reaped"}
    /\ pc = "reap" => child = "exited"
    /\ child = "reaped" => pc \in {"returned", "failed"}
    /\ doing \in Streams => <<doing, "w">> \in theirs /\ child = "running"
    /\ doing = "in" => <<"in", "r">> \in theirs /\ child = "running"

\* Bytes written are captured or in the pipe; a captured stream the loop has closed at
\* its end has no bytes left and nobody to write more.
OutputKept ==
    /\ \A s \in Streams : wrote[s] = captured[s] + buf[s]
    /\ pc \in LoopPcs \cup {"wait", "returned"} =>
          \A s \in call.capture \ (open \cup lost) : buf[s] = 0 /\ <<s, "w">> \notin theirs

\* Input sent is read or in the pipe; once the loop has closed the child's input all of
\* it was sent, or the child reads no more, or a write failed.
InputKept ==
    /\ off = ate + buf["in"]
    /\ pc \in {"start", "parent", "exec"} => off = 0
    /\ pc \in LoopPcs /\ "in" \in open => off < call.input
    /\ pc \in LoopPcs \cup {"wait", "returned"} /\ "in" \notin open =>
          off = call.input \/ <<"in", "r">> \notin theirs \/ "in" \in lost

\* The conjunction every step keeps.
IInv ==
    /\ TypeOK
    /\ MineInOrder /\ MineByPlace /\ TheirsByPlace
    /\ OutputKept /\ InputKept /\ InputComplete
=============================================================================
