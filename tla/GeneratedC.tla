------------------------------ MODULE GeneratedC -------------------------------
(***************************************************************************)
(* What the C written by src/c_backend.js does: the statements emitInstr    *)
(* writes for each instruction, and the helpers of emitRuntimeHelpers they  *)
(* call.                                                                   *)
(*                                                                         *)
(* Locals live in their activation.  A list is a header copied by value     *)
(* over cells in mem; a view also holds the address of the version field of *)
(* a header (ref: activation and variable), or none.  The handlers are jump *)
(* buffers: an activation and a label in it.  Ints wrap, as in the build    *)
(* the tests make (no optimization), where a longjmp leaves locals as they  *)
(* are.  Using a local never written or of another type, cells that were    *)
(* reallocated or are not there, or an activation that has returned is      *)
(* undefined: the mode becomes undefined and nothing more is said.          *)
(***************************************************************************)
EXTENDS IntWidth, Sequences, SequencesExt, FiniteSets

CONSTANTS
  Protos,
  Compiled,  \* the programs
  Code(_),   \* of each of them, what generateC makes of its functions
  MaxTries   \* the size of ps_try_stack

VARIABLES
  prog,      \* the program that runs
  frames,    \* the activations, the innermost first
  nextId,    \* numbers the activations
  handlers,  \* ps_try_stack[0..ps_try_len), the innermost first
  mem,       \* the cells of the lists allocated, and whether they are freed
  objects,   \* the objects; the first is ps_runtime_exception
  last,      \* ps_last_exception, 0 for NULL
  printed,
  mode       \* run, ok, failed (exit 1), crashed or undefined

vars == <<prog, frames, nextId, handlers, mem, objects, last, printed, mode>>

Value(t, n) == [t |-> t, n |-> n]
Wrap(n) == ((n - Int64Min) % (2^Width)) + Int64Min

Lineage[p \in DOMAIN Protos] ==
  <<p>> \o (IF Protos[p].parent = "none" THEN <<>> ELSE Lineage[Protos[p].parent])

Fn      == Code(prog)[Head(frames).fn]
Instr   == Fn.blocks[Head(frames).block].instrs[Head(frames).pc]
Local   == Head(frames).env
BlockOf(fn, l) == CHOOSE i \in DOMAIN fn.blocks : fn.blocks[i].label = l
Set(env, x, v) == [y \in DOMAIN env \cup {x} |-> IF y = x THEN v ELSE env[y]]

\* The locals an instruction reads.
Reads(i) ==
  CASE i.op = "load_var"  -> {i.name}
    [] i.op \in {"store_var", "copy", "unary_op"} -> {i.src}
    [] i.op \in {"check_int_overflow", "bin_op"}  -> {i.left, i.right}
    [] i.op = "check_div_zero"     -> {i.divisor}
    [] i.op = "check_shift_range"  -> {i.shift}
    [] i.op = "check_index_bounds" -> {i.target, i.index}
    [] i.op = "check_view_bounds"  -> {i.target, i.offset, i.len}
    [] i.op = "select"             -> {i.cond, i.then, i.else}
    [] i.op = "call_static"        -> Range(i.args)
    [] i.op = "call_method_static" -> {i.ref} \cup Range(i.args)
    [] i.op = "make_list"          -> Range(i.items)
    [] i.op = "make_view"          -> {i.source, i.ref, i.offset, i.len}
    [] i.op = "index_get"          -> {i.target, i.index}
    [] i.op = "index_set"          -> {i.target, i.index, i.src}
    [] i.op = "member_get"         -> {i.target}
    [] i.op = "member_set"         -> {i.target, i.src}
    [] i.op \in {"ret", "throw", "print", "exception_is"} -> {i.value}
    [] i.op = "branch_if"          -> {i.cond}
    [] i.op = "iter_begin"         -> {i.source}
    [] i.op = "branch_iter_has_next" -> {i.iter}
    [] i.op = "iter_next"          -> {i.source, i.iter}
    [] OTHER                       -> {}

At(ops) == mode = "run" /\ Instr.op \in ops
\* They have been written, with values of the types they are declared with.
Fits(v, t) == v.t = t \/ (v.t = "obj" /\ Contains(Lineage[objects[v.n].proto], t))
Defined ==
  LET types == Fn.types
  IN  \A x \in Reads(Instr) : x \in DOMAIN Local /\ Fits(Local[x], types[x])

-----------------------------------------------------------------------------
\* Steps.

Advance(env) == frames' = [frames EXCEPT ![1].env = env, ![1].pc = @ + 1]
Assign(x, v) == Advance(Set(Local, x, v))
GoTo(l) == frames' = [frames EXCEPT ![1].block = BlockOf(Fn, l), ![1].pc = 1]
Unspecified == /\ mode' = "undefined"
               /\ UNCHANGED <<prog, frames, nextId, handlers, mem, objects, last, printed>>
Locally == UNCHANGED <<prog, nextId, handlers, mem, objects, last, printed, mode>>

\* ps_raise_exception: longjmp to the last handler, or exit(1).  The jump
\* drops the activations above the handler's, which must still be there.
RaiseKeepsHandler ==
  IF handlers = <<>> THEN mode' = "failed" /\ UNCHANGED <<frames, handlers>>
  ELSE LET h == Head(handlers)
           at == {j \in DOMAIN frames : frames[j].id = h.id}
       IN  /\ UNCHANGED handlers
           /\ IF at = {} THEN mode' = "undefined" /\ UNCHANGED frames
              ELSE LET j == CHOOSE k \in at : TRUE
                       f == frames[j]
                   IN  /\ frames' = << [f EXCEPT !.block = BlockOf(Code(prog)[f.fn], h.label), !.pc = 1] >>
                                    \o SubSeq(frames, j + 1, Len(frames))
                       /\ UNCHANGED mode
RaiseException ==
  IF handlers = <<>> THEN mode' = "failed" /\ UNCHANGED <<frames, handlers>>
  ELSE LET h == Head(handlers)
           at == {j \in DOMAIN frames : frames[j].id = h.id}
       IN  /\ handlers' = Tail(handlers)
           /\ IF at = {} THEN mode' = "undefined" /\ UNCHANGED frames
              ELSE LET j == CHOOSE k \in at : TRUE
                       f == frames[j]
                   IN  /\ frames' = << [f EXCEPT !.block = BlockOf(Code(prog)[f.fn], h.label), !.pc = 1] >>
                                    \o SubSeq(frames, j + 1, Len(frames))
                       /\ UNCHANGED mode

\* ps_panic: the one static exception is filled in anew.
Panic(code) ==
  /\ objects' = [objects EXCEPT ![1] = [proto |-> "RuntimeException", code |-> code, f |-> <<>>]]
  /\ last' = 1
  /\ RaiseException
  /\ UNCHANGED <<prog, nextId, mem, printed>>
Check(ok, code) == IF ok THEN Advance(Local) /\ Locally ELSE Panic(code)

\* Whether a cell can be used, and the cell.
Cell(ptr, k) == ~mem[ptr].freed /\ k \in 1..Len(mem[ptr].cells)
ReadCell(ptr, k) == mem[ptr].cells[k]

-----------------------------------------------------------------------------
\* Values.

TruncDiv(l, r) ==
  LET q == (IF l < 0 THEN -l ELSE l) \div (IF r < 0 THEN -r ELSE r)
  IN  IF (l < 0) # (r < 0) THEN -q ELSE q
Shift(s) == s % Width
Comparisons == {"==", "!=", "<", "<=", ">", ">="}
BinResult(op, l, r) ==
  CASE op = "+"  -> Value("int", Wrap(l + r))
    [] op = "-"  -> Value("int", Wrap(l - r))
    [] op = "*"  -> Value("int", Wrap(l * r))
    [] op = "/"  -> Value("int", TruncDiv(l, r))
    [] op = "%"  -> Value("int", l - r * TruncDiv(l, r))
    [] op = "<<" -> Value("int", Wrap(l * 2^Shift(r)))
    [] op = ">>" -> Value("int", l \div 2^Shift(r))
    [] op \in Comparisons ->
         Value("bool", IF CASE op = "==" -> l = r [] op = "!=" -> l # r [] op = "<" -> l < r
                            [] op = "<=" -> l <= r [] op = ">" -> l > r [] op = ">=" -> l >= r
                       THEN 1 ELSE 0)

\* A division by zero, or of the least int by -1, ends the process.
Traps(op, l, r) == op \in {"/", "%"} /\ (r = 0 \/ (l = Int64Min /\ r = -1))

UseUndefined ==
  /\ mode = "run"
  /\ ~Defined
  /\ Unspecified

ConstInstr ==
  /\ At({"const"})
  /\ Assign(Instr.dst, Value(Instr.type, Wrap(Instr.v)))
  /\ Locally

\* var_decl writes nothing; the check before a unary minus is no instruction
\* the backend knows.
Nothing ==
  /\ At({"var_decl", "nop", "check_int_overflow_unary_minus"})
  /\ Advance(Local)
  /\ Locally

Copying ==
  /\ At({"load_var", "store_var", "copy"}) /\ Defined
  /\ IF Instr.op = "load_var" THEN Assign(Instr.dst, Local[Instr.name])
     ELSE Assign(IF Instr.op = "copy" THEN Instr.dst ELSE Instr.name, Local[Instr.src])
  /\ Locally

CheckArith ==
  /\ At({"check_int_overflow", "check_div_zero", "check_shift_range"}) /\ Defined
  /\ LET i == Instr
     IN  CASE i.op = "check_int_overflow" ->
                LET l == Local[i.left].n  r == Local[i.right].n
                    n == CASE i.operator = "+" -> l + r [] i.operator = "-" -> l - r [] i.operator = "*" -> l * r
                IN  Check(n = Wrap(n), 1001)
           [] i.op = "check_div_zero"    -> Check(Local[i.divisor].n # 0, 1004)
           [] i.op = "check_shift_range" -> Check(Local[i.shift].n \in 0..(Width - 1), 1005)

BinOp ==
  /\ At({"bin_op"}) /\ Defined
  /\ LET l == Local[Instr.left].n  r == Local[Instr.right].n
     IN  IF Traps(Instr.operator, l, r)
         THEN /\ mode' = "crashed"
              /\ UNCHANGED <<prog, frames, nextId, handlers, mem, objects, last, printed>>
         ELSE Assign(Instr.dst, BinResult(Instr.operator, l, r)) /\ Locally

UnaryOp ==
  /\ At({"unary_op"}) /\ Defined
  /\ LET v == Local[Instr.src]
     IN  Assign(Instr.dst, IF Instr.operator = "-" THEN Value("int", Wrap(-v.n)) ELSE Value("bool", 1 - v.n))
  /\ Locally

Select ==
  /\ At({"select"}) /\ Defined
  /\ Assign(Instr.dst, Local[IF Local[Instr.cond].n # 0 THEN Instr.then ELSE Instr.else])
  /\ Locally

PrintValue ==
  /\ At({"print"}) /\ Defined
  /\ printed' = Append(printed, Local[Instr.value])
  /\ Advance(Local)
  /\ UNCHANGED <<prog, nextId, handlers, mem, objects, last, mode>>

-----------------------------------------------------------------------------
\* Control.

Branch ==
  /\ At({"jump", "branch_if", "branch_iter_has_next"}) /\ Defined
  /\ GoTo(CASE Instr.op = "jump"      -> Instr.target
            [] Instr.op = "branch_if" -> IF Local[Instr.cond].n # 0 THEN Instr.then ELSE Instr.else
            [] OTHER -> IF Local[Instr.iter].i < Local[Instr.iter].n THEN Instr.then ELSE Instr.else)
  /\ Locally

NewFrame(fn, id, args, dst) ==
  [fn |-> fn, id |-> id, block |-> 1, pc |-> 1, env |-> args, dst |-> dst]

CallStatic ==
  /\ At({"call_static"}) /\ Defined
  /\ frames' = << NewFrame(Instr.callee, nextId, [j \in DOMAIN Instr.args |-> Local[Instr.args[j]]], Instr.dst) >>
               \o [frames EXCEPT ![1].pc = @ + 1]
  /\ nextId' = nextId + 1
  /\ UNCHANGED <<prog, handlers, mem, objects, last, printed, mode>>

\* default_return: the zero value of the type the function returns.
Return ==
  /\ At({"ret", "ret_void", "default_return"}) /\ Defined
  /\ LET v == IF Instr.op = "ret" THEN Local[Instr.value] ELSE Value("null", 0)
     IN  IF Len(frames) = 1 THEN mode' = "ok" /\ UNCHANGED frames
         ELSE /\ frames' = [Tail(frames) EXCEPT ![1].env = Set(@, Head(frames).dst, v)]
              /\ UNCHANGED mode
  /\ UNCHANGED <<prog, nextId, handlers, mem, objects, last, printed>>

-----------------------------------------------------------------------------
\* Exceptions.

PushHandler ==
  /\ At({"push_handler"})
  /\ IF Len(handlers) >= MaxTries THEN Panic(1999)
     ELSE /\ handlers' = << [id |-> Head(frames).id, label |-> Instr.target] >> \o handlers
          /\ Advance(Local)
          /\ UNCHANGED <<prog, nextId, mem, objects, last, printed, mode>>

PopHandlerOnlyInMain ==
  /\ At({"pop_handler"})
  /\ handlers' = IF handlers = <<>> \/ Len(frames) > 1 THEN handlers ELSE Tail(handlers)
  /\ Advance(Local)
  /\ UNCHANGED <<prog, nextId, mem, objects, last, printed, mode>>
PopHandler ==
  /\ At({"pop_handler"})
  /\ handlers' = IF handlers = <<>> THEN <<>> ELSE Tail(handlers)
  /\ Advance(Local)
  /\ UNCHANGED <<prog, nextId, mem, objects, last, printed, mode>>

GetException ==
  /\ At({"get_exception"})
  /\ Assign(Instr.dst, Value("obj", last))
  /\ Locally

ExceptionIs ==
  /\ At({"exception_is"}) /\ Defined
  /\ Assign(Instr.dst, Value("bool", IF Contains(Lineage[objects[Local[Instr.value].n].proto], Instr.type)
                                     THEN 1 ELSE 0))
  /\ Locally

\* ps_raise_user_exception; a rethrow raises whatever was raised last.
Throw ==
  /\ At({"throw", "rethrow"}) /\ Defined
  /\ last' = IF Instr.op = "throw" THEN Local[Instr.value].n ELSE last
  /\ RaiseException
  /\ UNCHANGED <<prog, nextId, mem, objects, printed>>

-----------------------------------------------------------------------------
\* Lists and views.

Header(ptr, len, cap, version) ==
  [t |-> "list", ptr |-> ptr, len |-> len, cap |-> cap, version |-> version]

MakeList ==
  /\ At({"make_list"}) /\ Defined
  /\ LET m == Len(Instr.items)
     IN  /\ mem' = Append(mem, [cells |-> [j \in 1..m |-> Local[Instr.items[j]]], freed |-> FALSE])
         /\ Assign(Instr.dst, Header(Len(mem) + 1, m, m, 0))
  /\ UNCHANGED <<prog, nextId, handlers, objects, last, printed, mode>>

\* The headers below are those of the variable the temporary stands for.
IsList(method) == At({"call_method_static"}) /\ Defined /\ Instr.type = "list" /\ Instr.method = method
Ref == Local[Instr.ref]
UpdateRef(h, v) == Advance(Set(Set(Local, Instr.ref, h), Instr.dst, v))

\* realloc moves the cells.
Push ==
  /\ IsList("push")
  /\ LET h == Ref
         full == h.len = h.cap
         cap == IF ~full THEN h.cap ELSE IF h.cap = 0 THEN 4 ELSE 2 * h.cap
         cells == Append(SubSeq(mem[h.ptr].cells, 1, h.len), Local[Instr.args[1]])
         ptr == IF full THEN Len(mem) + 1 ELSE h.ptr
     IN  IF mem[h.ptr].freed THEN Unspecified
         ELSE /\ mem' = IF full THEN Append([mem EXCEPT ![h.ptr].freed = TRUE], [cells |-> cells, freed |-> FALSE])
                        ELSE [mem EXCEPT ![h.ptr].cells = cells \o SubSeq(@, h.len + 2, Len(@))]
              /\ UpdateRef(Header(ptr, h.len + 1, cap, h.version + 1), Value("int", h.len + 1))
              /\ UNCHANGED <<prog, nextId, handlers, objects, last, printed, mode>>

\* removeLast answers nothing.
Pop ==
  /\ IsList("pop") \/ IsList("removeLast")
  /\ LET h == Ref
     IN  IF h.len = 0 THEN Panic(1006)
         ELSE IF ~Cell(h.ptr, h.len) THEN Unspecified
         ELSE /\ UpdateRef(Header(h.ptr, h.len - 1, h.cap, h.version + 1),
                           IF Instr.method = "pop" THEN ReadCell(h.ptr, h.len) ELSE Value("null", 0))
              /\ Locally

\* In place; the sort is the merge sort of runtime.js.
Reorder ==
  /\ IsList("reverse") \/ IsList("sort")
  /\ LET h == Ref
         items == SubSeq(mem[h.ptr].cells, 1, h.len)
     IN  IF h.len > 0 /\ ~Cell(h.ptr, h.len) THEN Unspecified
         ELSE /\ mem' = [mem EXCEPT ![h.ptr].cells =
                           (IF Instr.method = "reverse" THEN Reverse(items)
                            ELSE SortSeq(items, LAMBDA x, y : x.n < y.n)) \o SubSeq(@, h.len + 1, Len(@))]
              /\ Assign(Instr.dst, Value("int", h.len))
              /\ UNCHANGED <<prog, nextId, handlers, objects, last, printed, mode>>

ListContains ==
  /\ IsList("contains")
  /\ LET h == Ref
     IN  IF h.len > 0 /\ ~Cell(h.ptr, h.len) THEN Unspecified
         ELSE /\ Assign(Instr.dst, Value("bool", IF Contains(SubSeq(mem[h.ptr].cells, 1, h.len), Local[Instr.args[1]])
                                                 THEN 1 ELSE 0))
              /\ Locally

\* ps_check_view_valid: whether the version the view was made at is still
\* the one in the header it points to, which has to be there.
Owner(v) == {j \in DOMAIN frames : frames[j].id = v.ref[1] /\ v.ref[2] \in DOMAIN frames[j].env}
ViewDangles(v) == v.t = "view" /\ Owner(v) = {}
ViewIsValid(v) ==
  v.t = "view" => \A j \in Owner(v) : frames[j].env[v.ref[2]].t = "list" /\ frames[j].env[v.ref[2]].version = v.version

\* A method the backend has no code for answers 0.
LengthOrNone ==
  /\ At({"call_method_static"}) /\ Defined
  /\ Instr.type # "list" \/ Instr.method = "length"
  /\ LET v == Local[Instr.receiver]
     IN  IF Instr.method # "length" \/ Instr.type \notin {"list", "view"}
         THEN Assign(Instr.dst, Value("int", 0)) /\ Locally
         ELSE IF ViewDangles(v) THEN Unspecified
         ELSE IF ~ViewIsValid(v) THEN Panic(1012)
         ELSE Assign(Instr.dst, Value("int", v.len)) /\ Locally

CheckBounds ==
  /\ At({"check_index_bounds", "check_view_bounds"}) /\ Defined
  /\ LET i == Instr
     IN  IF i.op = "check_index_bounds"
         THEN Check(Local[i.index].n \in 0..(Local[i.target].len - 1), 1002)
         ELSE Check(/\ Local[i.offset].n >= 0
                    /\ Local[i.len].n >= 0
                    /\ Local[i.offset].n + Local[i.len].n <= Local[i.target].len, 1002)

\* A view of a list points to the header of the variable; a view of a view
\* to what that one points to.  Neither looks whether the source is valid.
MakeView ==
  /\ At({"make_view"}) /\ Defined
  /\ LET s == Local[Instr.source]
         offset == Local[Instr.offset].n + (IF s.t = "view" THEN s.offset ELSE 0)
     IN  Assign(Instr.dst,
                [t |-> "view", ptr |-> s.ptr, offset |-> offset, len |-> Local[Instr.len].n,
                 ref |-> IF s.t = "view" THEN s.ref ELSE <<Head(frames).id, Instr.ref>>,
                 version |-> IF s.t = "view" THEN s.version ELSE Ref.version])
  /\ Locally

Slot(v, k) == IF v.t = "view" THEN v.offset + k + 1 ELSE k + 1
IndexGet ==
  /\ At({"index_get"}) /\ Defined
  /\ LET v == Local[Instr.target]  k == Slot(v, Local[Instr.index].n)
     IN  IF ViewDangles(v) THEN Unspecified
         ELSE IF ~ViewIsValid(v) THEN Panic(1012)
         ELSE IF ~Cell(v.ptr, k) THEN Unspecified
         ELSE Assign(Instr.dst, ReadCell(v.ptr, k)) /\ Locally

IndexSet ==
  /\ At({"index_set"}) /\ Defined
  /\ LET v == Local[Instr.target]  k == Slot(v, Local[Instr.index].n)
     IN  IF ViewDangles(v) THEN Unspecified
         ELSE IF ~ViewIsValid(v) THEN Panic(1012)
         ELSE IF ~Cell(v.ptr, k) THEN Unspecified
         ELSE /\ mem' = [mem EXCEPT ![v.ptr].cells[k] = Local[Instr.src]]
              /\ Advance(Local)
              /\ UNCHANGED <<prog, nextId, handlers, objects, last, printed, mode>>

\* The loop takes the length once; the elements when their turn comes.
IterBegin ==
  /\ At({"iter_begin"}) /\ Defined
  /\ LET v == Local[Instr.source]
     IN  IF ViewDangles(v) THEN Unspecified
         ELSE IF ~ViewIsValid(v) THEN Panic(1012)
         ELSE Assign(Instr.dst, [t |-> "iter", i |-> 0, n |-> v.len]) /\ Locally

IterNext ==
  /\ At({"iter_next"}) /\ Defined
  /\ LET v == Local[Instr.source]  it == Local[Instr.iter]  k == Slot(v, it.i)
     IN  IF ViewDangles(v) THEN Unspecified
         ELSE IF ~ViewIsValid(v) THEN Panic(1012)
         ELSE IF ~Cell(v.ptr, k) THEN Unspecified
         ELSE Advance(Set(Set(Local, Instr.dst, ReadCell(v.ptr, k)), Instr.iter, [it EXCEPT !.i = @ + 1])) /\ Locally

-----------------------------------------------------------------------------
\* Objects.

\* calloc: the fields are zero until they are set.
MakeObject ==
  /\ At({"make_object"})
  /\ objects' = Append(objects, [proto |-> Instr.proto, code |-> 0,
                                 f |-> [x \in {d.name : d \in UNION {Range(Protos[q].fields) : q \in Range(Lineage[Instr.proto])}}
                                          |-> Value("int", 0)]])
  /\ Assign(Instr.dst, Value("obj", Len(objects) + 1))
  /\ UNCHANGED <<prog, nextId, handlers, mem, last, printed, mode>>

MemberGet ==
  /\ At({"member_get"}) /\ Defined
  /\ LET o == objects[Local[Instr.target].n]
     IN  Assign(Instr.dst, IF Instr.name = "code" THEN Value("code", o.code) ELSE o.f[Instr.name])
  /\ Locally

MemberSet ==
  /\ At({"member_set"}) /\ Defined
  /\ objects' = [objects EXCEPT ![Local[Instr.target].n].f[Instr.name] = Local[Instr.src]]
  /\ Advance(Local)
  /\ UNCHANGED <<prog, nextId, handlers, mem, last, printed, mode>>

-----------------------------------------------------------------------------

Init ==
  /\ prog \in Compiled
  /\ frames = << NewFrame("main", 0, <<>>, 0) >>
  /\ nextId = 1
  /\ handlers = <<>>
  /\ mem = <<>>
  /\ objects = << [proto |-> "RuntimeException", code |-> 0, f |-> <<>>] >>
  /\ last = 0
  /\ printed = <<>>
  /\ mode = "run"

Next ==
  \/ UseUndefined \/ ConstInstr \/ Nothing \/ Copying \/ CheckArith \/ BinOp \/ UnaryOp \/ Select \/ PrintValue
  \/ Branch \/ CallStatic \/ Return
  \/ PushHandler \/ PopHandler \/ GetException \/ ExceptionIs \/ Throw
  \/ MakeList \/ Push \/ Pop \/ Reorder \/ ListContains \/ LengthOrNone
  \/ CheckBounds \/ MakeView \/ IndexGet \/ IndexSet \/ IterBegin \/ IterNext
  \/ MakeObject \/ MemberGet \/ MemberSet

Spec == Init /\ [][Next]_vars /\ WF_vars(Next)
=============================================================================
