# Verification of ProtoScript2

ProtoScript2 is a small statically typed language with three executions: a reference interpreter in
JavaScript (`src/runtime.js`, "spec exécutable"), a compiler and bytecode interpreter in C
(`c/frontend.c`, `c/runtime/`), and a generator of C code (`src/ir.js`, `src/optimizer.js`,
`src/c_backend.js`). This directory holds TLA+ models of the parts where behaviour is hard to get
right and hard to test, TLC configurations that check them on small instances, and TLAPS proofs of
the most important facts for every instance. `PROJECT.json` maps every definition to the lines of
code it models, and lists the hazards, the properties and the mutants that show a property can fail.

Paths below are relative to the repository's root. `SPEC n` is line n of `SPECIFICATION.md`.

How to run, in this directory: `tlc -workers 2 -config MCIrScopes.cfg MCIrScopes` (any `.cfg` with the
module named in the table of runs), `tlapm IrScopes_proofs.tla`.

## 1. Inventory

The whole runtime is single-threaded: apart from `Sys.execute` (one child process and its pipes)
nothing runs concurrently. What is hard is elsewhere: non-local control (exceptions, finally, callbacks
from natives), containers changed while they are iterated, allocation failure between two steps of an
operation, numbers at the end of their range, and the agreement of three executions of one language.

| Component | State it keeps | Operations | Hard behaviours | What makes it correct |
|---|---|---|---|---|
| Bytecode interpreter, `c/runtime/ps_vm.c` `exec_function` | cursor, bindings and handler stack of every activation; the context's error slot and last exception | one per opcode; the raise and error paths | delivery across activations, stale error state, natives that call back | the handler stack is the lexical nesting of tries; an exception goes to the innermost one; an error never outlives its delivery |
| Statement lowering, `c/frontend.c` `ir_lower_stmt` | blocks, current block, label counter, break and loop targets | one per statement | finally copies, jumps out of try bodies, omitted for clauses | the code has the effects the reference gives the statement |
| Reference interpreter, `src/runtime.js` | scopes, objects, lists with their versions, and the host's own control | one per statement and expression | views that outlive a change of length | it is the definition; a valid view lies in its list |
| Map, `c/runtime/ps_map.c` | open-addressing table, tombstones, insertion order, counter | set, get, has_key, remove, grow | reuse of tombstones, unbounded probe, failure between table and order | behaves as an insertion-ordered map; every operation ends |
| List and views, `c/runtime/ps_list.c`, `ps_vm.c` | slots, length, capacity, version; offset, length, version of a view; iterator | push, pop, reverse, index get/set, view, slice, iteration | a view or loop that outlives a change of length | no access outside the list; a view names the elements it was cut on or is refused |
| Integer arithmetic, `ps_vm.c` check instructions | operands | checks, `bin_op`, `unary_op` | ends of the range | exact or an exception, as in the reference |
| Values and reference counts, `ps_value.c`, `ps_vm.c` | counts of heap values, temporaries | retain, release | a path that forgets one or does it twice | a value lives exactly as long as it is reachable |
| Strings, `ps_string.c` | immutable bytes | validate, index by glyph, search, pad | truncated or overlong sequences | equals the reference on code points |
| Objects, `ps_object.c` | fields in a growing table | get, set | as the map without removal | as the map |
| Errors, `ps_errors.c` | error code and message of the context | set, clear | part of the interpreter | see interpreter |
| JSON, `ps_json.c` | none between calls | parse, print | depth, numbers | round trip |
| Native module loader, `ps_modules.c` | registry, last error | load, find | stale last error | an answer is about the module asked for |
| Sys, `c/modules/sys.c` | a child, up to four pipes, the poll loop | `execute` | parent and child waiting for each other; a child that goes early; a call that fails half way | ends, with all the output, every descriptor closed and the child waited for |
| Io, `ps_vm.c`, `ps_api.c` | open files | open, read, write, close | use after close | a closed file is refused |
| RegExp, `c/modules/regexp.c` | step budget | match | exponential search | the leftmost match, or the budget error |
| Time, TimeCivil, Debug | none | calendar arithmetic, formatting | zone changes | round trip |
| C parser and type checker (`c/frontend.c`), preprocessor, diagnostics, command lines | a pass over text | – | – | accepts what the reference accepts |
| JavaScript lexer, `src/frontend.js` 1–540 | position, tokens, open generic brackets | one per kind of token | `>>` of two types and `>>` of numbers | tokens are those written |
| JavaScript parser, 541–1410 | position | one per rule of the grammar | lookahead over many tokens | a program is read as it was written |
| JavaScript analyzer, 1411–3547 | tables of prototypes, functions, groups, imports; scopes; diagnostics | collect, import, analyze per statement and expression | overriding, visibility, modules that import each other | what it accepts never lacks a name, member or type when it runs |
| JavaScript lowering and validator, `src/ir.js` | as the C lowering | as the C lowering, expressions and methods too | a handler and a finally on every path | the code has the effects of the program |
| Optimizer, `src/optimizer.js` | constants and copies known in a block | fold, propagate, remove checks, inline | facts that a redefinition has made stale | a block does what it did |
| C generator, `src/c_backend.js` | types of temporaries, aliases of lists; at run time an array of 64 jump buffers, list headers copied by value, one static runtime exception | one per instruction | jump buffers left behind, stale headers | what the C prints and raises is what the reference does |

How they interact. The lowering hands the interpreter lists of labelled blocks. Every instruction that
fails sets the context's error slot and jumps to the `raise` label; the interpreter turns the slot into an
exception, enters the innermost handler or leaves the activation, and the caller takes the exception out
of the context. Natives are called with the context; `clone`, and `sort` with a `compareTo`, call back into
`exec_function`. Containers report allocation failures through their result and the interpreter raises.
Views hold a pointer to their list and to its slots' owner, and compare versions before they use it.
The second chain is in JavaScript: the lexer hands the parser all tokens, the parser hands the analyzer a
tree, the analyzer loads the trees of imported files and folds the constants of groups through the optimizer; the tree goes
to the reference interpreter, or through lowering, optimizer and generator to C, which calls its own helpers.

## 2. What is modelled

| Module | Models | Kind |
|---|---|---|
| `IrMachine` | `exec_function` and `ps_vm_run_main`: activations, handlers, raise, propagation | state machine, one action per instruction kind and per way out of `raise` |
| `IrScopes` | what code must promise for the handler stack to be lexical, and the properties that follow | assumption on code, properties of `IrMachine` |
| `Lowering` | `ir_lower_stmt` for blocks, if, loops, for, switch, try, throw, return, break, continue | operators: one per statement kind gives the calls the code makes, `Lower` (recursive) makes them |
| `StructuredRun` | the statement walker of `src/runtime.js` | operators: what is left to do is a list, `Exec` (recursive) does it |
| `SamplePrograms` | small programs, construct in construct | test inputs |
| `PsMap` | `ps_map.c` with an iteration over the map | state machine |
| `OrderedMap` | what a map promises | abstract specification of `PsMap` |
| `ListViews` | `ps_list.c`, views and one loop | state machine |
| `ViewedList` | what a list and its views promise | abstract specification of `ListViews` |
| `IntChecks` | check instructions, then `bin_op`/`unary_op`; `evalBinary` of the reference | state machine |
| `SysExecute` | `sys_execute`: parent, child, pipes | state machine of two processes |
| `JsReference` | `src/runtime.js`: statements, expressions, scopes, prototypes, exceptions, lists, views | state machine: what is left to do is a sequence, one action per part of a node |
| `JsLowering` | `src/ir.js` for functions, methods, statements and expressions | operators, as `Lowering` |
| `Optimizer` | `src/optimizer.js`, all passes | operators on blocks and functions |
| `IrValidator` | `validateSerializedIR` of `src/ir.js`: blocks, labels, operations and the fields they need, jump targets | predicate on the functions of `JsLowering` and `Optimizer` |
| `CBackend` | `src/c_backend.js`: inferred types, aliases, bodies of functions | operators on functions |
| `GeneratedC` | what the C written for an instruction does, with the helpers it calls | state machine, one action per instruction |
| `CScopes` | what generated functions must promise for the one stack of jump buffers to be shared in order by all activations | assumption on code, property of `GeneratedC` |
| `JsPrograms` | sample programs for the two executions and for the optimizer | test inputs |
| `JsLexer` | the lexer of `src/frontend.js` | state machine, one action per kind of token |
| `JsParser` | its parser | operators on tokens, one per `parse` method |
| `JsAnalyzer`, `JsChecker` | its analyzer: types, expressions and statements; tables, imports, prototypes, groups | operators, one per method of `Analyzer` |
| `JsFrontend` | `parseAndAnalyze` | state machine over the three |
| `TypedRun` | what an accepted program may rely on when it runs | reference definition for the analyzer |
| `JsPrinter`, `FrontendPrograms` | trees written as letters; sample trees | test inputs |
| `IntWidth` | the width of ints and what wraps to it, for `JsPrograms`, `JsReference` and `GeneratedC` | helper |
| `Passes` | left folds over sequences | helper |
| `MC*` | instances for TLC | – |
| `*_proofs` | TLAPS proofs | – |

How the state corresponds to the code:

- **IrMachine**. `frames` is the C stack of `exec_function` calls; a frame's `fn, blk, ip` are the cursor,
  `tries` the local array `tries[0..try_len)`, `exn` the local `last_exception`. `err` is the context's
  `last_error.code`, `ctxExn` is `ctx->last_exception`. `mode = "raise"` is "past the label `raise`".
  Values are abstracted: a condition takes its truth from a *script* chosen at the start, so that the same
  run can be given to the reference; `mark` stands for any visible effect; `fault` for every instruction
  that fails with an error code (checks, index operations, natives). A position of code carries the
  *scope* it lies in; the machine never reads it, only `IrScopes`' properties do.
- **Lowering**. The context is `IrFnCtx`. Statements keep the order of block creation and the order in
  which labels are taken, because `find_block` and falling through depend on them. An opcode the
  lowering emits that the interpreter does not know (`unknown_expr`) is kept as what it does: nothing.
- **PsMap**. `table` is the three arrays `used`, `keys`, `values`; `order` the array `m->order`, `ocap` its
  capacity. Searches are bounded by the capacity and are one step; the loop of `ps_map_set` is not, and is
  one step per slot (`SetFinds`, `SetProbes`, `SetInserts`, `NoOrder`).
- **ListViews**. `items` is the allocation, with what a pop leaves in it; `version` is `list.version`; a
  view is its four fields (`mode` is `readonly`: `view()` sets it and what is cut out of such a view inherits it), and the history
  variable `root` that says at which version its window was cut out of the list itself. An index operation is the check instruction
  and the access that follows it; a write through a readonly view is refused behind the check. A view or an iterator that cannot be allocated raises.
- **IntChecks**. `pc` is the instruction of the statement; `Wrap` is two's complement; the undefined
  `llabs(INT64_MIN)` is a choice between the values a build produces.

- **JsReference**. The recursion of `execStmt` and `evalExpr` is the sequence `todo` of nodes and ends that are still to come,
  `vals` the values of operands, `comp` a signal or exception in flight, which drops `todo` to the next end that catches it.
  A view is made by `view()` or `slice()` (`mode`); `SetError` refuses writes through the first, as `assignIndex` does.
  `lists` carry the version of `listVersion`.
- **JsLowering**, **CBackend**, **Optimizer**. A context is the builder (blocks, current block, counters, targets, scopes); an instruction
  keeps the fields the later stages read. `CBackend` keeps `tempTypes`, `varTypes`, `mapAliases` and `mapVarAliases`, in the order of the text,
  as the code does. Fractions and NaN of the optimizer's constants are rationals and a flag.
- **GeneratedC**. `frames` are C activations with their locals, `handlers` is `ps_try_stack`, `mem` the cells lists point to (a
  realloc frees the old ones), `last` is `ps_last_exception`, `objects[1]` the static `ps_runtime_exception`. What C leaves undefined ends in
  the mode `undefined`, or `crashed` for a trap.
- **JsLexer** to **JsFrontend**. A source is a sequence of letters, where a word is one letter; `at`, `tokens` and `genericDepth` are
  the lexer's fields. Parser and analyzer are functions of what they get: a result of the parser is the node and the next position or the
  code of the error; the analyzer's environment is its tables, scopes, current prototype and the codes of diagnostics. Files are given as
  trees, and paths by the constants `Scripts` and `FileOf`.
- **TypedRun** runs a body on sets of types instead of values: a variable holds the types it was really given, a call answers what the
  method of every possible receiver declares or below. It looks everything up in the declarations, and uses no table of the analyzer.

- **SysExecute**. Every system call of the parent is a step, `pc` is the place in `sys_execute` (`in`, `out` and `err` are
  the three looks of one turn of the loop), `open` the three flags, `off` `input_off`, `ready` the `revents` the loop
  tests. `mine` and `theirs` are the descriptors each process holds, so that the end of a pipe is what it is
  in the kernel: no writer left anywhere. The child between `fork` and `execve` is the code's; after that it is
  any program: it starts a read or a write (`doing`), is blocked in it as long as the pipe says so, closes
  streams and ends. A read or write poll has reported may move nothing (EAGAIN) or fail; the stream is then closed as at its end,
  and `lost` records it. A failed read of the exec pipe passes for its end, so that the loop may begin before the child has run the
  program. Bytes are counted. `eof`, `hungup`, `ate` and `wrote` record what the child has seen and done.

### Assumptions of the models

- The code of `IrMachine` is any code at all (`TypeOK` and `ErrorSlotClear` are proved for labels that
  exist nowhere and unbalanced pops). `IrScopes` assumes `WellScopedAssumption`; TLC evaluates it on the
  output of `Lowering` for every program of the run `scopes`. Programs the lowering translates into
  code that breaks it (see findings) are run by `machine`.
- `ListViews` has `CutsInvalid`: whether a program cuts a view from an invalidated one. The properties hold
  without that; with it the loop reads vacated slots (section 5).
- `SysExecute` has `SystemFails` (calls and allocations may fail, reads and writes may move nothing) and `Dispositions` (whether SIGPIPE was inherited as
  ignored; nothing under `c/` sets it). Pipes are those of POSIX with Linux's poll. No signal handler is installed by the
  interpreter, so calls are not interrupted. The child stands for all processes that hold its ends.
- `PsMap` has `OutOfMemory` and `Loops`; `Hash` is any function to the naturals.

## 3. Runs

| Run | Question | Instance and why it is enough |
|---|---|---|
| `scopes` | Does the lowering keep the handler stack lexical, does delivery follow it, does every program end with the effects and exception of the reference? | every pair of 15 constructs around 6 leaves, and of 5 constructs around calls, with all scripts of up to 2 conditions: every handler within every other, every exit out of everything. Programs are regular (section 5). Labels 0..40 is more than any sample has |
| `machine` | Do the types and the error slot survive the programs the first run leaves out? | 14 programs and a function that ends in no return, scripts up to 3, two callees |
| `map` | Do table, order and counter agree, is every entry found, does the map implement the ordered map, answers included? | three keys, of which two collide, capacity from 2 (8 in the code) so that the table grows twice and tombstones are reused, two values |
| `map_oom` | The same of searches under allocation failure and a loop; does every set end? | a first capacity of 4 and three keys: the keys are fewer than the slots, so a free slot is always left |
| `ints` | Do checks and computation agree with the reference? | all pairs of 5-bit operands of all operators, in sequence. The tests only compare, subtract and divide limits; the width occurs in them through `IntMax` alone. The sum and difference results are also proved for every width |
| `views` | Does the version test protect every access, and do list, views and loop behave as windows? | two items, capacity from 1 (8 in the code), three changes of length, indices from -1 to 1, allocation failure, views of both kinds. One view variable: a view is cut again out of itself and the loop holds the old one. The items are interchangeable, so TLC takes them up to symmetry |
| `execute` | Does `Sys.execute` close everything, lose nothing and end, whatever child and kernel do? | pipes of one byte, an input of up to 2, outputs of up to 3: each pipe can be full while its writer has more, the input goes out in parts, a stream can hang up with a byte left. All capture flags, both dispositions of SIGPIPE, a failure of any call. Larger pipes add only more bytes in them; what the run says of descriptors and bytes is proved for every size |
| `generated` | Does C generated from a program print and raise what the reference does, with its jump buffers in order, and does it end? Does the code keep the promise of `CScopes`? Is the IR it is made of accepted by the IR's validator, before and after optimization? Does every step of the reference find the operands the front end promises it (`OperandsFit`), so that a valid view lies in its list and an item that passed the index test is there? | 3550 programs: every operator between six ints of 4 bits, pairs of 17 control constructs around 9 leaves, triples of operations on lists and views and on objects, and programs made for the optimizer. 4 bits hold every sign and overflow case. Three jump buffers (64 in the code) are as deep as the samples nest |
| `frontend` | Does the lexer and parser read back what was written, is the bracket count closed, does an accepted program never get stuck? | every expression of two operators, each of 7 types in 5 places, prototypes that override in every right and wrong way, bodies of a declaration and two uses, statements, imports; every one of the analyzer's diagnostics is given by some sample |
| `div_finally`, `div_map_full`, `div_cycle` | Each shows one disagreement (section 5) | the smallest instance with it; `div_cycle` uses that of `frontend` |

Deadlock is checked in `execute`, where it is parent and child waiting for each other; a call that is over may stay so (`Done`). It is
checked in `map`, `map_oom`, `div_map_full` and `views`, whose systems never stop. A program ends, a pass over a source ends,
and a trap ends the process, so the remaining runs do not check it.

**Properties and hazards.** Every property has a mutant in `PROJECT.json`: a change to a mapped definition a
plausible bug would make (a handler not popped, the outermost one entered, an error not cleared, a table
filled to the last slot, a slot freed instead of marked, a view's offset forgotten). The hazards
listed there name the line where each can bite and the properties that would catch it.

**Fairness.** `IrMachine.FairSpec` has weak fairness of `Next`: one thread runs `exec_function` and nothing
can keep it from its next instruction. Termination is of the sample programs, whose scripts end, so that every
condition is false in the end. `PsMap.FairSpec` has weak fairness of the steps of a set that is
under way, for the same reason; nothing obliges a program to begin an operation. `SysExecute.FairSpec` has weak
fairness of parent and child each: the kernel schedules both; and strong fairness of `Moves`, the reads and writes of the
parent that move bytes or see the end: the kernel does not answer EAGAIN for ever where poll reports the stream ready. A child blocked on a pipe takes no step, and a
child that can go on does read, write, close or end, within the bounds `MaxInput` and `MaxOutput`; `CallEnds` allows
for a child that gives up its input (`GaveUp`), where the code does not end (section 5). `MCGenerated` has weak fairness of its
whole `Next`: interpreter and compiled program are one thread each, run one after the other.

## 4. Proofs

All proofs are for every value of the constants, from the assumptions named in the modules.

- **`IrMachine_proofs`**: `TypeCorrect` (`Spec => []TypeOK`) and `SlotClear` (`Spec => []ErrorSlotClear`).
  `TypeOK` is inductive: the cursor stays a pair of positive numbers because `find_block` answers the
  entry block for an unknown label; a run that has activations keeps one while it runs or raises.
- **`IrScopes_proofs`**: `ScopesInvariant` (`Spec => []IInv`), and from it `HandlersLexical`, `Delivered` and
  `LeavesUncovered`; `Caused` has its own induction. That the handler stack is lexical is not inductive
  by itself: a returning callee must find its caller *at a call* (`SuspendedAtCall`), since the scope
  after a call is the scope before it and not after, say, a push; a raise must come from an
  instruction (`RaisedAtInstr`), since only instructions have the clause that ties their handler's
  block to the scope around it; and control must be at the end of a block only where it may run on
  (`EndsFalling`). The proof has one lemma for each way an activation can move (step, jump,
  fall, start, return), about code and positions only, and then one case per action.
- **`IntChecks_proofs`**: `ChecksSuffice` (`IInv`: the variable stays an int, and the computation is never reached
  with a zero divisor, a shift out of range or a sum that is no int) and `SumsExact`. The strengthening over
  `TypeOK` is what a passed check has established about the operands while `pc = "compute"`. `ReferenceAgrees`
  (`AgreesWithReference`): away from `Boundary` every statement raises when the reference does and publishes what it publishes. A check of
  a product compares a factor with a quotient; that this is the product's being an int is `ProductCheck`, from the definition of
  the quotient and monotony of products (`AboveQuotient`, `AbsProduct`), since the solver does no multiplication of two unknowns.
  What the check of a product leaves to the computation had to be added to `IInv`: two states apart, the action property alone does not see it.
- **`ListViews_proofs`**: `ViewsFit` (`ValidViewsFit`) and `LoopsReadOnlyElements` (`LoopsReadElements`), under
  `CutsInvalid = FALSE`. The invariant is said view by view (`Good`): a valid view lies in the list and was
  cut at the current version; every change of length raises the version above those of all views, and a view cut
  from a usable view inherits the bound. The loop's own view is one of them, which is why the read
  without a length test is safe. `WellFormed` (`TypeOK`) rests on the same invariant: an open view's place is a list index.
  `ViewsRefineWindows` (`Spec => ImplementsViewedList`), under the same assumption: every step of `ListViews` is the step of
  `ViewedList` of the same name, or a stutter. One lemma per operation; they meet in `ReachIsInside`, that an index the view's
  test lets through lies inside the window of the abstract list, and in `ResizeCloses`, that a change of length closes exactly
  the windows whose version it passes.
- **`PsMap_proofs`**: `HalfOfTheTable` (`HalfEmpty`) and `LoopsFindTheirKeys` (`LoopNeverRaises`), for every hash, every failing
  allocation and every loop. The invariant `Counted` ties the counter to the capacity on one side and to the order on the other
  (`len <= Len(order)`): the loop's test reads `len` and its step the order, so that it is the second that keeps the step inside.
  That a grown table has room for one more is `RoomForOne`: while at least half of the slots hold no entry one doubling is enough,
  so that the loop of doublings stops at its first.

  `EntriesFound` (`EntriesAreFound`), whatever allocation fails, from the invariant `IInv == Counted /\ Tabled /\ Searching`.
  The slots of a search are a circle through the table: `AtCircle`, from quotient and remainder (`ModUnique`, `ModShift`). A table is
  *placed* if no free slot comes before an entry in the search for its key, and *distinct* if no key has two; both survive a write to the
  first tombstone or the free slot at which a search has ended (`EntryPlaced`), a tombstone in the place of an entry (`EntryChanged`), and a
  new table. Neither is inductive without what the loop of `ps_map_set` has seen on its way (`Searching`: no free slot, no entry of its key,
  and the tombstone it remembers): only this says that the key it inserts is nowhere in the table (`SearchExhausted`). The new table
  is a fold over the old slots. `RehashedBySlots` takes it apart into one step per slot; the induction that needs is about sets of
  numbers (`EveryNat`, by the least element), since a theorem of induction for predicates cannot be instantiated. Each step finds a free
  slot, because the slots taken are fewer than the slots of the old table (`OneMoreSlot`, by cardinalities), and adds one entry.

  `OrderMatches` (`OrderMatchesTable`) and `MapRefinesOrderedMap` (`Spec => ImplementsOrderedMap`) assume `~OutOfMemory`: an order that
  cannot grow leaves an entry in the table that it does not list (`NoOrder`), so that both are false without. `Listed` says that
  the order has the key of every entry once; every step of the map is then the step of `OrderedMap` of the same name, or a stutter, a set that
  makes a new table included (`NextOrdered`). `TypeCorrect` (`TypeOK`) rests on `IInv` as well. `IInv` and `Listed` were checked with TLC before
  they were proved, under the constants of `map` and `map_oom`.

- **`CScopes_proofs`**: `ScopedInvariant` and `ScopedHandlersAreLive` (`Spec => []HandlersAreLive`), for any
  number of functions, blocks, activations and handlers. `ps_try_stack` is global: a return takes nothing off, and `pop_handler` takes whichever is
  last. That each buffer is of a living activation is not inductive, because nothing in the stack says that a pop takes the
  activation's own. `IInv` divides the stack into consecutive parts, one per activation in the order of the activations (`cut`, `own`), and says that the
  labels of each part are handlers its code may have pushed at the position where the activation is (`Placed`). A push, a pop, a call and a
  return each change the division at its inner end (`PushPart`, `DropPart`, `CallPart`, `ReturnPart`); a longjmp (`RaisesSInv`) drops all inner
  activations at once, and their parts are empty because its buffer is the last of the stack. That ids
  of activations are distinct (`Numbered`) is what makes the search for the buffer's activation find the right one (`FirstOwner`). `HandlersAreLive`
  is about programs that are `ProgramScoped`, which is about the text of a program alone; `EmittedCodeIsScoped` checks it on the C code of every regular program of `generated`, and it fails where a jump leaves a
  try (section 5).

  `OptimizedIsValid` and `OptimizedCodeIsScoped`, of any function that passes `IrValidator`, in a program of such functions. What the optimizer
  makes of it passes it again; and if the C of the function keeps to scopes, so that `ScopedHandlersAreLive` holds of it, then so does the
  C of the optimized function. No unproved fact about optimizer or generator is left in between: `inlineCalls`, `constantPropagation`,
  `reduceRedundantChecks`, `optimizeIR` and `emitFunctionBody` are in the theorems as they are in the models. Both rest on the relation
  `Along(m, s, k, t)`: `m` gives every instruction of `t` a place in `s`, never going back; it is the instruction there, or a valid new one
  that leaves handlers and control alone in the place of one that did; and each instruction of `s` in `Control` (jumps, branches,
  returns, handlers) is in `t` once. A pass that leaves out a check or puts eight instructions in the place of a call keeps to this; a pass that left
  out a `pop_handler` or moved one past a jump would not. That the relation is passed on (`FollowsThrough`) makes one of three passes,
  the generator's cut behind the first terminator keeps it (`CutFollows`), and the handlers of `t` at a position are those of `s` at its place
  (`FollowingIsScoped`). A block that loses all its instructions would be invalid; the last conjunct of `Along` excludes it. The passes are
  folds: each is taken apart into one step per element (`Runs`), and the inductions are about sets of positions (`EveryNat`, `UpTo`).
- **`JsReference_proofs`**: `ReferenceInvariant` (`IInv`), and from it `ValidViewsFitReference` (`ValidViewsFit`) and `IndexedIsThereReference`
  (`IndexedIsThere`), for every program and any number of lists and of views cut from views. Their hypothesis is `[]OperandsFit`: what the
  interpreter is promised and does not test. Only lists and views are indexed and cut, those that are there, and by ints: this is the
  front end's part. And a view of a view lies in it (`SubviewsFit`): this is the program's, because `makeView` compares
  with the list behind the view (`src/runtime.js:801`); without it a valid view need not lie in its list. The run `generated` checks `OperandsFit` in every state of
  every regular program. The invariant adds to `ValidViewsFit` that no view's version is later than its list's (or a change of the list could
  bring an old view back). What a step does to lists and views is one of four things: nothing, a new list, a list that is later or as
  long as it was (`Later`), a new view that fits; each has its lemma, and each action is shown to do one of them.
- **`SysExecute_proofs`**: `CallInvariant` (`Spec => []IInv`), and from it `NoDescriptorLeaks`, `NoOutputLost` and
  `NoInputLost`, for every size of a pipe and a read, every input, every child. None of the three is inductive.
  The parent's descriptors are determined by its place (`MineByPlace`), which needs that the pipes are made in
  order; a captured stream the loop has closed at its end has no bytes and no writer left (`OutputKept`), which needs that the end is not seen
  before the child has given up its copies: until it runs the program it holds every end (`TheirsByPlace`), also when a failed read of the exec
  pipe lets the loop begin early; input sent is read or in the pipe, and the parent's end is open while some is
  to be sent (`InputKept`). Streams a read or write of which failed (`lost`) are excepted: their bytes are dropped, without a word to the
  caller (section 5). One case per step of either process, one leaf per conjunct the step can disturb.

Only model-checked: liveness (`Termination`, `SetEnds`, `CallEnds`), which the prover does not reach;
`OutcomeMatchesReference` of `scopes` and `generated` and the properties of `frontend`, because
they speak of the output of recursive operators (the lowerings, `StructuredRun`, the parser, the analyzer); of `EmittedIrIsValid` and `EmittedCodeIsScoped` what is
about the lowering, for the same reason: that its functions are valid and their C is scoped. What the optimizer does to them is proved. `OperandsFit` of `generated`, which is about what the sample programs
give the reference, and is what the theorems of `JsReference_proofs` start from.

## 5. Where the code and the documents part

The first two were also seen in a native build. They are listed as findings.

| Run | What happens |
|---|---|
| `div_finally` | `try` with both `catch` and `finally`: an exception that no clause matches skips the finally block (`c/frontend.c:9842`). SPEC 3232: "`finally` est toujours exécuté" |
| `div_cycle` | modules that import each other are accepted: a module is entered as loaded before its own imports are resolved, so that the test for a cycle never fires (`src/frontend.js:2443`, `2423`). `docs/module_user_specification.md` 221: "Les dépendances cycliques entre modules sont interdites" |
| `div_map_full` | inserting and removing distinct keys fills a table with tombstones; the next new key probes for ever (`ps_map.c:251`). SPEC 811 |

Met while modelling, and kept in the models as the code has them, without a run of their own:

- `break` and `continue` leave a try body without `pop_handler`: a later exception is sent back into it (`c/frontend.c:9995`; SPEC 3233).
  Seen in a native build, like the next two; the program `breakInTry` of `machine` runs it.
- A view cut from an invalidated view passes for valid, and a loop over it reads vacated slots (`ps_vm.c:2186`; SPEC 3750):
  `ListViews` with `CutsInvalid`.
- A child that ends with its input pipe full: poll answers POLLERR, the loop looks for POLLOUT only and turns for ever, and the child is
  not waited for (`c/modules/sys.c:516`; `docs/module_sys_execute_specification.md` 171). `CallEnds` excepts it by `GaveUp`.
- `clone` and `sort` raise without taking the callee's exception out of the context (`ps_vm.c:2790`, `3357`; SPEC 3227);
  `PropagateToCallback` does just that, and `RaiseHasCause` is stated without callbacks.
- A try inside a finally block overwrites the exception that is pending (`c/frontend.c:9963`; SPEC 3233).
- Clauses of a `for` are taken by position, so an omitted one shifts the rest (`c/frontend.c:10443`; SPEC 2542).
- A `switch` without case and default leaves its block unterminated (`c/frontend.c:10313`; SPEC 4311).
- When the order of a map cannot grow the entry is already in the table: it is found and never iterated
  (`ps_map.c:264`; SPEC 821). `map_oom` therefore claims only what survives it.
- Changing a list or a map while iterating over it raises nothing (`ps_vm.c:2299`, `2327`; SPEC 3538).
- The check of a product refuses products equal to the least int and lets the least int times an even
  number through (`ps_vm.c:1927`); the least int divided by -1 traps; `<<` wraps where the reference raises.
  `Boundary` in `IntChecks` is exactly this list, and `AgreesWithReference` holds off it.
- A failure behind the fork (`fcntl`, the list of events, poll, an event) raises without `waitpid`: the child runs on and is
  never reaped (`c/modules/sys.c:511`; `docs/module_sys_execute_specification.md` 39: "returns only after the child process has
  terminated"). `NoLoop`, `PollFails` and `EventFails` have it so.
- A read or write of a stream that fails with anything but EAGAIN closes the stream as its end does, and a failed read of the exec pipe passes
  for a started program: the result is truncated and no exception says so (`c/modules/sys.c:410`, `524`, `564`, `604`;
  `docs/module_sys_execute_specification.md` 164: "unexpected system error → `IOException`"). `TransferFails` and `ExecRead` have it so.
- `++`, `--` and unary minus have no overflow check and store the wrapped value (`c/frontend.c:8837`; SPEC 3523).
- A child that closes its input or ends with room left in the pipe makes the next write raise SIGPIPE, which ends the
  interpreter (`c/modules/sys.c:517`); `WriteBroken` has it as `killed`, and `GaveUp` in `CallEnds` names it.
- The view of variadic arguments points to an array its call frees (`ps_vm.c:1685`; SPEC 2084).

In the JavaScript lowering, the optimizer and the generated C (`generated` runs these programs too, but claims the outcome only
for the *regular* ones, away from this list):

- `break`, `continue` and `return` leave a try without `pop_handler`; the array of jump buffers fills, and a later raise jumps into an
  activation that has returned (`ir.js:1066`, `c_backend.js:961`). A finally block is skipped when there are clauses and none matches
  (`ir.js:986`); a try inside a finally block changes what `rethrow` raises, because it raises `ps_last_exception`.
- Lists are headers copied by value: a push inside a called function, or through a second variable in a branch, leaves the header of the
  other stale (`c_backend.js:4247`). `for-of` takes the length when it begins.
- A view of a view is checked against the list by one and against the view by the other, and cutting it out of an invalid one is refused by
  the reference alone. The one that compares with the list is the reference (`runtime.js:801`), where a view of a view may reach beyond it, although
  bounds are to be respected ("exception runtime lorsque hors bornes", `MANUEL_REFERENCE.md` 2080); `SubviewsFit` says that a program does not do this. The C tests an index before the validity of the view. `view()` without arguments is an error of the reference.
- `++` and `--` through a readonly view pass the analyzer, which refuses assignments only (`frontend.js:2686`, E3004); the reference then raises
  R1010 (`runtime.js:3670`) and the C writes the element (`c_backend.js:4916`). The program `bump` does this.
- The unary minus and `++`, `--` have no check in C, nor has what `<<` shifts out; the least int divided by -1 traps.
- A conditional expression evaluates both branches in C (`ir.js:1416`), and parts of an assignment target are evaluated before its value in the
  reference and behind it in C.
- Inherited methods: lowering makes a copy for every receiver, whose calls of `self` go to that receiver's methods, and the reference
  binds them to the declaring prototype (SPEC 754). `P p;` without a value ignores the initial values of fields in the reference.
- A function with an empty body is lowered to an entry block without an instruction (`ir.js:816`; `tests/edge/manual_ex090.pts` has one), which the
  validator refuses ("must contain at least one instruction", `ir.js:2303`; `IR_FORMAT.md` 63). `generateC` does not call the validator
  (`IR_FORMAT.md` 86: "Les backends C MUST valider le document IR avant consommation"). The samples have no empty body.
- The optimizer computes with numbers of JavaScript: `/` of ints gives fractions, shifts have 32 bits, `true` as a literal is not the text it
  compares with (`optimizer.js:125`: `true != false` folds to false; SPEC 2989).

In the front end (`frontend` keeps its regular programs away from what is marked *):

- `-` and the comparison, sum and product operators are recognised by the text of a token whatever its kind: a string `"-"` in the
  place of an operand is a syntax error (`frontend.js:1239`; SPEC 4360). A cast may not follow a unary operator*, and an assignment
  has to begin with a name or `self` (SPEC 4326).
- `internal` does not open a context of types, so `internal list<list<int>> f;` is read with a shift* (`frontend.js:263`). `/*/` at the
  end of a source is a closed comment.
- Not checked at all*: the type of a returned value and of arguments (only their number), operands of unary operators, what is
  indexed, the conditions of `for`, the index of an assigned element, methods of built-in values that do not exist. A list or map literal has the
  type of its first item (`frontend.js:3054`). Duplicate functions are accepted.
- Prototypes that inherit in a circle send `isSubtype` round for ever* (`frontend.js:2305`). Imports of a loaded module become names of
  the importer.
- The length of a list is followed along the text (`frontend.js:3484`): `pop` in a branch that is not taken counts. Constants of
  groups are folded by the optimizer with its faults: `true && true` is false, `1/2` is a half.

*Regular* programs of the C lowering (`SamplePrograms.Regular`) are the samples without those constructs: no jump or return out of a try body, no try inside
a finally block, all clauses of a `for` or none, a clause that matches wherever catch and finally are joined.

## 6. What is not modelled, and why

In the C chain, expressions, declarations and the values of variables: control only needs their truth. `for-in`/`for-of` are not part of
`Lowering`; their iterator instructions are in `ListViews` and `PsMap`. The parser and type checker in C, diagnostics, formatting, the preprocessor and command lines are sequential passes without state.
Time, Debug and the browser's Sys are input and output or depend on data outside the repository. Messages of
errors are left out everywhere. Floats are left out of `IntChecks`. The map's search for a key is one step, since
no other thread can see its middle.

In the JavaScript chain, maps, strings, floats and bytes at run time, JSON, files and native modules are left out of `JsReference`, `JsLowering` and
`GeneratedC`; the analyzer knows their types and methods. Positions, the wording of
diagnostics, suggestions and the semantic model that editors ask for (`frontend.js` from 3558) are left out, as are the printer of the IR
(`ir.js` from 2031) and the validator's rules on names and types, on the kinds of values in fields, and on the fields `mode` and `width`, which the models do not have. Lists share cells by reference in the reference and by address in C; the host's collector is not modelled.

## 7. Plan

Done: the interpreter's control and its lowering, the map, lists with views, integers, `Sys.execute`; the JavaScript front end; lowering, optimizer
and generated C against the reference interpreter.

1. **`Refs`**: reference counts. Temporaries, bindings, list slots and the argument array of a call as owners; one
   action per instruction that stores, takes or drops a value. Invariant: the count of a value is the number of
   its owners, plus what a native in progress holds. Aimed at `ps_vm.c:3287` (pop), `1685` (variadic views) and `2165` (`make_map`).
2. **`MergeSort`**: `sort` as merge passes over slots held by address, with the comparison as a callback that may change the
   list or raise; abstract specification: a stable sort, or the list as it was.
3. Maps and strings in `JsReference`, `JsLowering` and `GeneratedC` (maps are headers by value too).
4. The two lowerings on the same programs: where do the two producers of one IR differ?
5. JSON values and the files of `Io` in the run-time models.
6. **`Modules`** (loader with last error) and **`IoFiles`** (open, use, close).
7. Functions: UTF-8 validation and glyph positions, regular expressions with their budget, against reference definitions
   over bounded inputs.

Theorems to come: ownership in `Refs`; that `MergeSort` keeps the elements of its list, whatever its comparison does.
