------------------------------- MODULE CBackend --------------------------------
(***************************************************************************)
(* The part of src/c_backend.js that reads the IR before and while it       *)
(* writes C: the types it gives to temporaries and variables                *)
(* (inferTempTypes), the variable it takes a temporary of list type to      *)
(* stand for (emitInstr), and where it cuts a block (emitFunctionBody).     *)
(*                                                                         *)
(* A function comes as the lowering leaves it: [params, ret, blocks].       *)
(* Variables and temporaries are numbers and share one name space.          *)
(***************************************************************************)
EXTENDS Integers, Sequences, SequencesExt, FiniteSets, TLC, Passes

CONSTANT Protos  \* as in the lowering

Lineage[p \in DOMAIN Protos] ==
  <<p>> \o (IF Protos[p].parent = "none" THEN <<>> ELSE Lineage[Protos[p].parent])

AllInstrs(fn) == FlattenSeq([i \in DOMAIN fn.blocks |-> fn.blocks[i].instrs])

-----------------------------------------------------------------------------
\* inferTempTypes.  types: names to types, "none" while there is none.

Containers == {"list", "view"}
Comparisons == {"==", "!=", "<", "<=", ">", ">="}

\* What the fields of an object are inferred to be.
MemberType(t, f) ==
  IF t \notin DOMAIN Protos THEN "none"
  ELSE IF f = "code" THEN "string"
  ELSE IF \E q \in Range(Lineage[t]) : \E d \in Range(Protos[q].fields) : d.name = f THEN "int"
  ELSE "none"

\* What a method answers; a receiver without a type, or a method the
\* inference does not list, is taken to answer an int.
MethodAnswer(t, m) ==
  CASE t = "list" /\ m = "contains"   -> "bool"
    [] t = "list" /\ m = "removeLast" -> "void"
    [] OTHER                          -> "int"

\* The type that instruction i is a reason to give to its destination.
DstType(i, types, fnRet) ==
  CASE i.op = "const"         -> i.type
    [] i.op = "get_exception" -> "Exception"
    [] i.op = "exception_is"  -> "bool"
    [] i.op \in {"copy", "unary_op"} -> types[i.src]
    [] i.op = "load_var"      -> IF i.type = "unknown" /\ types[i.name] # "none" THEN types[i.name] ELSE i.type
    [] i.op = "bin_op"        -> IF i.operator \in Comparisons THEN "bool" ELSE types[i.left]
    [] i.op = "call_static"   -> fnRet[i.callee]
    [] i.op = "call_method_static" -> MethodAnswer(types[i.receiver], i.method)
    [] i.op = "member_get"    -> MemberType(types[i.target], i.name)
    [] i.op = "make_object"   -> i.proto
    [] i.op = "select"        -> types[i.then]
    [] i.op = "make_view"     -> IF types[i.source] \in Containers THEN "view" ELSE "none"
    [] i.op = "iter_begin"    -> "iter"
    [] i.op = "iter_next"     -> IF types[i.source] \in Containers THEN "int" ELSE "none"
    [] i.op = "index_get"     -> IF types[i.target] \in Containers THEN "int" ELSE "none"
    [] i.op = "make_list"     -> "list"
    [] OTHER                  -> "none"

\* The first type a name is given stays ...
FirstType(types, x, t) == IF types[x] = "none" THEN [types EXCEPT ![x] = t] ELSE types
\* ... but a store gives the type of a variable to a temporary that has none,
\* or an unknown one, and that of a temporary to such a variable.
StoreTypes(types, i) ==
  LET s == types[i.src]
      v == IF types[i.name] \in {"none", "unknown"} /\ s # "none" THEN s ELSE types[i.name]
  IN  [types EXCEPT ![i.name] = v, ![i.src] = IF s \in {"none", "unknown"} THEN v ELSE s]

InferInstr(types, i, fnRet) ==
  CASE i.op = "var_decl"  -> [types EXCEPT ![i.name] = i.type]
    [] i.op = "store_var" -> StoreTypes(types, i)
    [] "dst" \in DOMAIN i -> FirstType(types, i.dst, DstType(i, types, fnRet))
    [] OTHER              -> types

\* Passes over the function until one changes nothing: each of the others
\* gives a name a type, twice for a name of unknown type.
InferFrom(is, types, fnRet) ==
  LET pass(ts) == Pass(LAMBDA acc, i : InferInstr(acc, i, fnRet), ts, is)
      step(p, n) == IF p.old = p.new THEN p ELSE [old |-> p.new, new |-> pass(p.new)]
      passes == 2 * Cardinality(DOMAIN types)
  IN  Pass(step, [old |-> types, new |-> pass(types)], [n \in 1..passes |-> n]).new

\* Every name a function writes.
Names(fn) ==
  UNION {CASE "dst" \in DOMAIN i -> {i.dst}
           [] i.op = "var_decl"  -> {i.name}
           [] OTHER              -> {} : i \in Range(AllInstrs(fn))}
  \cup DOMAIN fn.params

InferTempTypes(fn, fnRet) ==
  InferFrom(AllInstrs(fn),
            FoldSet(LAMBDA x, ts : (x :> IF x \in DOMAIN fn.params THEN fn.params[x] ELSE "none") @@ ts,
                    <<>>, Names(fn)),
            fnRet)

-----------------------------------------------------------------------------
\* Aliases.  A list is a header {ptr, len, cap, version} copied by value, so
\* that a method that changes it has to work on the variable a temporary was
\* loaded from.  temps: temporary to variable; vars: variable to the variable
\* it was last stored from, in the order in which instructions are written.

NoAliases == [temps |-> <<>>, vars |-> <<>>]
Bind(f, x, v) == [y \in DOMAIN f \cup {x} |-> IF y = x THEN v ELSE f[y]]
Unbind(f, x)  == [y \in DOMAIN f \ {x} |-> f[y]]
NoAlias(temps, x) == x
AliasOf(temps, x) == IF x \in DOMAIN temps THEN temps[x] ELSE x
\* From variable to variable, to one that stands for itself.
ResolveVarAlias(a, x) ==
  Pass(LAMBDA y, step : IF y \in DOMAIN a.vars THEN a.vars[y] ELSE y, x,
           [step \in 1..Cardinality(DOMAIN a.vars) |-> step])

IsAliasTracked(t) == t = "list"
Alias(a, i) ==
  CASE i.op = "var_decl" /\ IsAliasTracked(i.type) -> [a EXCEPT !.vars = Bind(@, i.name, i.name)]
    [] i.op = "load_var" ->
         [a EXCEPT !.temps = IF IsAliasTracked(i.type) THEN Bind(@, i.dst, ResolveVarAlias(a, i.name))
                             ELSE Unbind(@, i.dst)]
    [] i.op = "store_var" /\ IsAliasTracked(i.type) ->
         [a EXCEPT !.vars = Bind(@, i.name, IF i.src \in DOMAIN a.temps
                                            THEN ResolveVarAlias(a, a.temps[i.src]) ELSE i.name)]
    [] i.op = "copy" ->
         [a EXCEPT !.temps = IF i.src \in DOMAIN @ THEN Bind(@, i.dst, ResolveVarAlias(a, @[i.src]))
                             ELSE Unbind(@, i.dst)]
    [] OTHER -> a

-----------------------------------------------------------------------------
\* emitFunctionBody.

\* The list terminators of the code: it names "return", which is no
\* instruction, and neither ret nor throw.
Cuts == {"jump", "branch_if", "branch_iter_has_next", "return", "rethrow"}
CutBlock(b) ==
  LET at == {j \in DOMAIN b.instrs : b.instrs[j].op \in Cuts}
  IN  IF at = {} THEN [b EXCEPT !.instrs = Append(@, [op |-> "default_return"])]
      ELSE [b EXCEPT !.instrs = SubSeq(@, 1, CHOOSE j \in at : \A h \in at : j <= h)]

\* The variable a list instruction is written for, and the C type it is
\* written for: a name without a type is an int.  The strings are error codes.
CType(t) == CASE t \in {"none", "unknown"} -> "int" [] t = "string" -> "code" [] OTHER -> t
TypeOf(types, x) == CType(types[x])
EmitInstr(i, a, types) ==
  CASE i.op = "call_method_static" ->
         [op |-> i.op, dst |-> i.dst, receiver |-> i.receiver, ref |-> AliasOf(a.temps, i.receiver),
          type |-> TypeOf(types, i.receiver), method |-> i.method, args |-> i.args]
    [] i.op = "make_view" ->
         [op |-> i.op, dst |-> i.dst, source |-> i.source, ref |-> AliasOf(a.temps, i.source),
          type |-> TypeOf(types, i.source), offset |-> i.offset, len |-> i.len, readonly |-> i.readonly]
    [] i.op \in {"index_get", "index_set"} ->
         [op |-> i.op, target |-> i.target, type |-> TypeOf(types, i.target), index |-> i.index,
          dst |-> IF i.op = "index_get" THEN i.dst ELSE 0, src |-> IF i.op = "index_set" THEN i.src ELSE 0]
    [] i.op = "iter_begin" ->
         [op |-> i.op, dst |-> i.dst, source |-> i.source, type |-> TypeOf(types, i.source)]
    [] i.op = "iter_next" ->
         [op |-> i.op, dst |-> i.dst, source |-> i.source, iter |-> i.iter, type |-> TypeOf(types, i.source)]
    [] OTHER -> i

\* acc: the types, the aliases so far, what is written of the block and the blocks.
EmitNext(acc, i) == [acc EXCEPT !.a = Alias(@, i), !.is = Append(@, EmitInstr(i, acc.a, acc.types))]
EmitBlock(acc, b) ==
  LET done == Pass(EmitNext, [acc EXCEPT !.is = <<>>], CutBlock(b).instrs)
  IN  [done EXCEPT !.blocks = Append(@, [label |-> b.label, instrs |-> done.is])]
CTypes(types) == FoldSet(LAMBDA x, ts : (x :> TypeOf(types, x)) @@ ts, <<>>, DOMAIN types)
EmitFunctionBody(fn, fnRet) ==
  LET all == Pass(EmitBlock, [types |-> InferTempTypes(fn, fnRet), a |-> NoAliases, is |-> <<>>, blocks |-> <<>>],
                  fn.blocks)
  IN  [params |-> Len(fn.params), types |-> CTypes(all.types), blocks |-> all.blocks]

\* generateC
GenerateC(fns) ==
  LET fnRet == FoldSet(LAMBDA f, rs : (f :> fns[f].ret) @@ rs, <<>>, DOMAIN fns)
  IN  FoldSet(LAMBDA f, cs : (f :> EmitFunctionBody(fns[f], fnRet)) @@ cs, <<>>, DOMAIN fns)
=============================================================================
