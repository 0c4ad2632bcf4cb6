------------------------------ MODULE IrValidator ------------------------------
(***************************************************************************)
(* What validateSerializedIR of src/ir.js asks of a function that lowering  *)
(* or the optimizer made: its blocks, their labels, the operations with     *)
(* their fields, and the targets of the jumps.  Names, types and the kinds  *)
(* of what the fields hold are left out.                                    *)
(***************************************************************************)
EXTENDS Integers, Sequences, SequencesExt

\* print stands for call_builtin_print.
KnownOps ==
  {"var_decl", "load_var", "store_var", "const", "copy", "unary_op", "bin_op", "postfix_op",
   "call_static", "call_method_static", "call_unknown", "print", "call_builtin_tostring",
   "push_handler", "pop_handler", "get_exception", "exception_is", "rethrow", "make_view",
   "index_get", "index_set", "check_int_overflow", "check_int_overflow_unary_minus",
   "check_div_zero", "check_shift_range", "check_index_bounds", "check_view_bounds",
   "check_map_has_key", "ret", "ret_void", "throw", "branch_if", "jump", "iter_begin",
   "branch_iter_has_next", "iter_next", "select", "make_list", "make_map", "make_object",
   "member_get", "member_set", "break", "continue", "nop", "unknown_expr", "unhandled_stmt"}

\* requireFields, under the names the fields have here: a literal's type is
\* type, the values of a select are then and else, what print gets is value;
\* mode and width have no field.
Required ==
  [var_decl |-> {"name", "type"}, load_var |-> {"name", "type", "dst"}, store_var |-> {"name", "src"},
   const |-> {"dst", "type"}, copy |-> {"dst", "src"}, unary_op |-> {"dst", "src", "operator"},
   bin_op |-> {"dst", "left", "right", "operator"}, postfix_op |-> {"dst", "target", "operator"},
   call_static |-> {"dst", "callee", "args"}, call_method_static |-> {"dst", "receiver", "method", "args"},
   call_unknown |-> {"dst", "callee", "args"}, print |-> {"value"}, call_builtin_tostring |-> {"dst", "value"},
   push_handler |-> {"target"}, get_exception |-> {"dst"}, exception_is |-> {"dst", "value", "type"},
   make_view |-> {"dst", "source", "offset", "len", "readonly"}, index_get |-> {"dst", "target", "index"},
   index_set |-> {"target", "index", "src"}, check_int_overflow |-> {"left", "right", "operator"},
   check_int_overflow_unary_minus |-> {"value"}, check_div_zero |-> {"divisor"},
   check_shift_range |-> {"shift"}, check_index_bounds |-> {"target", "index"},
   check_view_bounds |-> {"target", "offset", "len"}, check_map_has_key |-> {"map", "key"},
   ret |-> {"value"}, throw |-> {"value"}, branch_if |-> {"cond", "then", "else"}, jump |-> {"target"},
   iter_begin |-> {"dst", "source"}, branch_iter_has_next |-> {"iter", "then", "else"},
   iter_next |-> {"dst", "iter", "source"}, select |-> {"dst", "cond", "then", "else"},
   make_list |-> {"dst", "items"}, make_map |-> {"dst", "pairs"}, make_object |-> {"dst", "proto"},
   member_get |-> {"dst", "target", "name"}, member_set |-> {"target", "name", "src"}]

InstrIsValid(i) ==
  /\ "op" \in DOMAIN i
  /\ i.op \in KnownOps
  /\ i.op \in DOMAIN Required => Required[i.op] \subseteq DOMAIN i

IsArray(s) == s \in Seq(Range(s))

BlockIsValid(b) ==
  /\ {"label", "instrs"} \subseteq DOMAIN b
  /\ IsArray(b.instrs)
  /\ b.instrs # <<>>
  /\ \A j \in DOMAIN b.instrs : InstrIsValid(b.instrs[j])

Entry == 0  \* the label "entry"
Labels(fn) == {fn.blocks[b].label : b \in DOMAIN fn.blocks}
LabelsDiffer(fn) ==
  \A a, b \in DOMAIN fn.blocks : fn.blocks[a].label = fn.blocks[b].label => a = b

\* The target of a push_handler is not looked at.
Targets(i) == CASE i.op = "jump" -> {i.target}
                [] i.op \in {"branch_if", "branch_iter_has_next"} -> {i.then, i.else}
                [] OTHER -> {}
TargetsExist(fn) ==
  \A b \in DOMAIN fn.blocks : \A j \in DOMAIN fn.blocks[b].instrs :
    Targets(fn.blocks[b].instrs[j]) \subseteq Labels(fn)

IsValid(fn) ==
  /\ {"params", "ret", "blocks"} \subseteq DOMAIN fn
  /\ IsArray(fn.blocks)
  /\ fn.blocks # <<>>
  /\ \A b \in DOMAIN fn.blocks : BlockIsValid(fn.blocks[b])
  /\ LabelsDiffer(fn)
  /\ Entry \in Labels(fn)
  /\ TargetsExist(fn)
=============================================================================
