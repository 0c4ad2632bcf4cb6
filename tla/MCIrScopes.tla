------------------------------ MODULE MCIrScopes ------------------------------
(***************************************************************************)
(* The interpreter on the lowering of regular programs: every two nested   *)
(* constructs around every leaf, and a few around a call, each with every   *)
(* script of at most MaxScript truth values.                                *)
(***************************************************************************)
EXTENDS IrScopes, SequencesExt

CONSTANT MaxScript

INSTANCE SamplePrograms
Low == INSTANCE Lowering
Ref == INSTANCE StructuredRun

Shapes == <<"if", "else", "while", "dowhile", "for", "forever", "case", "default",
            "tryA", "tryBRt", "catch", "tryFin", "finally", "tryAllFin", "pending">>
Raisers == <<"tryA", "tryBRt", "tryFin", "catch", "while">>
LeafKinds == <<"throwA", "throwC", "fault", "return", "break", "continue">>
Callees == <<<<"none", "throwB">>, <<"tryFin", "fault">>, <<"while", "return">>>>

\* The pairs of elements of two sequences, in order.
Pairs(s, t) == [i \in 1..(Len(s) * Len(t)) |->
                  <<s[((i - 1) \div Len(t)) + 1], t[((i - 1) % Len(t)) + 1]>>]
Around(ss, l) == [i \in DOMAIN ss |-> <<"none", ss[i][1], ss[i][2], l, "none", "mark">>]
Calling(ss, c) == [i \in DOMAIN ss |-> <<"none", ss[i][1], ss[i][2], "call", c[1], c[2]>>]

Samples ==
  SelectSeq(   FlattenSeq([l \in DOMAIN LeafKinds |-> Around(Pairs(Shapes, Shapes), LeafKinds[l])])
            \o FlattenSeq([c \in DOMAIN Callees |-> Calling(Pairs(Raisers, Shapes), Callees[c])]),
            Regular)

MCPrograms  == DOMAIN Samples
MCFunctions == {"main", "g"}
\* The lowering of every sample, computed once.
Lowered == SelectSeq([i \in MCPrograms |-> [main |-> Low!LowerFunction(Bodies(Samples[i]).main),
                                           g    |-> Low!LowerFunction(Bodies(Samples[i]).g)]],
                     LAMBDA x : TRUE)
MCIR(p, f)  == Lowered[p][f]
MCScripts == UNION {[1..n -> BOOLEAN] : n \in 0..MaxScript}
MCLabels  == 0..40

-----------------------------------------------------------------------------
\* The program ends as the reference interpreter of src/runtime.js says it
\* does: the same effects in the same order, and the same exception or none.
OutcomeMatchesReference ==
  mode \in {"ok", "failed"} =>
    LET ref == Ref!RunProgram(Bodies(Samples[prog]), "main", script)
    IN  out = ref.out /\ (IF mode = "ok" THEN NoExn ELSE ctxExn) = ref.exn

\* Every run of a regular program ends: no handler is left behind that would
\* send control back into code already left.
Termination == <>(mode \in {"ok", "failed"})
=============================================================================
