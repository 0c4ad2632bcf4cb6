-------------------------------- MODULE Passes --------------------------------
(***************************************************************************)
(* A pass over a sequence.  It is FoldLeft of SequencesExt by a recursion   *)
(* on positions: FoldLeft recurs on the set of the positions left, which is *)
(* too slow for the sequences of instructions here.  The set of one element *)
(* makes TLC evaluate a result once, before it is used.                     *)
(***************************************************************************)
EXTENDS Integers, Sequences

Pass(op(_, _), base, s) ==
  LET after[i \in 0..Len(s)] ==
        IF i = 0 THEN base
        ELSE CHOOSE r \in {op(before, s[i]) : before \in {after[i - 1]}} : TRUE
  IN  after[Len(s)]
=============================================================================
