---------------------------- MODULE MCIntChecks ----------------------------
(***************************************************************************)
(* Ints of five bits: every pair of operands, and every shift in and out   *)
(* of range.                                                               *)
(***************************************************************************)
EXTENDS IntChecks

MCPow2 == [i \in 0 .. Width - 1 |-> 2 ^ i]
=============================================================================
