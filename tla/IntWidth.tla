-------------------------------- MODULE IntWidth --------------------------------
(***************************************************************************)
(* The ints of a program, of which there are 2^64 in the code.              *)
(***************************************************************************)
EXTENDS Integers

CONSTANT Width  \* of an int, in bits

ASSUME WidthAssumption == Width \in Nat \ {0}

Int64Min == -(2^(Width - 1))
Int64Max == 2^(Width - 1) - 1
=============================================================================
