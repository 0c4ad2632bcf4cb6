-------------------------------- MODULE MCPsMap --------------------------------
(***************************************************************************)
(* The map on small integer keys, hashed as the code hashes them: the low   *)
(* bits of the product by 2654435761 are the low bits of the key.           *)
(***************************************************************************)
EXTENDS PsMap

CONSTANTS MaxKey
MCKeys == 0..MaxKey
MCHash == [k \in MCKeys |-> k]
\* Two keys of each pair fall into one slot.
Colliding == [k \in MCKeys |-> k \div 2]
=============================================================================
