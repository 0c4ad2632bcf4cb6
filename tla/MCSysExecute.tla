---------------------------- MODULE MCSysExecute ----------------------------
(***************************************************************************)
(* Pipes of one byte: an input of two fills its pipe before the child has  *)
(* read and is sent in parts, and each of two streams fills its pipe while *)
(* the parent writes, and again after a read. Any system call may fail.    *)
(***************************************************************************)
EXTENDS SysExecute
=============================================================================
