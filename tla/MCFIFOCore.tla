---------------------------- MODULE MCFIFOCore -----------------------------
(***************************************************************************)
(* A FIFO whose depth is not a power of two: three entries in a memory of  *)
(* four words, so that the pointers pass through a word more than the      *)
(* counter ever lets be occupied.                                          *)
(***************************************************************************)
EXTENDS FIFOCore
=============================================================================
