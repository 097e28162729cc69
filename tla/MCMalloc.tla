------------------------------ MODULE MCMalloc ------------------------------
(* Malloc with a heap of five pages of 16 words.  Requests are for minimal *)
(* chunks and for the smallest large chunk, or grow a block beyond it; of  *)
(* the two products the first overflows and the second is for half of the  *)
(* address space; no power of two is as large as the second alignment.     *)
EXTENDS Malloc

MCAlignments == {<<8, 1>>, <<100, 1>>}
MCProducts == {<<3, 43>>, <<1, 60>>}
MCPairs == {<<1, 13>>}
=============================================================================
