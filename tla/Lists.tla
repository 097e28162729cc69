------------------------------- MODULE Lists -------------------------------
(***************************************************************************)
(* The intrusive doubly linked lists of common/list.h, seen as sequences.  *)
(* The kernel keeps its task queues, the port list and the message queues  *)
(* in them.                                                                *)
(*                                                                         *)
(* Filter is written without recursion, by the rank of the positions that  *)
(* are kept, so that ListProofs can show what it returns.                  *)
(***************************************************************************)
EXTENDS Integers, Sequences, FiniteSets, Functions

(* How many positions of K come before i or are i. *)
Rank(K, i) == Cardinality({j \in K : j <= i})

(* The positions K of the sequence q, in the order of q. *)
Pick(q, K) == [n \in 1 .. Cardinality(K) |-> q[CHOOSE i \in K : Rank(K, i) = n]]

(* What a list_foreach finds in lst when it looks for members of T. *)
Filter(lst, T) == Pick(lst, {i \in DOMAIN lst : lst[i] \in T})

list_append(lst, elem) == Append(lst, elem)

list_remove(lst, elem) == Filter(lst, Range(lst) \ {elem})

list_empty(lst) == lst = << >>
=============================================================================
