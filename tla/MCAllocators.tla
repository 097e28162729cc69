---------------------------- MODULE MCAllocators ----------------------------
(***************************************************************************)
(* The two allocators: the kernel heap (Heap) and the user runtime's       *)
(* malloc (Malloc).  They share nothing, so that a behaviour is one of     *)
(* either; `side' says of which.                                           *)
(***************************************************************************)
EXTENDS Heap, MCMalloc

VARIABLE side

InitEither ==
    /\ Init
    /\ \/ side = "kernel" /\ gm = [panic |-> "not running", grown |-> 0] /\ live = << >>
       \/ side = "user" /\ MallocInit
NextEither ==
    \/ side = "kernel" /\ Next /\ UNCHANGED <<side, mvars>>
    \/ side = "user" /\ MallocNext /\ UNCHANGED <<side, vars>>
SpecEither == InitEither /\ [][NextEither]_<<side, vars, mvars>>
=============================================================================
