------------------------------ MODULE MCMemory ------------------------------
(***************************************************************************)
(* Tables of 10 entries: user space is tables 0 and 1, the kernel table 2. *)
(* A page is 4 bytes, a bitmap element 2 bits.  The first map has frames   *)
(* for init and one fork of it.  The second ends with a region of an odd   *)
(* number of pages.  The third runs out while init is being started.       *)
(***************************************************************************)
EXTENDS Memory

Entry(first, n) == [addr |-> first * PAGE_SIZE, len |-> n * PAGE_SIZE, available |-> TRUE, high |-> FALSE]

MCMaps == {<<Entry(0, 30)>>, <<Entry(0, 21), Entry(22, 8)>>, <<Entry(0, 24)>>}
MCKernelFrames == 0 .. 3
MCBootHeap == <<2, 3>>
Seg(first, last, w) == [first |-> first, last |-> last, w |-> w]
MCInitImage == <<Seg(2, 2, FALSE)>>
MCImages == {<<Seg(2, 2, FALSE), Seg(4, 4, TRUE)>>}
=============================================================================
