-------------------------------- MODULE Heap --------------------------------
(***************************************************************************)
(* The kernel heap of kernel/heap.c: a list of blocks, each with a header, *)
(* that starts after the heap's own record and grows page by page.  The    *)
(* list is a sequence; a block is                                          *)
(*   addr, size   as in its header, the header's own size included         *)
(*   free         its flag and magic, which always agree                   *)
(*   want         the bytes the caller of the allocation asked for         *)
(* Addresses are multiples of the unit that the constants count.  The lock *)
(* is taken with interrupts disabled and is never contended.               *)
(***************************************************************************)
EXTENDS Integers, Sequences, FiniteSets, SequencesExt

CONSTANTS
    HEADER,         \* sizeof(struct heap_block_header), and of struct heap
    CANARY,         \* sizeof(uint64_t), also the alignment of kmalloc
    PAGE_SIZE,
    InitialSize,    \* size passed to heap_init
    MaxSize,        \* max_size passed to heap_init
    FrameCount,     \* frames that pmm_alloc still has for the heap
    UINT,           \* range of unsigned
    Sizes,          \* bound: sizes asked for
    MaxLive         \* bound: blocks allocated at a time

ASSUME HeapAssumption ==
    /\ HEADER \in Nat \ {0} /\ CANARY \in Nat \ {0} /\ PAGE_SIZE \in Nat \ {0}
    /\ InitialSize \in Nat /\ MaxSize \in Nat /\ FrameCount \in Nat /\ UINT \in Nat
    /\ InitialSize % PAGE_SIZE = 0 /\ HEADER + HEADER < InitialSize /\ HEADER <= PAGE_SIZE
    /\ InitialSize < UINT /\ MaxSize + PAGE_SIZE <= UINT
    /\ Sizes \subseteq Nat \ {0}

VARIABLES
    blocks, heap_size, frames,
    request,        \* the allocation in progress: <<size, alignment>>, or << >>
    status          \* "ok", "exhausted", or "short" after an allocation whose data
                    \* overlaps the next block

vars == <<blocks, heap_size, frames, request, status>>

Block(addr, size) == [addr |-> addr, size |-> size, free |-> TRUE, want |-> 0]
End(b) == b.addr + b.size
ALIGN(n, a) == ((n + a - 1) \div a) * a

(* heap_init: one free block after the heap's record. *)
Init ==
    /\ blocks = <<Block(HEADER, InitialSize - HEADER)>>
    /\ heap_size = InitialSize
    /\ frames = FrameCount
    /\ request = << >> /\ status = "ok"

(* The list with the blocks from i to j replaced. *)
Splice(i, j, new) == SubSeq(blocks, 1, i - 1) \o new \o SubSeq(blocks, j + 1, Len(blocks))
-----------------------------------------------------------------------------
(* heap_alloc_block_aligned.  "size" counts the canary. *)

DataStart(b) == b.addr + HEADER
IsAligned(b, alignment) == DataStart(b) % alignment = 0

(* data1: the first aligned address with room for two headers before it. *)
AlignedData(b, alignment) == ALIGN(b.addr + HEADER + HEADER, alignment)

Fits(b, size, alignment) ==
    /\ b.free /\ b.size - HEADER >= size
    /\ IsAligned(b, alignment) \/ b.size > 2 * HEADER + size

(* The block the walk stops at; 0 when it runs off the list. *)
FirstFit(size, alignment) ==
    LET fit == {i \in 1 .. Len(blocks) : Fits(blocks[i], size, alignment)}
    IN  IF fit = {} THEN 0 ELSE CHOOSE i \in fit : \A j \in fit : i <= j

(* The block's data is aligned: what is left becomes a block when it can   *)
(* hold a header and more.                                                 *)
TakeAligned(b, size, want) ==
    IF b.size - HEADER - size > HEADER
    THEN <<[b EXCEPT !.size = HEADER + size, !.free = FALSE, !.want = want],
           Block(b.addr + HEADER + size, b.size - HEADER - size)>>
    ELSE <<[b EXCEPT !.free = FALSE, !.want = want]>>

(* Faulty: the second block's header is not counted in its size. *)
take_without_header(b, size, want, alignment) ==
    LET header1 == AlignedData(b, alignment) - HEADER
        h == [b EXCEPT !.size = header1 - b.addr]
        h2 == [addr |-> header1, size |-> size, free |-> FALSE, want |-> want]
    IN  <<h, h2, Block(header1 + size, (b.size - h.size - size) % UINT)>>

(* The data starts later: header0 keeps the bytes before header1.  The     *)
(* size of the second block is what is left, in unsigned arithmetic; its   *)
(* end is never compared with that of the data.                            *)
TakeUnaligned(b, size, want, alignment) ==
    LET header1 == AlignedData(b, alignment) - HEADER
        h == [b EXCEPT !.size = header1 - b.addr]
        size2 == (b.size - h.size) % UINT
        h2 == [addr |-> header1, size |-> size2, free |-> FALSE, want |-> want]
    IN  IF size2 > size + 2 * HEADER
        THEN <<h, [h2 EXCEPT !.size = size + HEADER],
               Block(header1 + HEADER + size, size2 - size - HEADER)>>
        ELSE <<h, h2>>

Take(b, size, want, alignment) ==
    IF IsAligned(b, alignment) THEN TakeAligned(b, size, want)
    ELSE TakeUnaligned(b, size, want, alignment)

(* The allocated block of a list that Take returned. *)
TakenBlock(new) == new[CHOOSE i \in DOMAIN new : ~new[i].free]

(* The data and the canary are inside the block. *)
HoldsData(b) == HEADER + b.want + CANARY <= b.size

(* The bytes of the data are inside the block that was taken.  Otherwise   *)
(* writing the canary, the next header or the data overwrites the next     *)
(* block, and what happens from there is not modelled.                     *)
StaysInside(old, b) == b.addr + HEADER + b.want + CANARY <= End(old)

Allocated == {i \in 1 .. Len(blocks) : ~blocks[i].free}

kmalloc_a ==
    /\ status = "ok" /\ request = << >> /\ Cardinality(Allocated) < MaxLive
    /\ request' \in Sizes \X {CANARY, PAGE_SIZE}
    /\ UNCHANGED <<blocks, heap_size, frames, status>>

Requested == request # << >> /\ status = "ok"
Found == FirstFit(request[1] + CANARY, request[2])

Place(i, new) ==
    /\ blocks' = Splice(i, i, new)
    /\ status' = IF StaysInside(blocks[i], TakenBlock(new)) THEN "ok" ELSE "short"

heap_alloc_block_aligned ==
    /\ Requested /\ Found # 0
    /\ Place(Found, Take(blocks[Found], request[1] + CANARY, request[1], request[2]))
    /\ request' = << >>
    /\ UNCHANGED <<heap_size, frames>>

(* heap_grow: pages while the limit and the frames allow, as a block that  *)
(* joins the last one when that is free.  Then the walk starts again.      *)
GrowPages(size) ==
    LET n == ALIGN(size, PAGE_SIZE) \div PAGE_SIZE
        room == IF heap_size >= MaxSize THEN 0 ELSE ALIGN(MaxSize - heap_size, PAGE_SIZE) \div PAGE_SIZE
        lesser(a, b) == IF a < b THEN a ELSE b
    IN  lesser(n, lesser(room, frames))

AddPages(n) ==
    LET last == Last(blocks)
        new == Block(End(last), n * PAGE_SIZE)
    IN  IF last.free THEN Front(blocks) \o <<[last EXCEPT !.size = @ + new.size]>>
        ELSE Append(blocks, new)

(* Without a page the walk ends: heap_alloc_aligned then dereferences the  *)
(* null header, before kmalloc_a can say that the heap is exhausted.       *)
heap_grow ==
    /\ Requested /\ Found = 0
    /\ LET n == GrowPages(request[1] + CANARY)
       IN  IF n = 0
           THEN status' = "exhausted" /\ UNCHANGED <<blocks, heap_size, frames>>
           ELSE /\ blocks' = AddPages(n)
                /\ heap_size' = heap_size + n * PAGE_SIZE
                /\ frames' = frames - n
                /\ UNCHANGED status
    /\ UNCHANGED request
-----------------------------------------------------------------------------
(* heap_free_block: the block joins a free predecessor and a free          *)
(* successor.                                                              *)

Freed(b) == [b EXCEPT !.free = TRUE, !.want = 0]
Merge(a, b) == [a EXCEPT !.size = @ + b.size]
FreeAt(i) == i \in 1 .. Len(blocks) /\ blocks[i].free

(* Faulty: the successor is merged, the predecessor is not. *)
free_merges_forward(i) ==
    IF FreeAt(i + 1) THEN Splice(i, i + 1, <<Merge(Freed(blocks[i]), blocks[i + 1])>>)
    ELSE Splice(i, i, <<Freed(blocks[i])>>)

FreeBlock(i) ==
    CASE FreeAt(i - 1) /\ FreeAt(i + 1) ->
            Splice(i - 1, i + 1, <<Merge(Merge(blocks[i - 1], Freed(blocks[i])), blocks[i + 1])>>)
      [] FreeAt(i - 1) /\ ~FreeAt(i + 1) ->
            Splice(i - 1, i, <<Merge(blocks[i - 1], Freed(blocks[i]))>>)
      [] ~FreeAt(i - 1) /\ FreeAt(i + 1) ->
            Splice(i, i + 1, <<Merge(Freed(blocks[i]), blocks[i + 1])>>)
      [] OTHER -> Splice(i, i, <<Freed(blocks[i])>>)

(* kfree.  check_canary passes: the owner stayed inside its data, and the  *)
(* data inside the block.                                                  *)
kfree(i) ==
    /\ status = "ok" /\ request = << >>
    /\ blocks' = FreeBlock(i)
    /\ UNCHANGED <<heap_size, frames, request, status>>

Next ==
    \/ kmalloc_a \/ heap_alloc_block_aligned \/ heap_grow
    \/ \E i \in Allocated : kfree(i)

Spec == Init /\ [][Next]_vars
-----------------------------------------------------------------------------
(* The blocks partition the heap: each starts where the one before it      *)
(* ends, the first after the heap's record and the last at the end of the  *)
(* heap, which is a page boundary (the assertion in heap_grow).  This is   *)
(* what heap.h relies on when it says that the next pointer could be       *)
(* dropped.  Free neighbours are merged, so that when everything is freed  *)
(* the heap is one block again.  All of it survives every sequence of      *)
(* splits, merges and growth.                                              *)
BlocksTile ==
    status # "short" =>
        /\ blocks[1].addr = HEADER /\ End(Last(blocks)) = heap_size /\ heap_size % PAGE_SIZE = 0
        /\ \A i \in 1 .. Len(blocks) - 1 :
            /\ End(blocks[i]) = blocks[i + 1].addr
            /\ ~(blocks[i].free /\ blocks[i + 1].free)
        /\ \A i \in 1 .. Len(blocks) : blocks[i].size >= HEADER

(* An allocated block holds its header, the data asked for and the canary: *)
(* write_canary does not write over the data.                              *)
AllocationsHold ==
    status # "short" => \A i \in Allocated : HoldsData(blocks[i])

(* The layout drawn in heap_alloc_block_aligned: data1, with the canary,   *)
(* ends at or before header0 + h.size, the end of the block it is cut      *)
(* from.                                                                   *)
DataInsideBlock == status # "short"
=============================================================================
