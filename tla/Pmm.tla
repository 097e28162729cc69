-------------------------------- MODULE Pmm --------------------------------
(***************************************************************************)
(* The physical memory manager of kernel/pmm.c: a list of memory regions,  *)
(* each with a bitmap of its reserved pages.  The list is a sequence whose *)
(* head is "memregions".  The entries of the boot loader's memory map      *)
(* count bytes; regions and frames count pages.                            *)
(***************************************************************************)
EXTENDS Bitset, Sequences

CONSTANTS
    PAGE_SIZE,      \* 4096
    UINT            \* 2^32, the range of uint32_t

ASSUME PmmAssumption == PAGE_SIZE \in Nat \ {0} /\ UINT \in Nat \ {0}

(* 0xFFFFFFFF, and the assertion of bitset_test.  Page 0 is reserved by    *)
(* kmain, so 0 stands for "no frame".                                      *)
INVALID_FRAME == -1
FRAME_ASSERT == -2

(* The pages a region manages. *)
Pages(region) == region.addr .. region.addr + region.len - 1

(* ALIGN(addr, PAGE_SIZE), as a page number. *)
AlignedPage(addr) == (addr + PAGE_SIZE - 1) \div PAGE_SIZE

(* The length in pages: what is left after the start moved up to a page    *)
(* boundary, in uint32_t arithmetic, cut to whole pages.                   *)
AlignedPages(addr, len) ==
    ((len - (AlignedPage(addr) * PAGE_SIZE - addr)) % UINT) \div PAGE_SIZE

(* The pages of an entry of the memory map. *)
EntryPages(entry) ==
    AlignedPage(entry.addr) .. AlignedPage(entry.addr) + AlignedPages(entry.addr, entry.len) - 1

(* The entries of a memory map do not share a page. *)
MapOk(mmap) ==
    /\ mmap \in Seq([addr : Nat, len : Nat, available : BOOLEAN, high : BOOLEAN])
    /\ \A i, j \in 1 .. Len(mmap) : \A p \in EntryPages(mmap[i]) : p \in EntryPages(mmap[j]) => i = j

(* add_region prepends. *)
add_region(regions, addr, len) ==
    <<[addr |-> AlignedPage(addr), len |-> AlignedPages(addr, len),
       bitmap |-> bitset_init(AlignedPages(addr, len))]>> \o regions

(* pmm_init keeps the entries that are available and below 4 GB. *)
pmm_init(mmap) ==
    LET n == Len(mmap)
        f[i \in 0 .. n] ==
            IF i = 0 THEN << >>
            ELSE IF mmap[i].available /\ ~mmap[i].high
                 THEN add_region(f[i - 1], mmap[i].addr, mmap[i].len)
                 ELSE f[i - 1]
    IN  f[n]

Indexes(regions) == 1 .. Len(regions)

pmm_exists(regions, page) == \E r \in Indexes(regions) : page \in Pages(regions[r])

(* The region that the loops over the list stop at. *)
RegionOf(regions, page) == LeastOf({r \in Indexes(regions) : page \in Pages(regions[r])})

(* A page outside every region counts as reserved. *)
pmm_reserved(regions, page) ==
    pmm_exists(regions, page) =>
        LET r == RegionOf(regions, page)
        IN  bitset_test(regions[r].bitmap, page - regions[r].addr)

(* The regions with one more page of region r reserved. *)
Marked(regions, r, index) == [regions EXCEPT ![r].bitmap = bitset_set(regions[r].bitmap, index)]

(* pmm_reserve and pmm_free once they found the page in the right state:   *)
(* they abort the machine when the page is unknown, or is reserved or free *)
(* already.                                                                *)
CanReserve(regions, page) == pmm_exists(regions, page) /\ ~pmm_reserved(regions, page)
pmm_reserve(regions, page) ==
    LET r == RegionOf(regions, page)
    IN  Marked(regions, r, page - regions[r].addr)

CanFree(regions, page) == pmm_exists(regions, page) /\ pmm_reserved(regions, page)
pmm_free(regions, page) ==
    LET r == RegionOf(regions, page)
    IN  [regions EXCEPT ![r].bitmap = bitset_clear(regions[r].bitmap, page - regions[r].addr)]

(* What pmm_alloc does in the region its search stopped at. *)
alloc_in(regions, r, index) ==
    IF index = BITSET_ASSERT THEN [frame |-> FRAME_ASSERT, regions |-> regions]
    ELSE [frame |-> regions[r].addr + index,
          regions |-> Marked(regions, r, index)]

(* pmm_alloc takes from the first region whose search finds something, a   *)
(* failed assertion included: the frame and the regions after it.          *)
pmm_alloc(regions) ==
    LET found == {r \in Indexes(regions) : bitset_find(regions[r].bitmap, 0) # BITSET_INVALID_INDEX}
    IN  IF found = {} THEN [frame |-> INVALID_FRAME, regions |-> regions]
        ELSE alloc_in(regions, LeastOf(found), bitset_find(regions[LeastOf(found)].bitmap, 0))

(* What an allocation did: it gave a frame, or the reason it did not. *)
GotFrame(a) == a.frame \notin {INVALID_FRAME, FRAME_ASSERT}
NoFrame(a) == IF a.frame = FRAME_ASSERT THEN "bitset" ELSE "frames"

(* Some pages freed. *)
FreeAll(regions, frames) ==
    [r \in DOMAIN regions |->
        [regions[r] EXCEPT !.bitmap.bits =
            @ \ {f - regions[r].addr : f \in frames \cap Pages(regions[r])}]]

(* The frames that are free. *)
FreeFrames(regions) ==
    {p \in UNION {Pages(regions[r]) : r \in Indexes(regions)} : ~pmm_reserved(regions, p)}

(* A region with no free page and with bits past its size: bitset_find     *)
(* looks into those bits.                                                  *)
FullPartialRegion(regions) ==
    \E r \in Indexes(regions) :
        /\ regions[r].len % BIT_PER_ELEMENT # 0
        /\ regions[r].bitmap.bits = 0 .. regions[r].len - 1
=============================================================================
