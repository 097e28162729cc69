-------------------------------- MODULE Vmm --------------------------------
(***************************************************************************)
(* The virtual memory manager of kernel/vmm.c and the page-sized half of   *)
(* kernel/kmalloc.c it is built on, as operators on the record "mem":      *)
(*   regions    the physical memory manager's list (module Pmm)            *)
(*   dirs       the page directories that exist, named by the heap page    *)
(*              that holds them: page-directory index -> frame of a page   *)
(*              table, 0 when the entry is not present                     *)
(*   tables     the page tables that exist, named by their frame           *)
(*   heap       the number of pages the kernel heap has, those in use, and *)
(*              the frame that each of them got when it was added          *)
(*   transient  heap pages whose mapping vmm_transient_map replaced        *)
(*                                                                         *)
(* Virtual pages are numbered from 0; page p has entry p % TableSize in    *)
(* the table of entry p \div TableSize of the directory.  The recursive    *)
(* mapping of the last entry, and the TLB flushes, have no state here.     *)
(*                                                                         *)
(* An operation that fails an assertion, aborts or panics returns the      *)
(* reason in "err"; the machine halts with the state it had.               *)
(***************************************************************************)
EXTENDS Pmm, Functions

CONSTANTS
    TableSize,      \* entries of a page table: 1024
    USER_PDE_END,   \* last directory entry of user space: 767
    KERNEL_PDE_END, \* last directory entry of kernel space: 1022
    HeapStart,      \* first virtual page of the kernel heap
    HeapMax,        \* pages the heap may have: up to 0xC0400000
    KernelFrames,   \* frames kmain reserves: page 0, kernel, initial heap
    BootHeap        \* frames of the initial heap: directory and kernel table

ASSUME VmmAssumption ==
    /\ TableSize \in Nat \ {0} /\ USER_PDE_END \in Nat /\ KERNEL_PDE_END \in Nat
    /\ USER_PDE_END < KERNEL_PDE_END
    /\ HeapStart \in Nat /\ HeapMax \in Nat

ASSUME KernelAssumption ==
    /\ HeapMax >= 2
    /\ KernelFrames \subseteq Nat /\ 0 \in KernelFrames
    /\ BootHeap \in Seq(KernelFrames \ {0}) /\ Len(BootHeap) = 2

UserPdes == 0 .. USER_PDE_END
KernelPdes == USER_PDE_END + 1 .. KERNEL_PDE_END
Ptes == 0 .. TableSize - 1

Dir(page) == page \div TableSize
Idx(page) == page % TableSize

(* The heap is in the first kernel entry of a directory. *)
ASSUME HeapPagesAssumption == \A i \in 0 .. HeapMax - 1 : Dir(HeapStart + i) = USER_PDE_END + 1

(* A page-table entry: a frame, and its flags "P"resent, "W"ritable and    *)
(* "U"ser.  Only the flag "P" says that the entry maps its frame.          *)
NoEntry == [frame |-> 0, flags |-> {}]
EmptyTable == [i \in Ptes |-> NoEntry]
EmptyDir == [i \in UserPdes \cup KernelPdes |-> 0]

(* The function f with e at x, which may be new to it. *)
Put(f, x, e) == [y \in DOMAIN f \cup {x} |-> IF y = x THEN e ELSE f[y]]

WithRegions(m, regions) == [m EXCEPT !.regions = regions]

Ok(m) == [mem |-> m, err |-> "no"]
Fail(m, why) == [mem |-> m, err |-> why]

(* va_info_ex: the entry of a page in directory d. *)
va_info_ex(m, d, page) ==
    IF m.dirs[d][Dir(page)] = 0 THEN NoEntry ELSE m.tables[m.dirs[d][Dir(page)]][Idx(page)]
Present(m, d, page) == "P" \in va_info_ex(m, d, page).flags
vmm_get_flags(m, d, page) == IF Present(m, d, page) THEN va_info_ex(m, d, page).flags ELSE {}
vmm_get_physical(m, d, page) == IF Present(m, d, page) THEN va_info_ex(m, d, page).frame ELSE 0

SetEntry(m, d, page, entry) ==
    [m EXCEPT !.tables[m.dirs[d][Dir(page)]][Idx(page)] = entry]

(* A new page table in frame a.frame, with one entry. *)
AddTable(m, d, page, entry, a) ==
    IF ~GotFrame(a) THEN Fail(m, NoFrame(a))
    ELSE Ok([m EXCEPT !.regions = a.regions,
                      !.dirs[d][Dir(page)] = a.frame,
                      !.tables = Put(@, a.frame, [EmptyTable EXCEPT ![Idx(page)] = entry])])

(* vmm_map allocates the page table it misses, and aborts on a page that   *)
(* is mapped already.                                                      *)
vmm_map(m, d, page, frame, flags) ==
    IF m.dirs[d][Dir(page)] = 0
    THEN AddTable(m, d, page, [frame |-> frame, flags |-> flags], pmm_alloc(m.regions))
    ELSE IF Present(m, d, page) THEN Fail(m, "mapped")
         ELSE Ok(SetEntry(m, d, page, [frame |-> frame, flags |-> flags]))

(* pmm_alloc followed by vmm_map. *)
MapNewFrame(m, d, page, flags, a) ==
    IF ~GotFrame(a) THEN Fail(m, NoFrame(a))
    ELSE vmm_map(WithRegions(m, a.regions), d, page, a.frame, flags)

(* vmm_remap and vmm_unmap of every one of some pages: their callers know  *)
(* that these are mapped.  vmm_unmap clears the flag only; the frame stays *)
(* in the entry and stays reserved.                                        *)
Entries(m, d, pages) == {<<m.dirs[d][Dir(p)], Idx(p)>> : p \in pages}
vmm_remap(m, d, pages, flags) ==
    [m EXCEPT !.tables = [t \in DOMAIN m.tables |-> [i \in Ptes |->
        IF <<t, i>> \in Entries(m, d, pages) THEN [m.tables[t][i] EXCEPT !.flags = flags]
        ELSE m.tables[t][i]]]]
vmm_unmap(m, d, pages) ==
    [m EXCEPT !.tables = [t \in DOMAIN m.tables |-> [i \in Ptes |->
        IF <<t, i>> \in Entries(m, d, pages) THEN [m.tables[t][i] EXCEPT !.flags = m.tables[t][i].flags \ {"P"}]
        ELSE m.tables[t][i]]]]
-----------------------------------------------------------------------------
(* Page-sized blocks of the kernel heap.  Module Heap has the heap itself. *)

FreeHeapPages(m) == 0 .. m.heap.size - 1 \ m.heap.used

(* The heap after heap_grow, by one page while paging is on, mapped it and *)
(* the page was allocated.                                                 *)
GrownHeap(m, d, r) ==
    IF r.err = "frames" THEN Fail(m, "heap")
    ELSE IF r.err # "no" THEN Fail(m, r.err)
    ELSE Ok([r.mem EXCEPT !.heap =
                [size |-> @.size + 1, used |-> @.used \cup {m.heap.size},
                 frame |-> Append(@.frame, vmm_get_physical(r.mem, d, HeapStart + m.heap.size))]])

heap_grow(m, d) ==
    IF m.heap.size >= HeapMax THEN Fail(m, "heap")
    ELSE GrownHeap(m, d, MapNewFrame(m, d, HeapStart + m.heap.size, {"P", "W"}, pmm_alloc(m.regions)))

(* kmalloc_a(PAGE_SIZE, PAGE_SIZE) takes kmalloc_page(m).  An allocation   *)
(* that fails is a halt: heap_alloc_aligned dereferences the null header.  *)
kmalloc_a(m, d) ==
    IF FreeHeapPages(m) # {}
    THEN Ok([m EXCEPT !.heap.used = @ \cup {LeastOf(FreeHeapPages(m))}])
    ELSE heap_grow(m, d)

kmalloc_page(m) == IF FreeHeapPages(m) # {} THEN LeastOf(FreeHeapPages(m)) ELSE m.heap.size

kfree(m, page) == [m EXCEPT !.heap.used = @ \ {page}]

(* vmm_transient_map shows a frame at a heap page: it remembers the page's *)
(* own frame and replaces the mapping.                                     *)
ShowFrame(r, d, page, frame) ==
    IF r.err # "no" THEN r
    ELSE Ok([SetEntry(r.mem, d, HeapStart + page, [frame |-> frame, flags |-> {"P", "W"}])
                EXCEPT !.transient = Put(@, page, vmm_get_physical(r.mem, d, HeapStart + page))])

vmm_transient_map(m, d, frame) == ShowFrame(kmalloc_a(m, d), d, kmalloc_page(m), frame)

(* Faulty: the page is given back while it still shows the other frame. *)
unmap_keeps_mapping(m, d, page) ==
    kfree([m EXCEPT !.transient = Restrict(@, DOMAIN @ \ {page})], page)

vmm_transient_unmap(m, d, page) ==
    kfree([SetEntry(m, d, HeapStart + page, [frame |-> m.transient[page], flags |-> {"P", "W"}])
              EXCEPT !.transient = Restrict(@, DOMAIN @ \ {page})], page)
-----------------------------------------------------------------------------
(* Whole directories. *)

(* Faulty: the user half is copied too. *)
copy_everything(m, current, d) == [m EXCEPT !.dirs[d] = m.dirs[current]]

(* The kernel half of vmm_clone_pagedir, and vmm_copy_kernel_mappings. *)
vmm_copy_kernel_mappings(m, current, d) ==
    [m EXCEPT !.dirs[d] = [i \in DOMAIN @ |-> IF i \in KernelPdes THEN m.dirs[current][i] ELSE @[i]]]

(* The new directory of vmm_clone_pagedir, in a page that kmalloc_a gave. *)
AddDir(r, page) == IF r.err = "no" THEN Ok([r.mem EXCEPT !.dirs = Put(@, page, EmptyDir)]) ELSE r

(* The entries that map a frame, and the frames. *)
PresentPtes(table) == {i \in Ptes : "P" \in table[i].flags}
FramesOf(table) == {table[i].frame : i \in PresentPtes(table)}

(* pmm_free of each of the frames: aborts when one of them is free, or is  *)
(* met twice.                                                              *)
CanFreeTable(m, t) ==
    /\ \A i, j \in PresentPtes(m.tables[t]) : m.tables[t][i].frame = m.tables[t][j].frame => i = j
    /\ t \notin FramesOf(m.tables[t])
    /\ \A f \in FramesOf(m.tables[t]) \cup {t} : CanFree(m.regions, f)

(* One round of vmm_reset_current_pagedir and of vmm_destroy_pagedir: the  *)
(* pages of a table, then the table.  (The second does not clear the       *)
(* entry; it goes with the directory.)                                     *)
free_pde(m, d, i) ==
    LET t == m.dirs[d][i]
    IN  IF ~CanFreeTable(m, t) THEN Fail(m, "free")
        ELSE Ok([m EXCEPT !.regions = FreeAll(@, FramesOf(m.tables[t]) \cup {t}),
                          !.tables = Restrict(@, DOMAIN @ \ {t}),
                          !.dirs[d][i] = 0])
-----------------------------------------------------------------------------
(* kmain reserves the kernel's pages where they exist; vmm_init leaves the *)
(* heap's pages mapped.                                                    *)
ReserveKernel(regions) ==
    [r \in DOMAIN regions |->
        [regions[r] EXCEPT !.bitmap.bits =
            {f - regions[r].addr : f \in KernelFrames \cap Pages(regions[r])}]]

BootTable == [EmptyTable EXCEPT ![Idx(HeapStart)] = [frame |-> BootHeap[1], flags |-> {"P", "W"}],
                                ![Idx(HeapStart + 1)] = [frame |-> BootHeap[2], flags |-> {"P", "W"}]]

vmm_init(mmap) ==
    [regions |-> ReserveKernel(pmm_init(mmap)),
     dirs |-> [d \in {0} |-> [EmptyDir EXCEPT ![USER_PDE_END + 1] = BootHeap[2]]],
     tables |-> [t \in {BootHeap[2]} |-> BootTable],
     heap |-> [size |-> 2, used |-> {0, 1}, frame |-> BootHeap],
     transient |-> << >>]
=============================================================================
