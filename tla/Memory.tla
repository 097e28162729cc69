------------------------------- MODULE Memory -------------------------------
(***************************************************************************)
(* Address spaces: what the kernel's handlers do to physical frames and    *)
(* page tables.  Composes Pmm, Vmm, the loader of kernel/elf.c and the     *)
(* memory half of the handlers in kernel/scheduler.c and kernel_task.c.    *)
(*                                                                         *)
(* A handler runs with interrupts disabled, page by page: "k" says which   *)
(* one is running and where it is, and while k.op # "none" no other task   *)
(* can run.  The first process is the exception: kernel_task's child loads *)
(* init, and builds its user stack, with interrupts enabled, so the timer  *)
(* may take the CPU between its allocation of a frame ("held") and the     *)
(* mapping of it.                                                          *)
(*                                                                         *)
(* Which task runs next is left open: module Scheduler has the queues.     *)
(***************************************************************************)
EXTENDS Vmm

CONSTANTS
    MemoryMaps,     \* memory maps the boot loader may report
    USER_START,     \* first user page
    USER_STACK, KERNEL_STACK,   \* the two stack pages of every task
    InitImage,      \* segments of "init": <<[first, last, w], ...>>
    Images,         \* images that exec may load
    MmapPages,      \* bound: first pages that tasks pass to mmap
    MaxMmap,        \* bound: pages per mmap
    MaxPid          \* bound: task creations since boot

(* A program's segments: pages below the entry of the stacks, no page in   *)
(* two segments.                                                           *)
SegmentType == [first : Nat, last : Nat, w : BOOLEAN]
ImageOk(img) ==
    /\ img \in Seq(SegmentType) /\ img # << >>
    /\ \A s \in 1 .. Len(img) : img[s].first <= img[s].last
    /\ \A s \in 1 .. Len(img) : \A p \in img[s].first .. img[s].last : Dir(p) < USER_PDE_END
    /\ \A s, t \in 1 .. Len(img) : \A p \in img[s].first .. img[s].last :
        p \in img[t].first .. img[t].last => s = t

ASSUME BootAssumption == \A mmap \in MemoryMaps : MapOk(mmap)

ASSUME LayoutAssumption ==
    /\ USER_STACK \in Nat /\ KERNEL_STACK \in Nat /\ USER_STACK # KERNEL_STACK
    /\ Dir(USER_STACK) = USER_PDE_END /\ Dir(KERNEL_STACK) = USER_PDE_END

ASSUME ProgramAssumption ==
    /\ ImageOk(InitImage) /\ \A img \in Images : ImageOk(img)
    /\ USER_START \in Nat /\ MmapPages \subseteq Nat /\ MaxMmap \in Nat /\ MaxPid \in Nat

VARIABLES mem, task, current, next_pid, k, halted

vars == <<mem, task, current, next_pid, k, halted>>

KernelTask == 0
IdleTask == 1
UserPages == USER_START .. (USER_PDE_END + 1) * TableSize - 1

(* The phases of a task: "kernel" for kernel_task and the idle task,       *)
(* "load" and "stack" while init is being started, "user", "exited".       *)
NoLoad == [img |-> << >>, seg |-> 1, page |-> 0]
NewTask(d, phase) == [dir |-> d, phase |-> phase, held |-> 0, load |-> NoLoad]
LoadOf(img) == [img |-> img, seg |-> 1, page |-> img[1].first]

Idle == [op |-> "none", dir |-> 0, i |-> 0, j |-> 0, first |-> 0, last |-> 0, src |-> 0, dst |-> 0,
         frame |-> 0, flags |-> {}]

me == task[current]
MyDir == IF current \in DOMAIN task THEN task[current].dir ELSE 0

Init ==
    /\ \E mmap \in MemoryMaps : mem = vmm_init(mmap)
    /\ task = << >> /\ current = -1 /\ next_pid = 0
    /\ k = [Idle EXCEPT !.op = "boot"]
    /\ halted = "no"

(* Every assertion, abort and panic ends here. *)
Do(r, then) ==
    /\ mem' = r.mem
    /\ halted' = r.err
    /\ k' = IF r.err = "no" THEN then ELSE k
Halt(why) == halted' = why /\ UNCHANGED <<mem, k>>

Running == halted = "no" /\ k.op = "none"
Busy(op) == halted = "no" /\ k.op = op
-----------------------------------------------------------------------------
(* vmm_clone_pagedir, for task_create: the directory, then table by table, *)
(* page by page.  k.dir is the new directory, k.i and k.j the entries it   *)
(* is at, k.last the new table's frame and k.first the heap page that      *)
(* shows it, k.frame the new page's frame, k.src and k.dst the heap pages  *)
(* that show the old and the new page.                                     *)

StartClone(m) ==
    Do(AddDir(kmalloc_a(m, MyDir), kmalloc_page(m)),
       [Idle EXCEPT !.op = "clone", !.dir = kmalloc_page(m)])

(* scheduler_start maps the kernel stack, then creates kernel_task. *)
BootClone(r) == IF r.err # "no" THEN Do(r, k) ELSE StartClone(r.mem)
scheduler_start ==
    /\ Busy("boot")
    /\ BootClone(MapNewFrame(mem, 0, KERNEL_STACK, {"P", "W"}, pmm_alloc(mem.regions)))
    /\ UNCHANGED <<task, current, next_pid>>

(* The next present entry of the parent's directory. *)
NextPde(d, pdes, i) == k.i <= i /\ mem.dirs[d][i] # 0 /\ \A p \in pdes : k.i <= p /\ p < i => mem.dirs[d][p] = 0

AddCloneTable(r, f) == IF r.err = "no" THEN Ok([r.mem EXCEPT !.tables = Put(@, f, EmptyTable)]) ELSE r
CloneTable(i, a, m) ==
    IF ~GotFrame(a) THEN Halt(NoFrame(a))
    ELSE Do(AddCloneTable(vmm_transient_map(m, MyDir, a.frame), a.frame),
            [k EXCEPT !.op = "clone_pte", !.i = i, !.first = kmalloc_page(m), !.last = a.frame])

clone_table ==
    /\ Busy("clone")
    /\ \E i \in UserPdes :
        /\ NextPde(MyDir, UserPdes, i)
        /\ LET a == pmm_alloc(mem.regions)
           IN  CloneTable(i, a, WithRegions(mem, a.regions))
    /\ UNCHANGED <<task, current, next_pid>>

(* clone_pagetable: a frame for the next present page, ... *)
ParentTable == mem.tables[mem.dirs[MyDir][k.i]]
PtesLeft == {j \in PresentPtes(ParentTable) : j >= k.j}

ClonePage(j, a, m) ==
    IF ~GotFrame(a) THEN Halt(NoFrame(a))
    ELSE Do(vmm_transient_map(m, MyDir, ParentTable[j].frame),
            [k EXCEPT !.op = "clone_dst", !.j = j, !.frame = a.frame, !.src = kmalloc_page(m)])

clone_page ==
    /\ Busy("clone_pte") /\ PtesLeft # {}
    /\ LET a == pmm_alloc(mem.regions)
       IN  ClonePage(LeastOf(PtesLeft), a, WithRegions(mem, a.regions))
    /\ UNCHANGED <<task, current, next_pid>>

(* ... the old and the new page shown at two heap pages, ... *)
clone_dst ==
    /\ Busy("clone_dst")
    /\ Do(vmm_transient_map(mem, MyDir, k.frame),
          [k EXCEPT !.op = "clone_copy", !.dst = kmalloc_page(mem)])
    /\ UNCHANGED <<task, current, next_pid>>

(* Faulty: the child's entry names the parent's frame. *)
clone_shares(m) == [m EXCEPT !.tables[k.last][k.j] = ParentTable[k.j]]

(* Faulty: the child's page is writable by the kernel only. *)
clone_drops_flags(m) == [m EXCEPT !.tables[k.last][k.j] = [frame |-> k.frame, flags |-> {"P", "W"}]]

(* ... the copy, and the child's entry with the parent's flags. *)
CloneEntry(m) ==
    [m EXCEPT !.tables[k.last][k.j] = [frame |-> k.frame, flags |-> ParentTable[k.j].flags]]

clone_copy ==
    /\ Busy("clone_copy")
    /\ mem' = CloneEntry(vmm_transient_unmap(vmm_transient_unmap(mem, MyDir, k.dst), MyDir, k.src))
    /\ k' = [k EXCEPT !.op = "clone_pte", !.j = @ + 1, !.frame = 0, !.src = 0, !.dst = 0]
    /\ UNCHANGED <<task, current, next_pid, halted>>

clone_table_done ==
    /\ Busy("clone_pte")
    /\ PtesLeft = {}
    /\ mem' = [vmm_transient_unmap(mem, MyDir, k.first) EXCEPT !.dirs[k.dir][k.i] = k.last]
    /\ k' = [k EXCEPT !.op = "clone", !.i = k.i + 1, !.j = 0, !.first = 0, !.last = 0]
    /\ UNCHANGED <<task, current, next_pid, halted>>

(* The clone is complete.  kernel_task's child will load init; any other   *)
(* task's child continues in user mode; at boot kernel_task is followed by *)
(* the idle task and then runs.                                            *)
clone_done ==
    /\ Busy("clone")
    /\ \A i \in UserPdes : i >= k.i => mem.dirs[MyDir][i] = 0
    /\ LET m == vmm_copy_kernel_mappings(mem, MyDir, k.dir)
           phase == IF next_pid <= IdleTask THEN "kernel"
                    ELSE IF current = KernelTask THEN "load" ELSE "user"
           child == NewTask(k.dir, phase)
       IN  /\ task' = Put(task, next_pid, [child EXCEPT !.load = IF phase = "load" THEN LoadOf(InitImage) ELSE @])
           /\ next_pid' = next_pid + 1
           /\ IF next_pid = KernelTask THEN StartClone(m) /\ UNCHANGED current
              ELSE /\ mem' = m /\ k' = Idle /\ UNCHANGED halted
                   /\ current' = IF next_pid = IdleTask THEN KernelTask ELSE current

(* syscall_fork_handler. *)
fork ==
    /\ Running /\ next_pid < MaxPid
    /\ \/ me.phase = "user"
       \/ current = KernelTask /\ next_pid = IdleTask + 1
    /\ StartClone(mem)
    /\ UNCHANGED <<task, current, next_pid>>
-----------------------------------------------------------------------------
(* load_elf, and the end of jump_to_usermode. *)

Loading == me.load.img # << >>
Segment == me.load.img[me.load.seg]
CanLoad == halted = "no" /\ current # -1 /\ (k.op = "load" \/ (k.op = "none" /\ me.phase = "load"))

Hold(a) ==
    IF ~GotFrame(a) THEN Halt(NoFrame(a)) /\ UNCHANGED task
    ELSE /\ mem' = WithRegions(mem, a.regions)
         /\ task' = [task EXCEPT ![current].held = a.frame]
         /\ UNCHANGED <<k, halted>>

load_alloc ==
    /\ CanLoad /\ Loading /\ me.held = 0
    /\ Hold(pmm_alloc(mem.regions))
    /\ UNCHANGED <<current, next_pid>>

(* The flags of a segment's pages once its contents are copied. *)
SegmentFlags(seg) == {"P", "U"} \cup IF seg.w THEN {"W"} ELSE {}

(* Faulty: the pages keep the flags they were written through. *)
remap_nothing(m, seg) == m

RemapSegment(m, seg) == vmm_remap(m, MyDir, seg.first .. seg.last, SegmentFlags(seg))

(* What is left to load after the current page. *)
LastPage == me.load.page = Segment.last
LastOfImage == LastPage /\ me.load.seg = Len(me.load.img)
NextLoad ==
    IF LastOfImage THEN NoLoad
    ELSE IF LastPage THEN [me.load EXCEPT !.seg = @ + 1, !.page = me.load.img[me.load.seg + 1].first]
    ELSE [me.load EXCEPT !.page = @ + 1]

LoadPage(r) ==
    IF r.err # "no" THEN Halt(r.err) /\ UNCHANGED task
    ELSE /\ mem' = IF LastPage THEN RemapSegment(r.mem, Segment) ELSE r.mem
         /\ task' = [task EXCEPT ![current].held = 0, ![current].load = NextLoad,
                                 ![current].phase = IF LastOfImage /\ @ = "load" THEN "stack" ELSE @]
         /\ k' = IF LastOfImage THEN Idle ELSE k
         /\ UNCHANGED halted

load_map ==
    /\ CanLoad /\ Loading /\ me.held # 0
    /\ LoadPage(vmm_map(mem, MyDir, me.load.page, me.held, {"P", "W"}))
    /\ UNCHANGED <<current, next_pid>>

jump_to_usermode_alloc ==
    /\ Running /\ me.phase = "stack" /\ me.held = 0
    /\ Hold(pmm_alloc(mem.regions))
    /\ UNCHANGED <<current, next_pid>>

EnterUser(r) ==
    IF r.err # "no" THEN Halt(r.err) /\ UNCHANGED task
    ELSE /\ mem' = r.mem
         /\ task' = [task EXCEPT ![current].held = 0, ![current].phase = "user"]
         /\ UNCHANGED <<k, halted>>

jump_to_usermode_map ==
    /\ Running /\ me.phase = "stack" /\ me.held # 0
    /\ EnterUser(vmm_map(mem, MyDir, USER_STACK, me.held, {"P", "W", "U"}))
    /\ UNCHANGED <<current, next_pid>>
-----------------------------------------------------------------------------
(* syscall_exec_handler.  A file that initrd does not have changes nothing *)
(* and is not an action here.                                              *)

exec ==
    /\ Running /\ me.phase = "user"
    /\ \E img \in Images : task' = [task EXCEPT ![current].load = LoadOf(img)]
    /\ k' = [Idle EXCEPT !.op = "reset"]
    /\ UNCHANGED <<mem, current, next_pid, halted>>

(* Faulty: the last entry, with the kernel stack in it, is reset too. *)
reset_all_pdes == UserPdes

(* vmm_reset_current_pagedir stops before the entry of the stacks. *)
ResetPdes == UserPdes \ {USER_PDE_END}

reset_pde ==
    /\ Busy("reset")
    /\ \E i \in ResetPdes :
        /\ NextPde(MyDir, ResetPdes, i)
        /\ Do(free_pde(mem, MyDir, i), [k EXCEPT !.i = i + 1])
    /\ UNCHANGED <<task, current, next_pid>>

reset_done ==
    /\ Busy("reset")
    /\ \A i \in ResetPdes : i >= k.i => mem.dirs[MyDir][i] = 0
    /\ k' = [Idle EXCEPT !.op = "load"]
    /\ UNCHANGED <<mem, task, current, next_pid, halted>>
-----------------------------------------------------------------------------
(* syscall_mmap_handler.  A call that is refused changes nothing. *)

MmapPermitted(first, last) ==
    \A p \in first .. last : ~Present(mem, MyDir, p) /\ p \in UserPages

mmap ==
    /\ Running /\ me.phase = "user"
    /\ \E first \in MmapPages, n \in 1 .. MaxMmap, w \in BOOLEAN :
        /\ MmapPermitted(first, first + n - 1)
        /\ k' = [Idle EXCEPT !.op = "mmap", !.i = first, !.first = first, !.last = first + n - 1,
                             !.flags = SegmentFlags([w |-> w])]
    /\ UNCHANGED <<mem, task, current, next_pid, halted>>

(* Faulty: the roll back misses the first page. *)
rollback_partial(m, first, page) == vmm_unmap(m, MyDir, first + 1 .. page - 1)

(* The pages before the one that got no frame are unmapped; their frames   *)
(* are not given back.                                                     *)
mmap_rollback(m, first, page) == vmm_unmap(m, MyDir, first .. page - 1)

MmapPage(a) ==
    \/ /\ a.frame = INVALID_FRAME
       /\ mem' = mmap_rollback(mem, k.first, k.i)
       /\ k' = Idle /\ UNCHANGED halted
    \/ a.frame = FRAME_ASSERT /\ Halt("bitset")
    \/ /\ GotFrame(a)
       /\ Do(vmm_map(WithRegions(mem, a.regions), MyDir, k.i, a.frame, k.flags),
             IF k.i = k.last THEN Idle ELSE [k EXCEPT !.i = @ + 1])

mmap_page ==
    /\ Busy("mmap")
    /\ MmapPage(pmm_alloc(mem.regions))
    /\ UNCHANGED <<task, current, next_pid>>
-----------------------------------------------------------------------------
(* The end of a task, and the switch to another one. *)

Runnable == {p \in DOMAIN task : task[p].phase # "exited"}
Exited == DOMAIN task \ Runnable

(* task_switch: the kernel half of the next directory is brought up to    *)
(* date before the directory is used.                                     *)
SwitchTo(p) ==
    /\ current' = p
    /\ mem' = vmm_copy_kernel_mappings(mem, MyDir, task[p].dir)

exit ==
    /\ Running /\ me.phase = "user"
    /\ task' = [task EXCEPT ![current].phase = "exited"]
    /\ \E p \in Runnable \ {current} : SwitchTo(p)
    /\ UNCHANGED <<next_pid, k, halted>>

(* yield, a blocking call, or a timer interrupt that finds no exited task. *)
switch ==
    /\ Running /\ current # -1
    /\ \E p \in Runnable \ {current} : SwitchTo(p)
    /\ UNCHANGED <<task, next_pid, k, halted>>

(* scheduler_timer collects the exited tasks before it switches: k.last is *)
(* the task it is at, k.dir its directory.                                 *)
collect ==
    /\ Running /\ Exited # {}
    /\ k' = [Idle EXCEPT !.op = "collect", !.last = LeastOf(Exited), !.dir = task[LeastOf(Exited)].dir]
    /\ UNCHANGED <<mem, task, current, next_pid, halted>>

(* Faulty: the directory's last entry is left alone, as in the reset. *)
destroy_spares_last == UserPdes \ {USER_PDE_END}

(* vmm_destroy_pagedir looks at every user entry. *)
DestroyPdes == UserPdes

DestroyPde(r, page, i) ==
    IF r.err # "no" THEN r ELSE free_pde(vmm_transient_unmap(r.mem, MyDir, page), k.dir, i)

collect_pde ==
    /\ Busy("collect")
    /\ \E i \in DestroyPdes :
        /\ NextPde(k.dir, DestroyPdes, i)
        /\ Do(DestroyPde(vmm_transient_map(mem, MyDir, mem.dirs[k.dir][i]), kmalloc_page(mem), i),
              [k EXCEPT !.i = i + 1])
    /\ UNCHANGED <<task, current, next_pid>>

(* kfree of the directory and of the task; then the next one, or the       *)
(* switch.                                                                 *)
collect_done ==
    /\ Busy("collect")
    /\ \A i \in DestroyPdes : i >= k.i => mem.dirs[k.dir][i] = 0
    /\ LET left == Exited \ {k.last}
           m == [kfree(mem, k.dir) EXCEPT !.dirs = Restrict(@, DOMAIN @ \ {k.dir})]
       IN  /\ task' = Restrict(task, DOMAIN task \ {k.last})
           /\ IF left # {}
              THEN /\ k' = [Idle EXCEPT !.op = "collect", !.last = LeastOf(left), !.dir = task[LeastOf(left)].dir]
                   /\ mem' = m /\ UNCHANGED current
              ELSE /\ k' = Idle
                   /\ \E p \in Runnable :
                        /\ current' = p
                        /\ mem' = vmm_copy_kernel_mappings(m, MyDir, task[p].dir)
    /\ UNCHANGED <<next_pid, halted>>

Next ==
    \/ scheduler_start \/ clone_table \/ clone_page \/ clone_dst \/ clone_copy \/ clone_table_done \/ clone_done
    \/ fork \/ load_alloc \/ load_map \/ jump_to_usermode_alloc \/ jump_to_usermode_map
    \/ exec \/ reset_pde \/ reset_done \/ mmap \/ mmap_page
    \/ exit \/ switch \/ collect \/ collect_pde \/ collect_done

Spec == Init /\ [][Next]_vars
-----------------------------------------------------------------------------
(* Properties. *)

Frames == UNION {Pages(mem.regions[r]) : r \in Indexes(mem.regions)}
Reserved == Frames \ FreeFrames(mem.regions)
(* Page tables that a directory refers to, or will when its clone is done. *)
LiveTables ==
    ({mem.dirs[d][i] : d \in DOMAIN mem.dirs, i \in UserPdes \cup KernelPdes} \cup
     IF k.op \in {"clone_pte", "clone_dst", "clone_copy"} THEN {k.last} ELSE {}) \ {0}
KernelTables == {mem.dirs[d][i] : d \in DOMAIN mem.dirs, i \in KernelPdes} \ {0}
UserTables == LiveTables \ KernelTables
(* The user mappings: <<table, index>> pairs. *)
Mappings == UNION {{t} \X PresentPtes(mem.tables[t]) : t \in UserTables}
FrameAt(x) == mem.tables[x[1]][x[2]].frame
MappedFrames == {FrameAt(x) : x \in Mappings}
HeldFrames == {task[p].held : p \in DOMAIN task} \ {0}
Owned == KernelFrames \cup {k.frame} \cup Range(mem.heap.frame) \cup LiveTables \cup MappedFrames \cup HeldFrames
Orphans == Reserved \ Owned

TypeOK ==
    /\ DOMAIN mem.dirs \subseteq mem.heap.used
    /\ mem.heap.used \subseteq 0 .. mem.heap.size - 1 /\ mem.heap.size \in 2 .. HeapMax
    /\ \A t \in DOMAIN mem.tables, i \in Ptes :
        mem.tables[t][i].frame \in Nat /\ mem.tables[t][i].flags \subseteq {"P", "W", "U"}
    /\ \A d \in DOMAIN mem.dirs, i \in UserPdes \cup KernelPdes :
        mem.dirs[d][i] # 0 => mem.dirs[d][i] \in DOMAIN mem.tables
    /\ \A p \in DOMAIN task : task[p].dir \in DOMAIN mem.dirs
    /\ current \in DOMAIN task \cup {-1}
    /\ halted \in {"no", "frames", "heap", "bitset", "mapped", "free"}

(* No frame has two uses: it is mapped at one page of one address space,   *)
(* or is one page table, or one page of the kernel heap, or held by one    *)
(* task that is about to map it, and every frame in use is reserved in the *)
(* bit maps of pmm.c.                                                      *)
OneUsePerFrame ==
    halted = "no" =>
        /\ \A x, y \in Mappings : FrameAt(x) = FrameAt(y) => x = y
        /\ \A p, q \in DOMAIN task : task[p].held = task[q].held /\ task[p].held # 0 => p = q
        /\ MappedFrames \cap (DOMAIN mem.tables \cup Range(mem.heap.frame) \cup KernelFrames) = {}
        /\ HeldFrames \cap (MappedFrames \cup DOMAIN mem.tables \cup Range(mem.heap.frame)) = {}
        /\ UserTables \cap (Range(mem.heap.frame) \cup KernelFrames) = {}
        /\ \A c, d \in DOMAIN mem.dirs, i, j \in UserPdes :
            mem.dirs[c][i] = mem.dirs[d][j] /\ mem.dirs[c][i] # 0 => c = d /\ i = j
        /\ \A f \in Owned \cap Frames : pmm_reserved(mem.regions, f)

(* The machine never stops on a page mapped twice ("already mapped") or a  *)
(* frame freed twice or unknown: the aborts of vmm_map and pmm_free are    *)
(* unreachable.  It stops for lack of frames only when none is free, and   *)
(* on the assertion in bitset_test only when a region whose size is not a  *)
(* multiple of an element is full.                                         *)
HaltsOnlyOutOfMemory ==
    /\ halted \notin {"mapped", "free"}
    /\ halted = "frames" => FreeFrames(mem.regions) = {}
    /\ halted = "bitset" => FullPartialRegion(mem.regions)
    /\ halted = "heap" => mem.heap.size = HeapMax \/ FreeFrames(mem.regions) = {}

(* The running task's kernel stack is mapped, and writable, at every step: *)
(* during exec's reset of the address space too.                           *)
KernelStackMapped ==
    current # -1 => {"P", "W"} \subseteq vmm_get_flags(mem, MyDir, KERNEL_STACK)

(* Whenever user code may run every address space has the same kernel      *)
(* half, so that a directory, a task record or a message in the heap is    *)
(* visible whichever task runs, and every heap page shows its own frame:   *)
(* each transient mapping has been undone, its page given back or reused.  *)
KernelHalfShared ==
    halted = "no" /\ k.op = "none" =>
        /\ \A c, d \in DOMAIN mem.dirs : \A i \in KernelPdes : mem.dirs[c][i] = mem.dirs[d][i]
        /\ DOMAIN mem.transient = {}
        /\ mem.heap.used = DOMAIN mem.dirs \cup {1}
        /\ \A i \in 1 .. mem.heap.size :
            vmm_get_physical(mem, MyDir, HeapStart + i - 1) = mem.heap.frame[i]

(* Frames are lost -- reserved, with no use -- by an mmap that runs out of *)
(* frames half way, and by nothing else: fork, exec, exit and the          *)
(* collection of a task account for every frame.                           *)
LostOnlyByMmap ==
    [][Orphans' # Orphans =>
        \/ halted' # "no"
        \/ k.op = "mmap" /\ k' = Idle /\ Orphans \subseteq Orphans' /\ FreeFrames(mem.regions) = {}]_vars

(* What a directory maps in its user half: pages with their frame and flags. *)
View(m, d) == [p \in 0 .. (USER_PDE_END + 1) * TableSize - 1 |->
                  IF Present(m, d, p) THEN va_info_ex(m, d, p) ELSE NoEntry]

(* A step changes the address space of at most the task that runs, the     *)
(* directory it is cloning into and the one that is being collected.       *)
OthersUntouched ==
    [][\A p \in DOMAIN task \cap DOMAIN task' :
        p # current /\ ~(k.op = "collect" /\ p = k.last) =>
            View(mem', task'[p].dir) = View(mem, task[p].dir)]_vars

(* A fork gives the child the parent's pages with the parent's flags.      *)
ForkCopies ==
    [][k.op = "clone" /\ next_pid' = next_pid + 1 =>
        \A p \in 0 .. (USER_PDE_END + 1) * TableSize - 1 :
            vmm_get_flags(mem', k.dir, p) = vmm_get_flags(mem', MyDir, p)]_vars

(* After exec the address space below the stacks' table is the image's     *)
(* pages, with its flags, and nothing else.                                *)
ExecLeavesImage ==
    [][k.op = "load" /\ k'.op = "none" /\ halted' = "no" =>
        \E img \in Images : \A p \in 0 .. USER_PDE_END * TableSize - 1 :
            LET segs == {s \in Range(img) : p \in s.first .. s.last}
            IN  vmm_get_flags(mem', MyDir, p) = UNION {SegmentFlags(s) : s \in segs}]_vars

(* mmap maps all of its pages or none. *)
MmapAllOrNothing ==
    [][k.op = "mmap" /\ k'.op = "none" =>
        \/ \A p \in k.first .. k.last : vmm_get_flags(mem', MyDir, p) = k.flags
        \/ \A p \in k.first .. k.last : ~Present(mem', MyDir, p)]_vars
=============================================================================
