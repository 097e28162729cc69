----------------------------- MODULE MemoryInvariant ------------------------
(***************************************************************************)
(* The inductive invariant of Memory, MemoryInv.  Good says what a state   *)
(* of the memory managers is, with parameters for what an operation has in *)
(* hand half way: directories without their kernel half, tables that no    *)
(* directory has yet, frames and heap pages about to be used.  The other   *)
(* conjuncts of RunningOk tie tasks, phases and the operation in progress  *)
(* to it.                                                                  *)
(***************************************************************************)
EXTENDS Memory

RegionType == [addr : Nat, len : Nat, bitmap : [size : Nat, bits : SUBSET Nat]]

(* The frames that the regions manage, and those of them that are taken. *)
Managed(regions) == UNION {Pages(regions[r]) : r \in Indexes(regions)}
TakenIn(region, p) == p \in Pages(region) /\ p - region.addr \in region.bitmap.bits
Taken(regions) == {p \in Managed(regions) : \E r \in Indexes(regions) : TakenIn(regions[r], p)}

(* Regions are disjoint, and no bit past a region's size is set. *)
RegionsOk(regions) ==
    /\ regions \in Seq(RegionType)
    /\ \A r \in Indexes(regions) :
        /\ regions[r].bitmap.size = regions[r].len
        /\ regions[r].bitmap.bits \subseteq 0 .. regions[r].len - 1
    /\ \A r, s \in Indexes(regions) : \A p \in Pages(regions[r]) : p \in Pages(regions[s]) => r = s
EntryType == [frame : Nat, flags : SUBSET {"P", "W", "U"}]
HeapType == [size : 2 .. HeapMax, used : SUBSET Nat, frame : Seq(Nat)]
KernelTable == BootHeap[2]
KernelEntry(i) == IF i = USER_PDE_END + 1 THEN KernelTable ELSE 0
UserTabs(tables) == DOMAIN tables \ {KernelTable}

TablesOk(dirs, tables) ==
    /\ DOMAIN dirs \subseteq Nat /\ 0 \in DOMAIN dirs
    /\ \A d \in DOMAIN dirs : dirs[d] \in [UserPdes \cup KernelPdes -> Nat]
    /\ DOMAIN tables \subseteq Nat \ {0} /\ KernelTable \in DOMAIN tables
    /\ \A t \in DOMAIN tables : tables[t] \in [Ptes -> EntryType]

(* The tables other than the kernel's are the user entries of the          *)
(* directories, each of one entry, and those in C, which no directory has  *)
(* yet.  The kernel half of a directory is empty for those in N.           *)
DirsOk(dirs, tables, N, C) ==
    /\ \A d \in DOMAIN dirs : \A i \in UserPdes : dirs[d][i] # 0 => dirs[d][i] \in UserTabs(tables) \ C
    /\ \A c, d \in DOMAIN dirs : \A i, j \in UserPdes :
        dirs[c][i] = dirs[d][j] /\ dirs[c][i] # 0 => c = d /\ i = j
    /\ \A t \in UserTabs(tables) \ C : \E d \in DOMAIN dirs : \E i \in UserPdes : dirs[d][i] = t
    /\ C \subseteq UserTabs(tables)
    /\ \A d \in DOMAIN dirs : \A i \in KernelPdes :
        dirs[d][i] = IF d \in N THEN 0 ELSE KernelEntry(i)

(* User tables map different frames, which are neither tables nor pages of *)
(* the heap nor in H; frames in use are taken.                             *)
FramesOk(regions, tables, heapFrames, H) ==
    /\ \A t, u \in UserTabs(tables) : \A i, j \in Ptes :
        "P" \in tables[t][i].flags /\ "P" \in tables[u][j].flags /\ tables[t][i].frame = tables[u][j].frame
            => t = u /\ i = j
    /\ \A t \in UserTabs(tables) : \A i \in Ptes :
        "P" \in tables[t][i].flags =>
            /\ tables[t][i].frame \in Taken(regions)
            /\ tables[t][i].frame \notin UserTabs(tables) \cup heapFrames \cup KernelFrames \cup H
    /\ UserTabs(tables) \cup H \subseteq Taken(regions)
    /\ \A t \in UserTabs(tables) : t \notin heapFrames \cup KernelFrames \cup H
    /\ \A f \in H : f \notin heapFrames \cup KernelFrames
    /\ \A f \in heapFrames \cup KernelFrames : f \in Managed(regions) => f \in Taken(regions)

(* Heap page i - 1 shows its own frame, or the one that "transient"        *)
(* remembers for it; the pages past the heap are not mapped.               *)
HeapOk(dirs, tables, heap, transient, E) ==
    /\ heap \in HeapType /\ Len(heap.frame) = heap.size
    /\ heap.used = DOMAIN dirs \cup {1} \cup DOMAIN transient \cup E
    /\ heap.used \subseteq 0 .. heap.size - 1
    /\ 1 \notin DOMAIN dirs \cup DOMAIN transient \cup E
    /\ \A page \in DOMAIN dirs : page \notin DOMAIN transient \cup E
    /\ \A page \in E : page \notin DOMAIN transient
    /\ \A i \in 0 .. heap.size - 1 :
        LET entry == tables[KernelTable][Idx(HeapStart + i)]
        IN  /\ "P" \in entry.flags
            /\ heap.frame[i + 1] = IF i \in DOMAIN transient THEN transient[i] ELSE entry.frame
    /\ \A i \in heap.size .. HeapMax - 1 : "P" \notin tables[KernelTable][Idx(HeapStart + i)].flags

MemType(m) == m = [regions |-> m.regions, dirs |-> m.dirs, tables |-> m.tables, heap |-> m.heap,
                   transient |-> m.transient]

(* The record "mem" while the directories in N have no kernel half yet, no *)
(* directory has the tables in C, the frames in H are about to be used and *)
(* so are the heap pages in E.                                             *)
Good(m, N, C, H, E) ==
    /\ MemType(m)
    /\ RegionsOk(m.regions)
    /\ TablesOk(m.dirs, m.tables)
    /\ DirsOk(m.dirs, m.tables, N, C)
    /\ FramesOk(m.regions, m.tables, Range(m.heap.frame), H)
    /\ HeapOk(m.dirs, m.tables, m.heap, m.transient, E)

(* What can stop the machine. *)
HaltCause(err, m) ==
    /\ err \in {"frames", "bitset", "heap"}
    /\ err = "frames" => FreeFrames(m.regions) = {}
    /\ err = "bitset" => FullPartialRegion(m.regions)
    /\ err = "heap" => m.heap.size = HeapMax \/ FreeFrames(m.regions) = {}
TableOps == {"clone_pte", "clone_dst", "clone_copy"}
CloneOps == {"clone"} \cup TableOps
PageOps == {"clone_dst", "clone_copy"}
Ops == {"none", "boot", "reset", "load", "mmap", "collect"} \cup CloneOps
LoadType == [img : Seq(SegmentType), seg : Nat, page : Nat]
TaskType == [dir : Nat, phase : {"kernel", "load", "stack", "user", "exited"}, held : Nat, load : LoadType]

KType == [op : Ops, dir : Nat, i : Nat, j : Nat, first : Nat, last : Nat, src : Nat, dst : Nat,
          frame : Nat, flags : SUBSET {"P", "W", "U"}]

(* What a clone has in hand. *)
NewDirs == IF k.op \in CloneOps THEN {k.dir} ELSE {}
NewTables == IF k.op \in TableOps THEN {k.last} ELSE {}

Shown == (IF k.op \in TableOps THEN {k.first} ELSE {})
            \cup (IF k.op \in PageOps THEN {k.src} ELSE {})
            \cup (IF k.op = "clone_copy" THEN {k.dst} ELSE {})
InHand == HeldFrames \cup ({k.frame} \ {0})

MemOk ==
    /\ Good(mem, NewDirs, NewTables, InHand, {})
    /\ DOMAIN mem.transient = Shown

TypesOk ==
    /\ next_pid \in Nat /\ k \in KType
    /\ DOMAIN task \subseteq 0 .. next_pid - 1
    /\ \A p \in DOMAIN task : task[p] \in TaskType
    /\ k.frame # 0 <=> k.op \in PageOps

(* Tasks have directories of their own, and hold frames of their own. *)
TasksAt(tasks, dirs, N, frame) ==
    /\ \A p \in DOMAIN tasks : tasks[p].dir \in DOMAIN dirs /\ tasks[p].dir # 0 /\ tasks[p].dir \notin N
    /\ \A p, q \in DOMAIN tasks : tasks[p].dir = tasks[q].dir => p = q
    /\ \A p, q \in DOMAIN tasks : tasks[p].held = tasks[q].held /\ tasks[p].held # 0 => p = q
    /\ \A p \in DOMAIN tasks : tasks[p].held # 0 => tasks[p].held # frame
TasksOk == TasksAt(task, mem.dirs, NewDirs, k.frame)

CurrentOk ==
    /\ IF current = -1 THEN next_pid < 2 /\ k.op \in {"boot"} \cup CloneOps
       ELSE /\ current \in DOMAIN task /\ task[current].phase # "exited"
            /\ next_pid >= 2 /\ k.op # "boot"
    /\ k.op = "boot" => next_pid = 0
    /\ next_pid > 0 => KernelTask \in DOMAIN task /\ task[KernelTask].phase = "kernel"
    /\ k.op \in {"reset", "load", "mmap"} => task[current].phase = "user"
Stacked(m, d) == {"P", "W"} \subseteq vmm_get_flags(m, d, KERNEL_STACK)
NoUserStack(m, d) == ~Present(m, d, USER_STACK)
EmptyBelow(m, d) == \A i \in ResetPdes : m.dirs[d][i] = 0

(* The flags that the pages of the image have while it is being loaded. *)
DoneSegments(load, p) == {s \in 1 .. load.seg - 1 : p \in load.img[s].first .. load.img[s].last}

LoadFlags(load, p) ==
    IF p \in load.img[load.seg].first .. load.page - 1 THEN {"P", "W"}
    ELSE UNION {SegmentFlags(load.img[s]) : s \in DoneSegments(load, p)}

LoadOk(load) ==
    /\ ImageOk(load.img) /\ load.seg \in 1 .. Len(load.img)
    /\ load.page \in load.img[load.seg].first .. load.img[load.seg].last
LowPages == 0 .. USER_PDE_END * TableSize - 1
Loaded(m, d, load) == \A p \in LowPages : vmm_get_flags(m, d, p) = LoadFlags(load, p)

(* What a task's phase says, when op is what the kernel does for it. *)
ExecOps == {"reset", "load"}

PhaseAt(m, t, op) ==
    /\ t.phase # "exited" => Stacked(m, t.dir)
    /\ t.phase \in {"kernel", "load", "stack"} => NoUserStack(m, t.dir)
    /\ t.phase = "kernel" => EmptyBelow(m, t.dir)
    /\ t.phase \in {"kernel", "exited"} \/ (t.phase = "user" /\ op \notin ExecOps) => t.held = 0
    /\ t.phase = "load" \/ op \in ExecOps => LoadOk(t.load)
    /\ t.phase # "load" /\ op \notin ExecOps => t.load = NoLoad
    /\ t.phase = "load" \/ op = "load" => Loaded(m, t.dir, t.load)
    /\ op \in ExecOps => t.load.img \in Images
    /\ op = "reset" => t.load = LoadOf(t.load.img)
OpOf(p) == IF p = current THEN k.op ELSE "none"
PhasesOk == \A p \in DOMAIN task : PhaseAt(mem, task[p], OpOf(p))

(* The boot directory. *)
BootAt(m, op) ==
    /\ EmptyBelow(m, 0) /\ NoUserStack(m, 0)
    /\ IF op = "boot" THEN m.dirs[0][USER_PDE_END] = 0 ELSE Stacked(m, 0)
BootOk == BootAt(mem, k.op)

(* Entry i of directories c and d: the same pages with the same flags. *)
ShownFlags(entry) == IF "P" \in entry.flags THEN entry.flags ELSE {}

SameFlags(m, i, c, d) ==
    IF m.dirs[c][i] = 0 THEN m.dirs[d][i] = 0
    ELSE /\ m.dirs[d][i] # 0
         /\ \A j \in Ptes : ShownFlags(m.tables[m.dirs[d][i]][j]) = ShownFlags(m.tables[m.dirs[c][i]][j])

(* A clone of directory d, at the place that x says. *)
CloneAt(m, x, d) ==
    /\ x.dir \in DOMAIN m.dirs /\ x.dir # 0
    /\ \A i \in UserPdes : i < x.i => SameFlags(m, i, d, x.dir)
    /\ \A i \in UserPdes : i >= x.i => m.dirs[x.dir][i] = 0

TableAt(m, x, d) ==
    /\ x.i \in UserPdes /\ m.dirs[d][x.i] # 0
    /\ \A j \in Ptes : ShownFlags(m.tables[x.last][j]) =
                          IF j < x.j THEN ShownFlags(m.tables[m.dirs[d][x.i]][j]) ELSE {}

PageAt(m, x, d) ==
    /\ x.op \in PageOps => x.j \in PresentPtes(m.tables[m.dirs[d][x.i]]) /\ x.first # x.src
    /\ x.op = "clone_copy" => x.dst # x.src /\ x.first # x.dst

MmapAt(m, x, d) ==
    /\ x.i \in x.first .. x.last /\ "P" \in x.flags
    /\ \A p \in x.first .. x.last :
        p \in UserPages /\ vmm_get_flags(m, d, p) = IF p < x.i THEN x.flags ELSE {}
    /\ KERNEL_STACK \notin x.first .. x.last

CollectOk ==
    /\ k.last \in Exited /\ k.dir = task[k.last].dir
    /\ \A i \in UserPdes : i < k.i => mem.dirs[k.dir][i] = 0

OpOk ==
    /\ k.op \in CloneOps => CloneAt(mem, k, MyDir) /\ (k.op = "clone" => k.j = 0)
    /\ k.op \in TableOps => TableAt(mem, k, MyDir) /\ PageAt(mem, k, MyDir)
    /\ k.op = "reset" => \A i \in ResetPdes : i < k.i => mem.dirs[MyDir][i] = 0
    /\ k.op = "mmap" => MmapAt(mem, k, MyDir)
    /\ k.op = "collect" => CollectOk
RunningOk == MemOk /\ TypesOk /\ TasksOk /\ CurrentOk /\ PhasesOk /\ BootOk /\ OpOk

MemoryInv ==
    IF halted = "no" THEN RunningOk
    ELSE HaltsOnlyOutOfMemory /\ KernelStackMapped
=============================================================================
