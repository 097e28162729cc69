----------------------------- MODULE MemoryProofs ---------------------------
EXTENDS CloneProofs, TaskProofs

-----------------------------------------------------------------------------
(* A directory goes. *)

(* A directory whose user half is empty goes. *)
DropDir(m, d) == [kfree(m, d) EXCEPT !.dirs = Restrict(@, DOMAIN @ \ {d})]

GoneDir(m, after, d) ==
    /\ DOMAIN after.dirs = Without(DOMAIN m.dirs, d) /\ after.transient = m.transient
    /\ \A c \in DOMAIN m.dirs : c # d => SameUser(m, after, c)

LEMMA DropDirFacts ==
    ASSUME NEW m, NEW N, NEW C, NEW H, Good(m, N, C, H, {}), NEW d \in DOMAIN m.dirs, d # 0,
           \A i \in UserPdes : m.dirs[d][i] = 0, NEW m2, m2 = DropDir(m, d)
    PROVE  Good(m2, N, C, H, {}) /\ GoneDir(m, m2, d)
<1>1. /\ MemType(m) /\ RegionsOk(m.regions) /\ TablesOk(m.dirs, m.tables) /\ DirsOk(m.dirs, m.tables, N, C)
      /\ FramesOk(m.regions, m.tables, Range(m.heap.frame), H)
      /\ HeapOk(m.dirs, m.tables, m.heap, m.transient, {})
  BY Zenon DEF Good
<1>2. m.heap \in HeapType
  BY <1>1, Zenon DEF HeapOk
<1>3. /\ MemType(m2) /\ m2.regions = m.regions /\ m2.tables = m.tables
      /\ m2.heap = [m.heap EXCEPT !.used = m.heap.used \ {d}]
      /\ m2.transient = m.transient /\ m2.dirs = Restrict(m.dirs, DOMAIN m.dirs \ {d})
  BY <1>1, Zenon DEF MemType, DropDir, kfree
<1>4. /\ m2.heap \in HeapType /\ m2.heap.size = m.heap.size /\ m2.heap.frame = m.heap.frame
      /\ m2.heap.used = m.heap.used \ {d}
  BY <1>2, <1>3, Zenon DEF HeapType
<1>5. /\ DOMAIN m2.dirs = DOMAIN m.dirs \ {d}
      /\ \A c \in DOMAIN m2.dirs : m2.dirs[c] = m.dirs[c] /\ c \in DOMAIN m.dirs
  BY <1>3, Zenon DEF Restrict
<1>6. TablesOk(m2.dirs, m2.tables)
  BY <1>1, <1>3, <1>5, Zenon DEF TablesOk
<1>7. DirsOk(m2.dirs, m2.tables, N, C)
  <2>1. \A t \in UserTabs(m.tables) \ C : \E c \in DOMAIN m2.dirs : \E i \in UserPdes : m2.dirs[c][i] = t
    <3> SUFFICES ASSUME NEW t \in UserTabs(m.tables) \ C
                 PROVE  \E c \in DOMAIN m2.dirs : \E i \in UserPdes : m2.dirs[c][i] = t
      BY Zenon
    <3>1. PICK c \in DOMAIN m.dirs, i \in UserPdes : m.dirs[c][i] = t
      BY <1>1, Zenon DEF DirsOk
    <3>2. c # d
      BY <1>1, <3>1, Zenon DEF TablesOk, UserTabs
    <3> QED
      BY <1>5, <3>1, <3>2, Zenon
  <2>2. \A c \in DOMAIN m2.dirs : \A i \in UserPdes : m2.dirs[c][i] # 0 => m2.dirs[c][i] \in UserTabs(m.tables) \ C
    BY <1>1, <1>5, Zenon DEF DirsOk
  <2>3. \A c, e \in DOMAIN m2.dirs : \A i, j \in UserPdes :
            m2.dirs[c][i] = m2.dirs[e][j] /\ m2.dirs[c][i] # 0 => c = e /\ i = j
    BY <1>1, <1>5 DEF DirsOk
  <2>4. C \subseteq UserTabs(m.tables)
    BY <1>1, Zenon DEF DirsOk
  <2>5. \A c \in DOMAIN m2.dirs : \A i \in KernelPdes : m2.dirs[c][i] = IF c \in N THEN 0 ELSE KernelEntry(i)
    BY <1>1, <1>5 DEF DirsOk
  <2> QED
    BY <1>3, <2>1, <2>2, <2>3, <2>4, <2>5, Zenon DEF DirsOk
<1>8. HeapOk(m2.dirs, m2.tables, m2.heap, m2.transient, {})
  <2>1. d # 1 /\ d \notin DOMAIN m.transient
    BY <1>1, Zenon DEF HeapOk
  <2>2. m2.heap.used = DOMAIN m2.dirs \cup {1} \cup DOMAIN m2.transient \cup {}
    BY <1>1, <1>3, <1>4, <1>5, <2>1 DEF HeapOk
  <2>3. /\ m2.heap.used \subseteq 0 .. m2.heap.size - 1
        /\ 1 \notin DOMAIN m2.dirs \cup DOMAIN m2.transient \cup {}
        /\ \A page \in DOMAIN m2.dirs : page \notin DOMAIN m2.transient \cup {}
    BY <1>1, <1>3, <1>4, <1>5, Zenon DEF HeapOk
  <2>4. /\ \A i \in 0 .. m2.heap.size - 1 :
            LET entry == m2.tables[KernelTable][Idx(HeapStart + i)]
            IN  /\ "P" \in entry.flags
                /\ m2.heap.frame[i + 1] = IF i \in DOMAIN m2.transient THEN m2.transient[i] ELSE entry.frame
        /\ \A i \in m2.heap.size .. HeapMax - 1 : "P" \notin m2.tables[KernelTable][Idx(HeapStart + i)].flags
        /\ Len(m2.heap.frame) = m2.heap.size
    BY <1>1, <1>3, <1>4 DEF HeapOk
  <2> QED
    BY <1>4, <2>2, <2>3, <2>4, Zenon DEF HeapOk
<1>9. Good(m2, N, C, H, {})
  BY <1>1, <1>3, <1>4, <1>6, <1>7, <1>8, Zenon DEF Good
<1> QED
  BY <1>3, <1>5, <1>9, Zenon DEF GoneDir, SameUser, Without

-----------------------------------------------------------------------------
(* The end of a task, and the switch: what holds when the kernel is about  *)
(* to let some task run.                                                   *)
SettledAt(m, tasks) ==
    /\ Good(m, {}, {}, {tasks[p].held : p \in DOMAIN tasks} \ {0}, {}) /\ DOMAIN m.transient = {}
    /\ next_pid \in Nat /\ next_pid >= 2 /\ DOMAIN tasks \subseteq 0 .. next_pid - 1
    /\ \A p \in DOMAIN tasks : tasks[p] \in TaskType
    /\ TasksAt(tasks, m.dirs, {}, 0)
    /\ KernelTask \in DOMAIN tasks /\ tasks[KernelTask].phase = "kernel"
    /\ \A p \in DOMAIN tasks : PhaseAt(m, tasks[p], "none")
    /\ BootAt(m, "none")

LEMMA Settled ==
    ASSUME RunningOk, k.op \in {"none", "collect"}
    PROVE  SettledAt(mem, task)
<1>o. k.op \notin CloneOps /\ k.op # "boot" /\ k.op \notin ExecOps
  BY OpFacts, Zenon
<1>1. Good(mem, {}, {}, HeldFrames, {}) /\ DOMAIN mem.transient = {} /\ NewDirs = {} /\ k.frame = 0
  BY <1>o, PlainHand, Zenon
<1>2. next_pid \in Nat /\ next_pid >= 2 /\ KernelTask \in DOMAIN task /\ task[KernelTask].phase = "kernel"
  BY <1>o, NotBoot, Zenon
<1>3. TasksAt(task, mem.dirs, {}, 0)
  BY <1>1, Zenon DEF RunningOk, TasksOk
<1>4. BootAt(mem, "none")
  BY <1>o, Zenon DEF RunningOk, BootOk, BootAt
<1>5. \A p \in DOMAIN task : PhaseAt(mem, task[p], "none")
  <2>1. \A p \in DOMAIN task : PhaseAt(mem, task[p], OpOf(p)) /\ OpOf(p) \notin ExecOps
    BY <1>o, OpFacts, Zenon DEF RunningOk, PhasesOk, OpOf
  <2> QED
    BY <2>1, OpFacts, PhaseOtherOp, Zenon
<1>6. DOMAIN task \subseteq 0 .. next_pid - 1 /\ \A p \in DOMAIN task : task[p] \in TaskType
  BY Zenon DEF RunningOk, TypesOk
<1> QED
  BY <1>1, <1>2, <1>3, <1>4, <1>5, <1>6, Zenon DEF SettledAt, HeldFrames

LEMMA SettledInv ==
    ASSUME SettledAt(mem', task'), next_pid' = next_pid, current' \in DOMAIN task', task'[current'].phase # "exited",
           k' \in KType, k'.op \in {"none", "collect"}, k'.frame = 0, halted' = "no", OpOk'
    PROVE  MemoryInv'
<1>o. k'.op \notin CloneOps /\ k'.op # "boot" /\ k'.op \notin ExecOps /\ k'.op \notin PageOps
      /\ k'.op \notin {"reset", "load", "mmap"}
  BY OpFacts, Zenon
<1>1. NewDirs' = {} /\ NewTables' = {} /\ Shown' = {} /\ InHand' = HeldFrames'
  BY <1>o, OpFacts, Zenon DEF NewDirs, NewTables, Shown, InHand
<1>2. MemOk'
  <2>1. Good(mem', {}, {}, HeldFrames', {}) /\ DOMAIN mem'.transient = {}
    BY Zenon DEF SettledAt, HeldFrames
  <2> QED
    BY <1>1, <2>1, Zenon DEF MemOk
<1>3. TypesOk'
  BY <1>o, Zenon DEF SettledAt, TypesOk
<1>4. TasksOk'
  BY <1>1, Zenon DEF SettledAt, TasksOk
<1>5. CurrentOk'
  <2>1. current' # -1 /\ next_pid' >= 2
    BY DEF SettledAt
  <2> QED
    BY <1>o, <2>1, Zenon DEF SettledAt, CurrentOk
<1>6. PhasesOk'
  <2>1. \A p \in DOMAIN task' : OpOf(p)' \notin ExecOps
    BY <1>o, OpFacts, Zenon DEF OpOf
  <2>2. \A p \in DOMAIN task' : PhaseAt(mem', task'[p], "none")
    BY Zenon DEF SettledAt
  <2>3. \A p \in DOMAIN task' : PhaseAt(mem', task'[p], OpOf(p)')
    BY <2>1, <2>2, OpFacts, PhaseOtherOp, Zenon
  <2> QED
    BY <2>3, Zenon DEF PhasesOk
<1>7. BootOk'
  BY <1>o, Zenon DEF SettledAt, BootOk, BootAt
<1>8. RunningOk'
  BY <1>2, <1>3, <1>4, <1>5, <1>6, <1>7, Zenon DEF RunningOk
<1> QED
  BY <1>8, Zenon DEF MemoryInv

(* vmm_switch_pagedir. *)
LEMMA SettledCopy ==
    ASSUME NEW m, NEW tasks, SettledAt(m, tasks), NEW c \in DOMAIN m.dirs, NEW d \in DOMAIN m.dirs,
           NEW m2, m2 = vmm_copy_kernel_mappings(m, c, d)
    PROVE  SettledAt(m2, tasks)
<1> DEFINE H == {tasks[p].held : p \in DOMAIN tasks} \ {0}
           N == {}
<1>1. Good(m, N, {}, H, {}) /\ c \notin N
  BY Zenon DEF SettledAt
<1>r. H = {tasks[p].held : p \in DOMAIN tasks} \ {0} /\ Without(N, d) = {}
  BY Zenon DEF Without
<1> HIDE DEF H, N
<1>2. Good(m2, Without(N, d), {}, H, {}) /\ SameUserAll(m, m2)
  BY <1>1, CopyFacts, Zenon
<1>3. /\ DOMAIN m2.dirs = DOMAIN m.dirs /\ m2.transient = m.transient
      /\ \A e \in DOMAIN m.dirs : SameUser(m, m2, e)
  BY <1>2, Zenon DEF SameUserAll
<1>4. \A p \in DOMAIN tasks : tasks[p].dir \in DOMAIN m.dirs /\ PhaseAt(m, tasks[p], "none")
  BY Zenon DEF SettledAt, TasksAt
<1>5. \A p \in DOMAIN tasks : PhaseAt(m2, tasks[p], "none")
  BY <1>3, <1>4, PhaseSame, Zenon
<1>6. BootAt(m2, "none")
  <2>1. 0 \in DOMAIN m.dirs
    BY <1>1, Zenon DEF Good, TablesOk
  <2> QED
    BY <1>3, <2>1, BootSame, Zenon DEF SettledAt
<1>7. TasksAt(tasks, m2.dirs, {}, 0)
  BY <1>3, Zenon DEF SettledAt, TasksAt
<1> QED
  BY <1>2, <1>3, <1>5, <1>6, <1>7, <1>r, Zenon DEF SettledAt

LEMMA SwitchStep ==
    ASSUME RunningOk, switch
    PROVE  MemoryInv'
<1>1. k.op = "none" /\ halted' = "no" /\ k' = k /\ task' = task /\ next_pid' = next_pid
  BY Zenon DEF switch, Running
<1>2. PICK p \in Runnable \ {current} : SwitchTo(p)
  BY Zenon DEF switch
<1>3. SettledAt(mem, task) /\ k \in KType /\ k.frame = 0
  BY <1>1, OpFacts, Settled, PlainHand, NotBoot, Zenon
<1>4. p \in DOMAIN task /\ task[p].phase # "exited" /\ task[p].dir \in DOMAIN mem.dirs
  BY <1>3, Zenon DEF Runnable, SettledAt, TasksAt
<1>5. SettledAt(mem', task')
  BY <1>1, <1>2, <1>3, <1>4, MyDirFacts, SettledCopy, Zenon DEF SwitchTo
<1>6. OpOk'
  BY <1>1, OpFacts, Zenon DEF OpOk
<1> QED
  BY <1>1, <1>2, <1>3, <1>4, <1>5, <1>6, SettledInv, Zenon DEF SwitchTo

LEMMA ExitStep ==
    ASSUME RunningOk, exit
    PROVE  MemoryInv'
<1> DEFINE mine == [task[current] EXCEPT !.phase = "exited"]
<1>1. /\ k.op = "none" /\ halted' = "no" /\ k' = k /\ next_pid' = next_pid /\ task[current].phase = "user"
      /\ task' = [task EXCEPT ![current].phase = "exited"]
  BY Zenon DEF exit, Running, me
<1>2. PICK p \in Runnable \ {current} : SwitchTo(p)
  BY Zenon DEF exit
<1>3. SettledAt(mem, task) /\ k \in KType /\ k.frame = 0 /\ current \in DOMAIN task
  BY <1>1, OpFacts, Settled, PlainHand, NotBoot, Zenon
<1>4. p \in DOMAIN task /\ task[p].phase # "exited" /\ task[p].dir \in DOMAIN mem.dirs /\ p # current
  BY <1>2, <1>3, Zenon DEF Runnable, SettledAt, TasksAt
<1>m. /\ DOMAIN task' = DOMAIN task /\ task'[current] = mine
      /\ \A q \in DOMAIN task : q # current => task'[q] = task[q]
  BY <1>1, <1>3, Zenon
<1>t. task[current] \in TaskType /\ PhaseAt(mem, task[current], "none")
  BY <1>3, Zenon DEF SettledAt
<1>n. /\ mine \in TaskType /\ mine.phase = "exited" /\ mine.dir = task[current].dir
      /\ mine.held = task[current].held /\ mine.load = task[current].load
  BY <1>t, Zenon DEF TaskType
<1> HIDE DEF mine
<1>5. PhaseAt(mem, mine, "none")
  BY <1>1, <1>n, <1>t, OpFacts, Zenon DEF PhaseAt
<1>6. SettledAt(mem, task')
  <2>1. \A q \in DOMAIN task : task'[q].dir = task[q].dir /\ task'[q].held = task[q].held
    BY <1>m, <1>n, Zenon
  <2>2. {task'[q].held : q \in DOMAIN task'} = {task[q].held : q \in DOMAIN task}
    BY <1>m, <2>1, Zenon
  <2>3. TasksAt(task', mem.dirs, {}, 0)
    BY <1>3, <1>m, <2>1, Zenon DEF SettledAt, TasksAt
  <2>4. \A q \in DOMAIN task' : task'[q] \in TaskType /\ PhaseAt(mem, task'[q], "none")
    BY <1>3, <1>5, <1>m, <1>n, Zenon DEF SettledAt
  <2>5. KernelTask \in DOMAIN task' /\ task'[KernelTask].phase = "kernel"
    BY <1>1, <1>3, <1>m, Zenon DEF SettledAt
  <2> QED
    BY <1>3, <1>m, <2>2, <2>3, <2>4, <2>5, Zenon DEF SettledAt
<1>7. SettledAt(mem', task')
  BY <1>2, <1>4, <1>6, MyDirFacts, SettledCopy, Zenon DEF SwitchTo
<1>8. OpOk'
  BY <1>1, OpFacts, Zenon DEF OpOk
<1>9. p \in DOMAIN task' /\ task'[p].phase # "exited" /\ current' = p
  BY <1>2, <1>4, <1>m, Zenon DEF SwitchTo
<1> QED
  BY <1>1, <1>3, <1>7, <1>8, <1>9, SettledInv, Zenon

LEMMA CollectFacts ==
    ASSUME RunningOk, k.op = "collect"
    PROVE  /\ k.last \in DOMAIN task /\ task[k.last].phase = "exited" /\ k.dir = task[k.last].dir
           /\ k.dir \in DOMAIN mem.dirs /\ k.dir # 0 /\ k.dir # MyDir /\ k \in KType /\ k.frame = 0
           /\ k.last # current /\ current \in DOMAIN task /\ task[current].phase # "exited"
           /\ \A p \in DOMAIN task : p # k.last => task[p].dir # k.dir
           /\ \A i \in UserPdes : i < k.i => mem.dirs[k.dir][i] = 0
           /\ MyDir \in DOMAIN mem.dirs /\ MyDir = task[current].dir /\ SettledAt(mem, task)
<1>1. /\ k.last \in DOMAIN task /\ task[k.last].phase = "exited" /\ k.dir = task[k.last].dir
      /\ \A i \in UserPdes : i < k.i => mem.dirs[k.dir][i] = 0
  BY Zenon DEF RunningOk, OpOk, CollectOk, Exited, Runnable
<1>2. /\ current \in DOMAIN task /\ task[current].phase # "exited" /\ MyDir \in DOMAIN mem.dirs /\ k \in KType
      /\ MyDir = task[current].dir
  BY OpFacts, NotBoot, Zenon
<1>3. SettledAt(mem, task) /\ k.frame = 0
  BY OpFacts, Settled, PlainHand, Zenon
<1>4. /\ \A p \in DOMAIN task : task[p].dir \in DOMAIN mem.dirs /\ task[p].dir # 0
      /\ \A p, q \in DOMAIN task : task[p].dir = task[q].dir => p = q
  BY <1>3, Zenon DEF SettledAt, TasksAt
<1> QED
  BY <1>1, <1>2, <1>3, <1>4, Zenon

LEMMA CollectPdeStep ==
    ASSUME RunningOk, collect_pde
    PROVE  MemoryInv'
<1> DEFINE H == {task[p].held : p \in DOMAIN task} \ {0}
           N == {}
           page == kmalloc_page(mem)
<1>1. k.op = "collect" /\ halted = "no" /\ task' = task /\ current' = current /\ next_pid' = next_pid
  BY Zenon DEF collect_pde, Busy
<1>2. PICK i \in UserPdes :
        /\ NextPde(k.dir, UserPdes, i)
        /\ Do(DestroyPde(vmm_transient_map(mem, MyDir, mem.dirs[k.dir][i]), page, i), [k EXCEPT !.i = i + 1])
  BY Zenon DEF collect_pde, DestroyPdes
<1>3. /\ mem.dirs[k.dir][i] # 0 /\ k.i <= i
      /\ \A j \in UserPdes : k.i <= j /\ j < i => mem.dirs[k.dir][j] = 0
  BY <1>2, Zenon DEF NextPde
<1> DEFINE t == mem.dirs[k.dir][i]
           r0 == vmm_transient_map(mem, MyDir, t)
           m2 == vmm_transient_unmap(r0.mem, MyDir, page)
           r1 == free_pde(m2, k.dir, i)
<1>4. /\ r0.err # "no" => mem' = r0.mem /\ halted' = r0.err
      /\ r0.err = "no" => /\ mem' = r1.mem /\ halted' = r1.err
                          /\ r1.err = "no" => k' = [k EXCEPT !.i = i + 1]
  BY <1>2, Zenon DEF Do, DestroyPde
<1>c. /\ k.last \in DOMAIN task /\ task[k.last].phase = "exited" /\ k.dir = task[k.last].dir
      /\ k.dir \in DOMAIN mem.dirs /\ k.dir # 0 /\ k.dir # MyDir /\ k \in KType /\ k.frame = 0
      /\ k.last # current /\ current \in DOMAIN task /\ task[current].phase # "exited"
      /\ \A p \in DOMAIN task : p # k.last => task[p].dir # k.dir
      /\ \A j \in UserPdes : j < k.i => mem.dirs[k.dir][j] = 0
      /\ MyDir \in DOMAIN mem.dirs /\ SettledAt(mem, task)
  BY <1>1, CollectFacts, Zenon
<1>g. Good(mem, N, N, H, {}) /\ DOMAIN mem.transient = {} /\ MyDir \notin N
  BY <1>c, Zenon DEF SettledAt
<1>t. t \in Nat
  BY <1>c, <1>g, Zenon DEF Good, TablesOk
<1>d. MyDir \in DOMAIN mem.dirs /\ k.dir \in DOMAIN mem.dirs
  BY <1>c, Zenon
<1>p. page = kmalloc_page(mem) /\ r0 = vmm_transient_map(mem, MyDir, t)
  BY Zenon
<1>u. m2 = vmm_transient_unmap(r0.mem, MyDir, page)
  BY Zenon
<1>r. r1 = free_pde(m2, k.dir, i)
  BY Zenon
<1>n. N = {} /\ H = {task[p].held : p \in DOMAIN task} \ {0} /\ t = mem.dirs[k.dir][i]
  BY Zenon
<1> HIDE DEF H, N, page, t, r0, m2, r1
<1>5. \/ r0.err = "no" /\ ShowsAt(mem, r0.mem, page, N, N, H)
      \/ r0.mem = mem /\ HaltCause(r0.err, mem)
  BY <1>d, <1>g, <1>t, <1>p, TransientMapFacts
<1>6. CASE r0.mem = mem /\ HaltCause(r0.err, mem)
  <2>1. r0.err # "no"
    BY <1>6, Zenon DEF HaltCause
  <2> QED
    BY <1>1, <1>4, <1>6, <2>1, HaltStep, SameUserSelf, Zenon
<1>7. CASE r0.err = "no" /\ ShowsAt(mem, r0.mem, page, N, N, H)
  <2>1. /\ Good(r0.mem, N, N, H, {}) /\ SameUserHalf(mem, r0.mem) /\ page \in DOMAIN r0.mem.transient
        /\ DOMAIN r0.mem.transient = {page} /\ r0.mem.dirs = mem.dirs
    BY <1>7, <1>g, Zenon DEF ShowsAt, SameUserHalf
  <2>2. /\ Good(m2, N, N, H, {}) /\ SameUserHalf(r0.mem, m2) /\ DOMAIN m2.transient = {page} \ {page}
    <3>1. MyDir \in DOMAIN r0.mem.dirs
      BY <1>d, <2>1, Zenon
    <3> QED
      BY <1>g, <1>u, <2>1, <3>1, TransientUnmapFacts
  <2>3. m2.dirs = mem.dirs /\ DOMAIN m2.transient = {}
    BY <2>1, <2>2, Zenon DEF SameUserHalf
  <2>4. \A c \in DOMAIN mem.dirs : SameUser(mem, m2, c)
    <3>1. \A c \in DOMAIN mem.dirs : SameUser(mem, r0.mem, c)
      BY <1>g, <2>1, SameHalfSameUser, Zenon
    <3>2. \A c \in DOMAIN mem.dirs : SameUser(r0.mem, m2, c)
      BY <2>1, <2>2, SameHalfSameUser, Zenon
    <3> QED
      BY <3>1, <3>2, SameUserTwice, Zenon
  <2>5. r1.err = "no" /\ Good(r1.mem, N, N, H, {}) /\ EmptiesAt(m2, r1.mem, k.dir, i)
    <3>1. k.dir \in DOMAIN m2.dirs /\ m2.dirs[k.dir][i] # 0
      BY <1>d, <1>3, <2>3, Zenon
    <3> QED
      BY <1>r, <2>2, <3>1, FreePdeFacts, Zenon
  <2>6. mem' = r1.mem /\ halted' = "no" /\ k' = [k EXCEPT !.i = i + 1]
    BY <1>4, <1>7, <2>5, Zenon
  <2>7. /\ DOMAIN mem'.dirs = DOMAIN mem.dirs /\ DOMAIN mem'.transient = {} /\ mem'.dirs[k.dir][i] = 0
        /\ \A j \in UserPdes : j # i => mem'.dirs[k.dir][j] = mem.dirs[k.dir][j]
        /\ \A c \in DOMAIN mem.dirs : c # k.dir => SameUser(m2, mem', c)
    BY <2>3, <2>5, <2>6, Zenon DEF EmptiesAt
  <2>8. \A c \in DOMAIN mem.dirs : c # k.dir => SameUser(mem, mem', c)
    BY <2>4, <2>7, SameUserTwice, Zenon
  <2>9. SettledAt(mem', task)
    <3>1. \A p \in DOMAIN task : task[p].dir \in DOMAIN mem.dirs /\ PhaseAt(mem, task[p], "none")
      BY <1>c, Zenon DEF SettledAt, TasksAt
    <3>2. \A p \in DOMAIN task : p # k.last => SameUser(mem, mem', task[p].dir)
      BY <1>c, <2>8, <3>1, Zenon
    <3>3. \A p \in DOMAIN task : p # k.last => PhaseAt(mem', task[p], "none")
      BY <3>1, <3>2, PhaseSame, Zenon
    <3>4. PhaseAt(mem', task[k.last], "none")
      BY <1>c, <3>1, PhaseExited, Zenon
    <3>5. BootAt(mem', "none")
      <4>1. 0 \in DOMAIN mem.dirs
        BY <1>g, Zenon DEF Good, TablesOk
      <4>2. SameUser(mem, mem', 0) /\ BootAt(mem, "none")
        BY <1>c, <2>8, <4>1, Zenon DEF SettledAt
      <4> QED
        BY <4>2, BootSame, Zenon
    <3>6. TasksAt(task, mem'.dirs, {}, 0)
      BY <1>c, <2>7, Zenon DEF SettledAt, TasksAt
    <3>7. \A p \in DOMAIN task : PhaseAt(mem', task[p], "none")
      BY <3>3, <3>4, Zenon
    <3> QED
      BY <1>c, <1>n, <2>5, <2>6, <2>7, <3>5, <3>6, <3>7, Zenon DEF SettledAt
  <2>10. /\ k' \in KType /\ k'.op = "collect" /\ k'.frame = 0 /\ k'.last = k.last /\ k'.dir = k.dir /\ k'.i = i + 1
    <3>1. i + 1 \in Nat /\ k \in KType /\ k.op = "collect" /\ k.frame = 0
      BY <1>1, <1>c, VmmAssumption DEF UserPdes
    <3> QED
      BY <2>6, <3>1, Zenon DEF KType
  <2>11. OpOk'
    <3>1. \A j \in UserPdes : j < i + 1 => mem'.dirs[k.dir][j] = 0
      <4> SUFFICES ASSUME NEW j \in UserPdes, j < i + 1
                   PROVE  mem'.dirs[k.dir][j] = 0
        BY Zenon
      <4>1. i \in Nat /\ j \in Nat /\ k.i \in Nat
        BY <1>c, VmmAssumption DEF UserPdes, KType
      <4>2. j = i \/ (j # i /\ j < k.i) \/ (j # i /\ k.i <= j /\ j < i)
        BY <4>1
      <4> QED
        BY <1>3, <1>c, <2>7, <4>2, Zenon
    <3>2. (k.last \in Exited)'
      BY <1>1, <1>c, <2>10, Zenon DEF Exited, Runnable
    <3>3. CollectOk'
      BY <1>1, <1>c, <2>10, <3>1, <3>2, Zenon DEF CollectOk
    <3> QED
      BY <2>10, <3>3, OpFacts, Zenon DEF OpOk
  <2> QED
    BY <1>1, <1>c, <2>6, <2>9, <2>10, <2>11, SettledInv, Zenon
<1> QED
  BY <1>5, <1>6, <1>7, Zenon

(* A task is gone, and its directory with it. *)
LEMMA SettledDrop ==
    ASSUME RunningOk, k.op = "collect", \A i \in UserPdes : i >= k.i => mem.dirs[k.dir][i] = 0,
           NEW m, m = DropDir(mem, k.dir), NEW tasks, tasks = Restrict(task, DOMAIN task \ {k.last})
    PROVE  /\ SettledAt(m, tasks) /\ DOMAIN tasks = DOMAIN task \ {k.last}
           /\ \A p \in DOMAIN tasks : tasks[p] = task[p]
           /\ MyDir \in DOMAIN m.dirs
<1> DEFINE H == {task[p].held : p \in DOMAIN task} \ {0}
           N == {}
<1>c. /\ k.last \in DOMAIN task /\ task[k.last].phase = "exited" /\ k.dir = task[k.last].dir
      /\ k.dir \in DOMAIN mem.dirs /\ k.dir # 0 /\ k.dir # MyDir /\ k \in KType /\ MyDir \in DOMAIN mem.dirs
      /\ \A p \in DOMAIN task : p # k.last => task[p].dir # k.dir
      /\ \A i \in UserPdes : i < k.i => mem.dirs[k.dir][i] = 0
      /\ SettledAt(mem, task)
  BY CollectFacts, Zenon
<1>d. k.dir \in DOMAIN mem.dirs /\ k.dir # 0 /\ \A i \in UserPdes : mem.dirs[k.dir][i] = 0
  <2>1. \A i \in UserPdes : i \in Nat /\ k.i \in Nat
    BY <1>c, VmmAssumption DEF UserPdes, KType
  <2>2. \A i \in UserPdes : i < k.i \/ i >= k.i
    BY <2>1
  <2> QED
    BY <1>c, <2>2, Zenon
<1>g. Good(mem, N, N, H, {}) /\ DOMAIN mem.transient = {}
  BY <1>c, Zenon DEF SettledAt
<1>1. DOMAIN tasks = DOMAIN task \ {k.last} /\ \A p \in DOMAIN tasks : tasks[p] = task[p]
  BY Zenon DEF Restrict
<1>h. {tasks[p].held : p \in DOMAIN tasks} \ {0} = H
  <2>1. PhaseAt(mem, task[k.last], "none")
    BY <1>c, Zenon DEF SettledAt
  <2>2. task[k.last].held = 0
    BY <1>c, <2>1, Zenon DEF PhaseAt
  <2> QED
    BY <1>1, <2>2, Zenon
<1>n. N = {}
  BY Zenon
<1> HIDE DEF H, N
<1>2. Good(m, N, N, H, {}) /\ GoneDir(mem, m, k.dir)
  BY <1>d, <1>g, DropDirFacts, Zenon
<1>3. /\ DOMAIN m.dirs = Without(DOMAIN mem.dirs, k.dir) /\ m.transient = mem.transient
      /\ \A c \in DOMAIN mem.dirs : c # k.dir => SameUser(mem, m, c)
  BY <1>2, Zenon DEF GoneDir
<1>4. \A p \in DOMAIN tasks : /\ p \in DOMAIN task /\ p # k.last /\ task[p].dir # k.dir
                              /\ task[p].dir \in DOMAIN mem.dirs /\ PhaseAt(mem, task[p], "none")
                              /\ task[p] \in TaskType
  BY <1>1, <1>c, Zenon DEF SettledAt, TasksAt
<1>5. \A p \in DOMAIN tasks : PhaseAt(m, task[p], "none")
  BY <1>3, <1>4, PhaseSame, Zenon
<1>6. BootAt(m, "none")
  <2>1. 0 \in DOMAIN mem.dirs
    BY <1>g, Zenon DEF Good, TablesOk
  <2>2. SameUser(mem, m, 0) /\ BootAt(mem, "none")
    BY <1>c, <1>3, <2>1, Zenon DEF SettledAt
  <2> QED
    BY <2>2, BootSame, Zenon
<1>7. TasksAt(tasks, m.dirs, {}, 0)
  <2>1. TasksAt(task, mem.dirs, {}, 0)
    BY <1>c, Zenon DEF SettledAt
  <2>2. \A p \in DOMAIN tasks : tasks[p].dir \in DOMAIN m.dirs /\ tasks[p].dir # 0 /\ tasks[p].dir \notin {}
    BY <1>1, <1>3, <1>4, <2>1, Zenon DEF TasksAt, Without
  <2>3. \A p, q \in DOMAIN tasks : tasks[p].dir = tasks[q].dir => p = q
    BY <1>1, <2>1, Zenon DEF TasksAt
  <2>4. \A p, q \in DOMAIN tasks : tasks[p].held = tasks[q].held /\ tasks[p].held # 0 => p = q
    BY <1>1, <2>1, Zenon DEF TasksAt
  <2>5. \A p \in DOMAIN tasks : tasks[p].held # 0 => tasks[p].held # 0
    BY Zenon
  <2> QED
    BY <2>2, <2>3, <2>4, <2>5, Zenon DEF TasksAt
<1>8. KernelTask \in DOMAIN tasks /\ tasks[KernelTask].phase = "kernel"
  <2>1. KernelTask \in DOMAIN task /\ task[KernelTask].phase = "kernel"
    BY <1>c, Zenon DEF SettledAt
  <2> QED
    BY <1>1, <1>c, <2>1, Zenon
<1>9. next_pid \in Nat /\ next_pid >= 2 /\ DOMAIN tasks \subseteq 0 .. next_pid - 1
  BY <1>1, <1>c, Zenon DEF SettledAt
<1>10. SettledAt(m, tasks)
  <2>1. \A p \in DOMAIN tasks : tasks[p] \in TaskType /\ PhaseAt(m, tasks[p], "none")
    BY <1>1, <1>4, <1>5, Zenon
  <2>2. Good(m, {}, {}, {tasks[p].held : p \in DOMAIN tasks} \ {0}, {}) /\ DOMAIN m.transient = {}
    BY <1>2, <1>3, <1>g, <1>h, <1>n, Zenon
  <2> QED
    BY <1>6, <1>7, <1>8, <1>9, <2>1, <2>2, Zenon DEF SettledAt
<1>11. MyDir \in DOMAIN m.dirs
  BY <1>3, <1>c, Zenon DEF Without
<1> QED
  BY <1>1, <1>10, <1>11, Zenon

LEMMA CollectDoneStep ==
    ASSUME RunningOk, collect_done
    PROVE  MemoryInv'
<1> DEFINE left == Exited \ {k.last}
           m == DropDir(mem, k.dir)
           next == [Idle EXCEPT !.op = "collect", !.last = LeastOf(left), !.dir = task[LeastOf(left)].dir]
<1>1. /\ k.op = "collect" /\ halted' = "no" /\ next_pid' = next_pid
      /\ \A i \in UserPdes : i >= k.i => mem.dirs[k.dir][i] = 0
      /\ task' = Restrict(task, DOMAIN task \ {k.last})
      /\ left # {} => k' = next /\ mem' = m /\ current' = current
      /\ left = {} => k' = Idle /\ \E p \in Runnable : /\ current' = p
                                                      /\ mem' = vmm_copy_kernel_mappings(m, MyDir, task[p].dir)
  BY Zenon DEF collect_done, Busy, DestroyPdes, DropDir
<1>2. /\ SettledAt(m, task') /\ DOMAIN task' = DOMAIN task \ {k.last}
      /\ \A p \in DOMAIN task' : task'[p] = task[p]
      /\ MyDir \in DOMAIN m.dirs
  BY <1>1, SettledDrop, Zenon
<1>3. /\ k.last \in DOMAIN task /\ task[k.last].phase = "exited"
      /\ k.last # current /\ current \in DOMAIN task /\ task[current].phase # "exited"
  BY <1>1, CollectFacts, Zenon
<1>l. left = Exited \ {k.last} /\ next = [Idle EXCEPT !.op = "collect", !.last = LeastOf(left), !.dir = task[LeastOf(left)].dir]
  BY Zenon
<1> HIDE DEF left, m, next
<1>4. CASE left # {}
  <2>1. k' = next /\ mem' = m /\ current' = current
    BY <1>1, <1>4, Zenon
  <2>2. /\ LeastOf(left) \in left /\ LeastOf(left) \in Nat /\ task[LeastOf(left)].dir \in Nat
        /\ LeastOf(left) \in DOMAIN task
    <3>1. left \subseteq Exited
      BY <1>l, Zenon
    <3> QED
      BY <1>4, <3>1, ExitedFacts, Zenon
  <2>3. /\ k' \in KType /\ k'.op = "collect" /\ k'.frame = 0 /\ k'.i = 0
        /\ k'.last = LeastOf(left) /\ k'.dir = task[LeastOf(left)].dir
    BY <1>l, <2>1, <2>2, Zenon DEF Idle, KType, Ops
  <2>4. OpOk'
    <3>1. LeastOf(left) \in DOMAIN task' /\ task'[LeastOf(left)] = task[LeastOf(left)] /\ task[LeastOf(left)].phase = "exited"
      BY <1>2, <1>l, <2>2, Zenon DEF Exited, Runnable
    <3>2. (k.last \in Exited)'
      BY <2>3, <3>1, Zenon DEF Exited, Runnable
    <3>3. \A i \in UserPdes : ~(i < 0)
      BY VmmAssumption DEF UserPdes
    <3>4. CollectOk'
      BY <2>3, <3>1, <3>2, <3>3, Zenon DEF CollectOk
    <3> QED
      BY <2>3, <3>4, OpFacts, Zenon DEF OpOk
  <2>5. current' \in DOMAIN task' /\ task'[current'].phase # "exited"
    BY <1>2, <1>3, <2>1, Zenon
  <2> QED
    BY <1>1, <1>2, <2>1, <2>3, <2>4, <2>5, SettledInv, Zenon
<1>5. CASE left = {}
  <2>1. PICK p \in Runnable : current' = p /\ mem' = vmm_copy_kernel_mappings(m, MyDir, task[p].dir)
    BY <1>1, <1>5, Zenon
  <2>2. p \in DOMAIN task' /\ task'[p] = task[p] /\ task'[p].phase # "exited"
    BY <1>2, <1>3, Zenon DEF Runnable
  <2>3. task[p].dir \in DOMAIN m.dirs
    BY <1>2, <2>2, Zenon DEF SettledAt, TasksAt
  <2>4. SettledAt(mem', task')
    BY <1>2, <2>1, <2>3, SettledCopy, Zenon
  <2>5. k' \in KType /\ k'.op = "none" /\ k'.frame = 0
    BY <1>1, <1>5 DEF Idle, KType, Ops
  <2>6. OpOk'
    BY <2>5, OpFacts, Zenon DEF OpOk
  <2> QED
    BY <1>1, <2>1, <2>2, <2>4, <2>5, <2>6, SettledInv, Zenon
<1> QED
  BY <1>4, <1>5, Zenon

-----------------------------------------------------------------------------
(* The invariant holds. *)

(* The state that the boot starts from. *)
LEMMA InitFacts == Init => MemoryInv
<1> SUFFICES ASSUME Init
             PROVE  MemoryInv
  BY Zenon
<1>1. PICK map \in MemoryMaps : mem = vmm_init(map)
  BY Zenon DEF Init
<1>2. task = << >> /\ DOMAIN task = {} /\ current = -1 /\ next_pid = 0 /\ halted = "no"
  BY DEF Init
<1>3. k \in KType /\ k.op = "boot" /\ k.frame = 0
  BY Zenon DEF Init, Idle, KType, Ops
<1>4. /\ Good(mem, {}, {}, {}, {}) /\ DOMAIN mem.transient = {}
      /\ \A i \in UserPdes : mem.dirs[0][i] = 0
  BY <1>1, BootAssumption, VmmInitFacts, Zenon
<1>5. NewDirs = {} /\ NewTables = {} /\ Shown = {} /\ InHand = {}
  BY <1>2, <1>3, Zenon DEF NewDirs, NewTables, Shown, InHand, HeldFrames, CloneOps, TableOps, PageOps
<1>6. MemOk
  BY <1>4, <1>5, Zenon DEF MemOk
<1>7. TypesOk
  BY <1>2, <1>3, Zenon DEF TypesOk, PageOps
<1>8. TasksOk /\ PhasesOk
  BY <1>2, Zenon DEF TasksOk, TasksAt, PhasesOk
<1>9. CurrentOk
  BY <1>2, <1>3 DEF CurrentOk
<1>10. BootOk
  <2>1. EmptyBelow(mem, 0) /\ mem.dirs[0][USER_PDE_END] = 0
    BY <1>4, LayoutFacts, Zenon DEF EmptyBelow
  <2>2. NoUserStack(mem, 0)
    BY <1>4, LayoutFacts, Zenon DEF NoUserStack, Present, va_info_ex, NoEntry
  <2> QED
    BY <1>3, <2>1, <2>2, Zenon DEF BootOk, BootAt
<1>11. OpOk
  BY <1>3, Zenon DEF OpOk, CloneOps, TableOps
<1> QED
  BY <1>2, <1>6, <1>7, <1>8, <1>9, <1>10, <1>11, Zenon DEF MemoryInv, RunningOk

(* Every action is one of a machine that runs. *)
LEMMA NextRuns == Next => halted = "no"
BY Zenon DEF Next, scheduler_start, clone_table, clone_page, clone_dst, clone_copy, clone_table_done, clone_done,
       fork, load_alloc, load_map, jump_to_usermode_alloc, jump_to_usermode_map, exec, reset_pde, reset_done,
       mmap, mmap_page, exit, switch, collect, collect_pde, collect_done, Running, Busy, CanLoad

LEMMA NextInv == MemoryInv /\ [Next]_vars => MemoryInv'
<1> SUFFICES ASSUME MemoryInv, [Next]_vars
             PROVE  MemoryInv'
  BY Zenon
<1>1. CASE Next
  <2>1. RunningOk
    BY <1>1, NextRuns, Zenon DEF MemoryInv
  <2>2. CASE scheduler_start \/ clone_table \/ clone_page \/ clone_dst \/ clone_copy \/ clone_table_done \/ clone_done \/ fork
    BY <2>1, <2>2, SchedulerStartStep, CloneTableStep, ClonePageStep, CloneDstStep, CloneCopyStep,
       CloneTableDoneStep, CloneDoneStep, ForkStep, Zenon
  <2>3. CASE load_alloc \/ load_map \/ jump_to_usermode_alloc \/ jump_to_usermode_map \/ exec \/ reset_pde \/ reset_done
    BY <2>1, <2>3, LoadAllocStep, LoadMapStep, JumpAllocStep, JumpMapStep, ExecStep, ResetPdeStep, ResetDoneStep, Zenon
  <2>4. CASE mmap \/ mmap_page \/ exit \/ switch \/ collect \/ collect_pde \/ collect_done
    BY <2>1, <2>4, MmapStep, MmapPageStep, ExitStep, SwitchStep, CollectStep, CollectPdeStep, CollectDoneStep
  <2> QED
    BY <1>1, <2>2, <2>3, <2>4, Zenon DEF Next
<1>2. CASE UNCHANGED vars
  <2> SUFFICES ASSUME mem' = mem, task' = task, current' = current, next_pid' = next_pid, k' = k, halted' = halted
               PROVE  MemoryInv'
    BY <1>2, Zenon DEF vars
  <2> QED
    BY DEF MemoryInv, RunningOk, MemOk, TypesOk, TasksOk, CurrentOk, PhasesOk, BootOk, OpOk, HaltsOnlyOutOfMemory,
       KernelStackMapped, NewDirs, NewTables, InHand, HeldFrames, Shown, MyDir, OpOf, CollectOk, Exited, Runnable
<1> QED
  BY <1>1, <1>2, Zenon

(* The inductive invariant holds in every reachable state, for any memory  *)
(* map, programs, number of tasks and size of the kernel heap: boot, fork, *)
(* exec, mmap, exit, collection and task switches of kernel/ preserve it.  *)
THEOREM MemoryInvAlways == Spec => []MemoryInv
<1> QED
  BY InitFacts, NextInv, PTL DEF Spec

(* The aborts of vmm_map and of pmm_free are unreachable, and the machine  *)
(* stops for lack of memory only: halts of kernel/vmm.c and kernel/pmm.c.  *)
THEOREM HaltsAlways == Spec => []HaltsOnlyOutOfMemory
<1>1. MemoryInv => HaltsOnlyOutOfMemory
  BY Zenon DEF MemoryInv, HaltsOnlyOutOfMemory
<1> QED
  BY <1>1, MemoryInvAlways, PTL

(* The running task has a kernel stack at every step of the kernel's work  *)
(* for it, whatever memory there is and whatever programs are run.         *)
THEOREM KernelStackAlways == Spec => []KernelStackMapped
<1>1. ASSUME RunningOk, current # -1
      PROVE  {"P", "W"} \subseteq vmm_get_flags(mem, MyDir, KERNEL_STACK)
  <2>1. current \in DOMAIN task /\ task[current].phase # "exited"
    BY <1>1, Zenon DEF RunningOk, CurrentOk
  <2>2. PhaseAt(mem, task[current], OpOf(current))
    BY <1>1, <2>1, Zenon DEF RunningOk, PhasesOk
  <2> QED
    BY <2>1, <2>2, Zenon DEF PhaseAt, Stacked, MyDir
<1>2. MemoryInv => KernelStackMapped
  BY <1>1, Zenon DEF MemoryInv, KernelStackMapped
<1> QED
  BY <1>2, MemoryInvAlways, PTL

(* Between system calls the kernel half is the same everywhere, and every  *)
(* page of the heap shows its own frame.                                   *)
THEOREM KernelHalfAlways == Spec => []KernelHalfShared
<1>1. ASSUME RunningOk, k.op = "none"
      PROVE  /\ \A c, d \in DOMAIN mem.dirs : \A i \in KernelPdes : mem.dirs[c][i] = mem.dirs[d][i]
             /\ DOMAIN mem.transient = {}
             /\ mem.heap.used = DOMAIN mem.dirs \cup {1}
             /\ \A i \in 1 .. mem.heap.size :
                  vmm_get_physical(mem, MyDir, HeapStart + i - 1) = mem.heap.frame[i]
  <2>1. NewDirs = {} /\ NewTables = {} /\ Shown = {}
    BY <1>1, OpFacts, Zenon DEF NewDirs, NewTables, Shown, TableOps, PageOps
  <2>2. /\ Good(mem, {}, {}, InHand, {}) /\ DOMAIN mem.transient = {}
    BY <1>1, <2>1, Zenon DEF RunningOk, MemOk
  <2>3. /\ TablesOk(mem.dirs, mem.tables) /\ DirsOk(mem.dirs, mem.tables, {}, {})
        /\ HeapOk(mem.dirs, mem.tables, mem.heap, mem.transient, {})
    BY <2>2, Zenon DEF Good
  <2>4. \A c, d \in DOMAIN mem.dirs : \A i \in KernelPdes : mem.dirs[c][i] = mem.dirs[d][i]
    BY <2>3 DEF DirsOk
  <2>5. mem.heap.used = DOMAIN mem.dirs \cup {1}
    BY <2>2, <2>3, Zenon DEF HeapOk
  <2>6. MyDir \in DOMAIN mem.dirs
    BY <1>1, MyDirFacts, Zenon
  <2>7. ASSUME NEW i \in 1 .. mem.heap.size
        PROVE  vmm_get_physical(mem, MyDir, HeapStart + i - 1) = mem.heap.frame[i]
    <3> DEFINE j == i - 1
    <3>1. mem.heap.size \in 2 .. HeapMax /\ HeapMax \in Nat /\ HeapStart \in Nat
      BY <2>3, VmmAssumption, Zenon DEF HeapOk, HeapType
    <3>2. j \in 0 .. mem.heap.size - 1 /\ j \in 0 .. HeapMax - 1 /\ j + 1 = i /\ HeapStart + i - 1 = HeapStart + j
      BY <3>1
    <3> HIDE DEF j
    <3>3. /\ "P" \in mem.tables[KernelTable][Idx(HeapStart + j)].flags
          /\ mem.heap.frame[j + 1] = mem.tables[KernelTable][Idx(HeapStart + j)].frame
      BY <2>2, <2>3, <3>2, Zenon DEF HeapOk
    <3>4. mem.dirs[MyDir][Dir(HeapStart + j)] = KernelTable
      BY <2>3, <2>6, <3>2, HeapEntryFacts
    <3>5. va_info_ex(mem, MyDir, HeapStart + j) = mem.tables[KernelTable][Idx(HeapStart + j)]
      BY <3>4, KernelTableFacts, Zenon DEF va_info_ex
    <3> QED
      BY <3>2, <3>3, <3>5, Zenon DEF vmm_get_physical, Present
  <2> QED
    BY <2>2, <2>4, <2>5, <2>7, Zenon
<1>2. MemoryInv => KernelHalfShared
  BY <1>1, Zenon DEF MemoryInv, KernelHalfShared
<1> QED
  BY <1>2, MemoryInvAlways, PTL

(* The tables in use are those that exist. *)
LEMMA LiveTablesFacts ==
    ASSUME RunningOk
    PROVE  LiveTables = DOMAIN mem.tables /\ UserTables = UserTabs(mem.tables)
<1>1. /\ TablesOk(mem.dirs, mem.tables) /\ DirsOk(mem.dirs, mem.tables, NewDirs, NewTables)
  BY Zenon DEF RunningOk, MemOk, Good
<1>2. 0 \in DOMAIN mem.dirs /\ 0 \notin NewDirs
  BY <1>1, Zenon DEF TablesOk, NewDirs, RunningOk, OpOk, CloneAt
<1>3. \A d \in DOMAIN mem.dirs : \A i \in KernelPdes : mem.dirs[d][i] \in {0, KernelTable}
  BY <1>1, Zenon DEF DirsOk, KernelEntry
<1>4. mem.dirs[0][USER_PDE_END + 1] = KernelTable /\ USER_PDE_END + 1 \in KernelPdes /\ KernelTable # 0
  BY <1>1, <1>2, KernelTableFacts, Zenon DEF DirsOk
<1>5. KernelTables = {KernelTable}
  BY <1>2, <1>3, <1>4 DEF KernelTables
<1>6. NewTables = IF k.op \in {"clone_pte", "clone_dst", "clone_copy"} THEN {k.last} ELSE {}
  BY Zenon DEF NewTables, TableOps
<1> DEFINE T == {mem.dirs[d][i] : d \in DOMAIN mem.dirs, i \in UserPdes \cup KernelPdes}
<1>7. LiveTables = (T \cup NewTables) \ {0}
  BY <1>6 DEF LiveTables
<1>8. \A t \in T : t = 0 \/ t = KernelTable \/ t \in UserTabs(mem.tables)
  BY <1>1, <1>3 DEF DirsOk
<1>9. KernelTable \in T /\ \A t \in UserTabs(mem.tables) : t \in NewTables \/ t \in T
  <2>1. KernelTable \in T
    BY <1>2, <1>4
  <2>2. ASSUME NEW t \in UserTabs(mem.tables), t \notin NewTables
        PROVE  t \in T
    <3>1. PICK d \in DOMAIN mem.dirs, i \in UserPdes : mem.dirs[d][i] = t
      BY <1>1, <2>2, Zenon DEF DirsOk
    <3> QED
      BY <3>1
  <2> QED
    BY <2>1, <2>2
<1> HIDE DEF T
<1>10. NewTables \subseteq UserTabs(mem.tables) /\ 0 \notin DOMAIN mem.tables /\ KernelTable \in DOMAIN mem.tables
  BY <1>1, Zenon DEF DirsOk, TablesOk
<1>11. LiveTables = DOMAIN mem.tables
  BY <1>4, <1>7, <1>8, <1>9, <1>10, Zenon DEF UserTabs
<1> QED
  BY <1>5, <1>11, Zenon DEF UserTables, UserTabs

(* No frame is used twice, and no frame in use is free in pmm.c: for every *)
(* memory map, every program and every number of tasks.                    *)
THEOREM OneUseAlways == Spec => []OneUsePerFrame
<1>1. ASSUME RunningOk
      PROVE  OneUsePerFrame
  <2> DEFINE heap == Range(mem.heap.frame)
  <2>1. UserTables = UserTabs(mem.tables) /\ LiveTables = DOMAIN mem.tables
    BY <1>1, LiveTablesFacts, Zenon
  <2>2. /\ RegionsOk(mem.regions) /\ TablesOk(mem.dirs, mem.tables)
        /\ DirsOk(mem.dirs, mem.tables, NewDirs, NewTables)
        /\ FramesOk(mem.regions, mem.tables, heap, InHand)
    BY <1>1, Zenon DEF RunningOk, MemOk, Good
  <2> HIDE DEF heap
  <2>3. KernelTable \in KernelFrames /\ 0 \in KernelFrames /\ HeldFrames \subseteq InHand
    BY KernelTableFacts, Zenon DEF InHand
  <2>4. \A x \in Mappings : /\ x[1] \in UserTabs(mem.tables) /\ x[2] \in Ptes /\ x = <<x[1], x[2]>>
                            /\ "P" \in mem.tables[x[1]][x[2]].flags
    BY <2>1 DEF Mappings, PresentPtes
  <2>5. \A x, y \in Mappings : FrameAt(x) = FrameAt(y) => x = y
    BY <2>2, <2>4 DEF FrameAt, FramesOk
  <2>6. \A f \in MappedFrames : /\ f \in Taken(mem.regions)
                                /\ f \notin UserTabs(mem.tables) \cup heap \cup KernelFrames \cup InHand
    BY <2>2, <2>4 DEF MappedFrames, FrameAt, FramesOk
  <2>7. MappedFrames \cap (DOMAIN mem.tables \cup heap \cup KernelFrames) = {}
    BY <2>3, <2>6, Zenon DEF UserTabs
  <2>8. HeldFrames \cap (MappedFrames \cup DOMAIN mem.tables \cup heap) = {}
    BY <2>2, <2>3, <2>6, Zenon DEF FramesOk, UserTabs
  <2>9. UserTables \cap (heap \cup KernelFrames) = {}
    BY <2>1, <2>2, Zenon DEF FramesOk
  <2>10. \A p, q \in DOMAIN task : task[p].held = task[q].held /\ task[p].held # 0 => p = q
    BY <1>1, Zenon DEF RunningOk, TasksOk, TasksAt
  <2>11. \A c, d \in DOMAIN mem.dirs, i, j \in UserPdes :
            mem.dirs[c][i] = mem.dirs[d][j] /\ mem.dirs[c][i] # 0 => c = d /\ i = j
    BY <2>2, Zenon DEF DirsOk
  <2>12. ASSUME NEW f \in Owned \cap Frames
         PROVE  pmm_reserved(mem.regions, f)
    <3>1. f \in Managed(mem.regions) /\ f \in KernelFrames \cup {k.frame} \cup heap \cup LiveTables \cup MappedFrames \cup HeldFrames
      BY Zenon DEF Owned, Frames, Managed, heap
    <3>2. f \in KernelFrames \cup heap \/ f \in UserTabs(mem.tables) \cup InHand \/ f \in MappedFrames
      BY <2>1, <2>3, <3>1, Zenon DEF InHand, UserTabs
    <3>3. f \in Taken(mem.regions)
      BY <2>2, <2>6, <3>1, <3>2, Zenon DEF FramesOk
    <3> QED
      BY <2>2, <3>1, <3>3, ReservedFacts, Zenon
  <2> QED
    BY <2>5, <2>7, <2>8, <2>9, <2>10, <2>11, <2>12, Zenon DEF OneUsePerFrame, heap
<1>2. MemoryInv => OneUsePerFrame
  BY <1>1, Zenon DEF MemoryInv, OneUsePerFrame
<1> QED
  BY <1>2, MemoryInvAlways, PTL

-----------------------------------------------------------------------------
(* What a step may not do. *)

(* The action that goes on with a clone, with an exec's load or with an    *)
(* mmap.                                                                   *)
LEMMA NextOp ==
    ASSUME Next
    PROVE  /\ k.op = "clone" => clone_table \/ clone_done
           /\ k.op = "load" => load_alloc \/ load_map
           /\ k.op = "mmap" => mmap_page
<1>1. /\ scheduler_start => k.op = "boot"
      /\ clone_page \/ clone_table_done => k.op = "clone_pte"
      /\ clone_dst => k.op = "clone_dst"
      /\ clone_copy => k.op = "clone_copy"
  BY Zenon DEF scheduler_start, clone_page, clone_table_done, clone_dst, clone_copy, Busy
<1>2. /\ clone_table \/ clone_done => k.op = "clone"
      /\ reset_pde \/ reset_done => k.op = "reset"
      /\ mmap_page => k.op = "mmap"
      /\ collect_pde \/ collect_done => k.op = "collect"
  BY Zenon DEF clone_table, clone_done, reset_pde, reset_done, mmap_page, collect_pde, collect_done, Busy
<1>3. /\ fork \/ jump_to_usermode_alloc \/ jump_to_usermode_map \/ exec => k.op = "none"
      /\ mmap \/ exit \/ switch \/ collect => k.op = "none"
      /\ load_alloc \/ load_map => k.op \in {"load", "none"}
  BY Zenon DEF fork, jump_to_usermode_alloc, jump_to_usermode_map, exec, mmap, exit, switch, collect, Running,
         load_alloc, load_map, CanLoad
<1> QED
  BY <1>1, <1>2, <1>3, Zenon DEF Next

(* syscall_mmap_handler of kernel/scheduler.c maps every page or none,     *)
(* however much memory there is.                                           *)
THEOREM MmapAlways == Spec => MmapAllOrNothing
<1>1. ASSUME MemoryInv, Next, k.op = "mmap", k'.op = "none"
      PROVE  \/ \A p \in k.first .. k.last : vmm_get_flags(mem', MyDir, p) = k.flags
             \/ \A p \in k.first .. k.last : ~Present(mem', MyDir, p)
  <2>1. RunningOk /\ halted = "no"
    BY <1>1, NextRuns, Zenon DEF MemoryInv
  <2>2. mmap_page
    BY <1>1, NextOp, Zenon
  <2>3. halted' = "no"
    <3>1. MmapPage(pmm_alloc(mem.regions)) /\ k' # k
      BY <1>1, <2>2, Zenon DEF mmap_page
    <3> QED
      BY <2>1, <3>1, Zenon DEF MmapPage, Halt, Do
  <2> QED
    BY <1>1, <2>1, <2>2, <2>3, MmapPageStep, Zenon
<1> QED
  BY <1>1, MemoryInvAlways, PTL DEF Spec, MmapAllOrNothing

(* The child of a fork has the pages of its parent, with their flags: what *)
(* vmm_clone_pagedir copies is complete, however many frames there are.    *)
THEOREM ForkAlways == Spec => ForkCopies
<1>1. ASSUME MemoryInv, Next, k.op = "clone", next_pid' = next_pid + 1,
             NEW p \in 0 .. (USER_PDE_END + 1) * TableSize - 1
      PROVE  vmm_get_flags(mem', k.dir, p) = vmm_get_flags(mem', MyDir, p)
  <2>1. RunningOk
    BY <1>1, NextRuns, Zenon DEF MemoryInv
  <2>2. clone_done
    <3>1. clone_table => next_pid' = next_pid
      BY Zenon DEF clone_table
    <3>2. next_pid \in Nat
      BY <2>1, Zenon DEF RunningOk, TypesOk
    <3> QED
      BY <1>1, <3>1, <3>2, NextOp
  <2>3. CloneEnds /\ \A c \in DOMAIN mem.dirs : SameUser(mem, mem', c)
    BY <2>1, <2>2, CloneDoneStep, Zenon
  <2>4. /\ k.dir \in DOMAIN mem.dirs /\ MyDir \in DOMAIN mem.dirs
        /\ \A i \in UserPdes : SameFlags(mem, i, MyDir, k.dir)
    BY <2>1, <2>3, CloneComplete, MyDirFacts, Zenon
  <2>5. p \in Nat /\ Dir(p) \in UserPdes
    <3>1. p \in Nat /\ p < (USER_PDE_END + 1) * TableSize /\ USER_PDE_END + 1 \in Nat
      BY VmmAssumption
    <3>2. Dir(p) < USER_PDE_END + 1 /\ Dir(p) \in Nat
      BY <3>1, DirBound, PageFacts, Zenon
    <3> QED
      BY <3>2, VmmAssumption DEF UserPdes
  <2>6. vmm_get_flags(mem, k.dir, p) = vmm_get_flags(mem, MyDir, p)
    BY <2>4, <2>5, SameFlagsView, Zenon
  <2>7. /\ vmm_get_flags(mem', k.dir, p) = vmm_get_flags(mem, k.dir, p)
        /\ vmm_get_flags(mem', MyDir, p) = vmm_get_flags(mem, MyDir, p)
    BY <2>3, <2>4, <2>5, SameUserView
  <2> QED
    BY <2>6, <2>7, Zenon
<1>2. MemoryInv /\ [Next]_vars =>
        [k.op = "clone" /\ next_pid' = next_pid + 1 =>
            \A p \in 0 .. (USER_PDE_END + 1) * TableSize - 1 :
                vmm_get_flags(mem', k.dir, p) = vmm_get_flags(mem', MyDir, p)]_vars
  BY <1>1, Zenon
<1> QED
  BY <1>2, MemoryInvAlways, PTL DEF Spec, ForkCopies

(* exec leaves the pages of the image, with its flags, and nothing of the  *)
(* program before.                                                         *)
THEOREM ExecAlways == Spec => ExecLeavesImage
<1>1. ASSUME NEW img \in Images, NEW m, NEW d, WholeSegments(m, d, img, Len(img)), NEW p \in LowPages
      PROVE  vmm_get_flags(m, d, p) = UNION {SegmentFlags(s) : s \in {s \in Range(img) : p \in s.first .. s.last}}
  <2>1. img \in Seq(SegmentType) /\ ImageOk(img)
    BY ProgramAssumption, Zenon DEF ImageOk
  <2>2. DOMAIN img = 1 .. Len(img)
    BY <2>1
  <2> DEFINE segs == {s \in Range(img) : p \in s.first .. s.last}
  <2>3. \A s \in segs : vmm_get_flags(m, d, p) = SegmentFlags(s)
    BY <1>1, <2>2, Zenon DEF WholeSegments, Range
  <2>4. segs = {} => vmm_get_flags(m, d, p) = {}
    BY <1>1, <2>2, Zenon DEF WholeSegments, Range
  <2> HIDE DEF segs
  <2>5. vmm_get_flags(m, d, p) = UNION {SegmentFlags(s) : s \in segs}
    BY <2>3, <2>4, Zenon
  <2> QED
    BY <2>5, Zenon DEF segs
<1>2. ASSUME MemoryInv, Next, k.op = "load", k'.op = "none", halted' = "no"
      PROVE  \E img \in Images : \A p \in 0 .. USER_PDE_END * TableSize - 1 :
                vmm_get_flags(mem', MyDir, p) = UNION {SegmentFlags(s) : s \in {s \in Range(img) : p \in s.first .. s.last}}
  <2>1. RunningOk
    BY <1>2, NextRuns, Zenon DEF MemoryInv
  <2>2. load_map
    <3>1. load_alloc => k' = k
      BY Zenon DEF load_alloc, Hold, Halt
    <3> QED
      BY <1>2, <3>1, NextOp, Zenon
  <2>3. PICK img \in Images : WholeSegments(mem', MyDir, img, Len(img))
    BY <1>2, <2>1, <2>2, LoadMapStep, Zenon
  <2> QED
    BY <1>1, <2>3 DEF LowPages
<1>3. MemoryInv /\ [Next]_vars =>
        [k.op = "load" /\ k'.op = "none" /\ halted' = "no" =>
            \E img \in Images : \A p \in 0 .. USER_PDE_END * TableSize - 1 :
                LET segs == {s \in Range(img) : p \in s.first .. s.last}
                IN  vmm_get_flags(mem', MyDir, p) = UNION {SegmentFlags(s) : s \in segs}]_vars
  BY <1>2, Zenon
<1> QED
  BY <1>3, MemoryInvAlways, PTL DEF Spec, ExecLeavesImage
=============================================================================
