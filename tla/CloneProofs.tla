----------------------------- MODULE CloneProofs ----------------------------
EXTENDS VmmProofs

LEMMA CloneSame ==
    ASSUME NEW m, NEW N, NEW C, NEW H, NEW E, Good(m, N, C, H, E), NEW other, SameUserHalf(m, other),
           NEW x, NEW d \in DOMAIN m.dirs, CloneAt(m, x, d)
    PROVE  CloneAt(other, x, d)
<1>1. \A c \in DOMAIN m.dirs : \A i \in UserPdes : m.dirs[c][i] # 0 => other.tables[m.dirs[c][i]] = m.tables[m.dirs[c][i]]
  BY SameHalfSameUser DEF SameUser
<1>2. other.dirs = m.dirs
  BY Zenon DEF SameUserHalf
<1>3. x.dir \in DOMAIN m.dirs
  BY Zenon DEF CloneAt
<1>4. \A i \in UserPdes : SameFlags(m, i, d, x.dir) => SameFlags(other, i, d, x.dir)
  BY <1>1, <1>2, <1>3 DEF SameFlags
<1> QED
  BY <1>2, <1>4, Zenon DEF CloneAt

LEMMA TableSame ==
    ASSUME NEW m, NEW N, NEW C, NEW H, NEW E, Good(m, N, C, H, E), NEW other, SameUserHalf(m, other),
           NEW x, x.last \in C, NEW d \in DOMAIN m.dirs, TableAt(m, x, d)
    PROVE  TableAt(other, x, d) /\ other.tables[m.dirs[d][x.i]] = m.tables[m.dirs[d][x.i]]
<1>1. other.dirs = m.dirs
  BY Zenon DEF SameUserHalf
<1>2. x.last \in UserTabs(m.tables) /\ m.dirs[d][x.i] \in UserTabs(m.tables)
  BY Zenon DEF Good, DirsOk, TableAt
<1>3. other.tables[x.last] = m.tables[x.last] /\ other.tables[m.dirs[d][x.i]] = m.tables[m.dirs[d][x.i]]
  BY <1>2, Zenon DEF SameUserHalf
<1> QED
  BY <1>1, <1>3, Zenon DEF TableAt

(* A step of a clone: the address spaces of the tasks stay as they are. *)
CloneStep ==
    /\ task' = task /\ current' = current /\ next_pid' = next_pid /\ halted' = "no"
    /\ k.op \in CloneOps \cup {"none"} /\ k' \in KType /\ k'.op \in CloneOps /\ (k'.op = "clone" => k'.j = 0)
    /\ k'.frame # 0 <=> k'.op \in PageOps
    /\ \A c \in DOMAIN mem.dirs : c \notin NewDirs => SameUser(mem, mem', c)

LEMMA CloneStepFacts ==
    ASSUME RunningOk, CloneStep, MemOk', TasksOk', CloneAt(mem', k', MyDir),
           k'.op \in TableOps => TableAt(mem', k', MyDir) /\ PageAt(mem', k', MyDir)
    PROVE  MemoryInv'
<1>1. MyDir' = MyDir
  BY Zenon DEF MyDir, CloneStep
<1>2. TypesOk'
  BY Zenon DEF TypesOk, CloneStep, RunningOk
<1>3. CurrentOk'
  <2>1. k.op # "boot" /\ k'.op # "boot" /\ k'.op \notin {"reset", "load", "mmap"}
    BY Zenon DEF CloneStep, CloneOps, TableOps
  <2>2. CurrentOk
    BY Zenon DEF RunningOk
  <2> QED
    BY <2>1, <2>2, Zenon DEF CurrentOk, CloneStep
<1>4. PhasesOk'
  <2> SUFFICES ASSUME NEW p \in DOMAIN task
               PROVE  PhaseAt(mem', task[p], OpOf(p)')
    BY Zenon DEF PhasesOk, CloneStep
  <2>1. PhaseAt(mem, task[p], OpOf(p))
    BY Zenon DEF RunningOk, PhasesOk
  <2>2. OpOf(p) \notin ExecOps /\ OpOf(p)' \notin ExecOps
    BY OpFacts, Zenon DEF OpOf, CloneStep
  <2>3. SameUser(mem, mem', task[p].dir)
    BY Zenon DEF RunningOk, TasksOk, TasksAt, CloneStep
  <2>4. PhaseAt(mem', task[p], OpOf(p))
    BY <2>1, <2>3, PhaseSame, Zenon
  <2> QED
    BY <2>2, <2>4, PhaseOtherOp, Zenon
<1>5. BootOk'
  <2>1. BootAt(mem, k.op) /\ k.op # "boot" /\ k'.op # "boot"
    BY OpFacts, Zenon DEF RunningOk, BootOk, CloneStep
  <2>2. SameUser(mem, mem', 0)
    BY MyDirFacts, Zenon DEF CloneStep
  <2>3. BootAt(mem', k.op)
    BY <2>1, <2>2, BootSame, Zenon
  <2> QED
    BY <2>1, <2>3, Zenon DEF BootOk, BootAt
<1>6. OpOk'
  BY <1>1, OpFacts, Zenon DEF OpOk, CloneStep
<1>7. RunningOk'
  BY <1>2, <1>3, <1>4, <1>5, <1>6, Zenon DEF RunningOk
<1> QED
  BY <1>7, Zenon DEF MemoryInv, CloneStep

-----------------------------------------------------------------------------
(* The steps of a clone. *)

LEMMA CloneDstStep ==
    ASSUME RunningOk, clone_dst
    PROVE  MemoryInv'
<1> DEFINE page == kmalloc_page(mem)
           r == vmm_transient_map(mem, MyDir, k.frame)
           H == InHand
<1>1. /\ k.op = "clone_dst" /\ task' = task /\ current' = current /\ next_pid' = next_pid
      /\ mem' = r.mem /\ halted' = r.err
      /\ r.err = "no" => k' = [k EXCEPT !.op = "clone_copy", !.dst = page]
  BY Zenon DEF clone_dst, Busy, Do
<1>2. /\ Good(mem, NewDirs, NewTables, H, {}) /\ DOMAIN mem.transient = Shown
      /\ k \in KType /\ k.frame \in Nat /\ k.frame # 0
  BY <1>1, OpFacts, Zenon DEF RunningOk, MemOk, TypesOk, KType
<1>3. MyDir \in DOMAIN mem.dirs /\ MyDir \notin NewDirs
  BY MyDirFacts, Zenon
<1>r. r = vmm_transient_map(mem, MyDir, k.frame) /\ page = kmalloc_page(mem)
  BY Zenon
<1> HIDE DEF r, page, H
<1>4. \/ r.err = "no" /\ ShowsAt(mem, r.mem, page, NewDirs, NewTables, H)
      \/ r.mem = mem /\ HaltCause(r.err, mem)
  BY <1>2, <1>3, <1>r, TransientMapFacts
<1>5. CASE r.mem = mem /\ HaltCause(r.err, mem)
  BY <1>1, <1>5, HaltStep, SameUserSelf, Zenon
<1>6. CASE r.err = "no" /\ ShowsAt(mem, r.mem, page, NewDirs, NewTables, H)
  <2>1. /\ Good(mem', NewDirs, NewTables, H, {}) /\ SameUserHalf(mem, mem')
        /\ DOMAIN mem'.transient = Shown \cup {page} /\ page \notin Shown /\ page \in Nat
    BY <1>1, <1>2, <1>6, Zenon DEF ShowsAt
  <2>2. /\ k' \in KType /\ k'.op = "clone_copy" /\ k'.dst = page /\ k'.dir = k.dir /\ k'.i = k.i /\ k'.j = k.j
        /\ k'.first = k.first /\ k'.last = k.last /\ k'.src = k.src /\ k'.frame = k.frame
    BY <1>1, <1>2, <1>6, <2>1, Zenon DEF KType, Ops, CloneOps, TableOps
  <2>3. NewDirs' = NewDirs /\ NewTables' = NewTables /\ NewTables = {k.last}
    BY <1>1, <2>2, Zenon DEF NewDirs, NewTables, CloneOps, TableOps
  <2>4. Shown' = Shown \cup {page} /\ k.first \in Shown /\ k.src \in Shown
    BY <1>1, <2>2, Zenon DEF Shown, TableOps, PageOps
  <2>5. InHand' = H
    BY <1>1, <2>2, Zenon DEF InHand, HeldFrames, H
  <2>6. MemOk'
    BY <2>1, <2>3, <2>4, <2>5, Zenon DEF MemOk
  <2>7. CloneStep
    <3>1. \A c \in DOMAIN mem.dirs : SameUser(mem, mem', c)
      BY <1>2, <2>1, SameHalfSameUser, Zenon
    <3> QED
      BY <1>1, <1>2, <1>6, <2>2, <3>1, OpFacts, Zenon DEF CloneStep
  <2>8. TasksOk'
    <3>1. TasksOk /\ mem'.dirs = mem.dirs
      BY <2>1, Zenon DEF RunningOk, SameUserHalf
    <3> QED
      BY <1>1, <2>2, <2>3, <3>1, Zenon DEF TasksOk
  <2>9. CloneAt(mem', k, MyDir) /\ TableAt(mem', k, MyDir)
        /\ mem'.tables[mem.dirs[MyDir][k.i]] = mem.tables[mem.dirs[MyDir][k.i]]
    <3>1. CloneAt(mem, k, MyDir) /\ TableAt(mem, k, MyDir)
      BY <1>1, OpFacts, Zenon DEF RunningOk, OpOk
    <3> QED
      BY <1>2, <1>3, <2>1, <2>3, <3>1, CloneSame, TableSame
  <2>10. CloneAt(mem', k', MyDir) /\ TableAt(mem', k', MyDir)
    BY <2>2, <2>9, Zenon DEF CloneAt, TableAt
  <2>11. PageAt(mem', k', MyDir)
    <3>1. PageAt(mem, k, MyDir) /\ mem'.dirs = mem.dirs
      BY <1>1, <2>1, OpFacts, Zenon DEF RunningOk, OpOk, SameUserHalf
    <3> QED
      BY <1>1, <2>1, <2>2, <2>4, <2>9, <3>1, OpFacts, Zenon DEF PageAt
  <2> QED
    BY <2>6, <2>7, <2>8, <2>10, <2>11, CloneStepFacts, Zenon
<1> QED
  BY <1>4, <1>5, <1>6, Zenon

LEMMA SameHalfTwice ==
    ASSUME NEW m, NEW m1, NEW m2, SameUserHalf(m, m1), SameUserHalf(m1, m2)
    PROVE  SameUserHalf(m, m2)
BY Zenon DEF SameUserHalf

LEMMA PtesLeftFacts ==
    ASSUME PtesLeft # {}, k \in KType
    PROVE  /\ LeastOf(PtesLeft) \in PresentPtes(ParentTable) /\ LeastOf(PtesLeft) \in Ptes
           /\ LeastOf(PtesLeft) >= k.j
           /\ \A j \in Ptes : k.j <= j /\ j < LeastOf(PtesLeft) => "P" \notin ParentTable[j].flags
<1>1. PtesLeft \in SUBSET (0 .. TableSize) /\ TableSize \in Nat
  BY VmmAssumption DEF PtesLeft, PresentPtes, Ptes
<1>2. LeastOf(PtesLeft) \in PtesLeft /\ \A y \in PtesLeft : LeastOf(PtesLeft) <= y
  BY <1>1, LeastFacts, Zenon
<1>3. LeastOf(PtesLeft) \in PresentPtes(ParentTable) /\ LeastOf(PtesLeft) \in Ptes /\ LeastOf(PtesLeft) >= k.j
  BY <1>2, Zenon DEF PtesLeft, PresentPtes
<1>4. ASSUME NEW j \in Ptes, k.j <= j, j < LeastOf(PtesLeft), "P" \in ParentTable[j].flags
      PROVE  FALSE
  <2>1. j \in PtesLeft
    BY <1>4, Zenon DEF PtesLeft, PresentPtes, KType
  <2>2. LeastOf(PtesLeft) <= j /\ j \in Nat /\ LeastOf(PtesLeft) \in Nat
    BY <1>2, <1>3, <2>1 DEF Ptes
  <2> QED
    BY <1>4, <2>2
<1> QED
  BY <1>3, <1>4, Zenon

LEMMA ClonePageStep ==
    ASSUME RunningOk, clone_page
    PROVE  MemoryInv'
<1> DEFINE a == pmm_alloc(mem.regions)
           m == WithRegions(mem, a.regions)
           j == LeastOf(PtesLeft)
           frame == ParentTable[j].frame
           page == kmalloc_page(m)
           r == vmm_transient_map(m, MyDir, frame)
           H == InHand
<1>1. /\ k.op = "clone_pte" /\ task' = task /\ current' = current /\ next_pid' = next_pid /\ PtesLeft # {}
      /\ ~GotFrame(a) => halted' = NoFrame(a) /\ mem' = mem
      /\ GotFrame(a) => /\ mem' = r.mem /\ halted' = r.err
                        /\ r.err = "no" => k' = [k EXCEPT !.op = "clone_dst", !.j = j, !.frame = a.frame, !.src = page]
  BY Zenon DEF clone_page, ClonePage, Busy, Do, Halt
<1>2. /\ Good(mem, NewDirs, NewTables, H, {}) /\ DOMAIN mem.transient = Shown
      /\ k \in KType /\ k.frame = 0
  BY <1>1, OpFacts, Zenon DEF RunningOk, MemOk, TypesOk, KType
<1>3. MyDir \in DOMAIN mem.dirs /\ MyDir \notin NewDirs
  BY MyDirFacts, Zenon
<1>c. CloneAt(mem, k, MyDir) /\ TableAt(mem, k, MyDir)
  BY <1>1, OpFacts, Zenon DEF RunningOk, OpOk
<1>j. /\ j \in PresentPtes(ParentTable) /\ j \in Ptes /\ j \in Nat /\ j >= k.j
      /\ \A l \in Ptes : k.j <= l /\ l < j => "P" \notin ParentTable[l].flags
  BY <1>1, <1>2, PtesLeftFacts DEF Ptes
<1>f. frame \in Nat
  <2>1. TablesOk(mem.dirs, mem.tables) /\ DirsOk(mem.dirs, mem.tables, NewDirs, NewTables)
    BY <1>2, Zenon DEF Good
  <2>2. mem.dirs[MyDir][k.i] \in DOMAIN mem.tables
    BY <1>3, <1>c, <2>1, Zenon DEF TableAt, DirsOk, UserTabs
  <2>3. ParentTable \in [Ptes -> EntryType]
    BY <2>1, <2>2, Zenon DEF TablesOk, ParentTable
  <2> QED
    BY <1>j, <2>3, Zenon DEF EntryType
<1>a. AllocGives(mem.regions, a) \/ AllocFails(mem.regions, a)
  BY <1>2, AllocFacts, Zenon DEF Good
<1>r. r = vmm_transient_map(m, MyDir, frame) /\ page = kmalloc_page(m) /\ m = WithRegions(mem, a.regions)
  BY Zenon
<1> HIDE DEF r, page, H, a, m, frame, j
<1>4. CASE AllocFails(mem.regions, a)
  <2>1. HaltCause(halted', mem') /\ SameUser(mem, mem', MyDir)
    BY <1>1, <1>4, AllocHalt, SameUserSelf
  <2> QED
    BY <1>1, <2>1, HaltStep, Zenon
<1>5. CASE AllocGives(mem.regions, a)
  <2>1. /\ Good(m, NewDirs, NewTables, With(H, a.frame), {}) /\ SameUserHalf(mem, m)
        /\ m.transient = mem.transient /\ a.frame \notin H /\ a.frame # 0 /\ a.frame \in Nat /\ GotFrame(a)
    BY <1>2, <1>5, <1>r, GoodAlloc
  <2>2. MyDir \in DOMAIN m.dirs
    BY <1>3, <2>1, Zenon DEF SameUserHalf
  <2>3. \/ r.err = "no" /\ ShowsAt(m, r.mem, page, NewDirs, NewTables, With(H, a.frame))
        \/ r.mem = m /\ HaltCause(r.err, m)
    BY <1>3, <1>r, <1>f, <2>1, <2>2, TransientMapFacts
  <2>4. CASE r.mem = m /\ HaltCause(r.err, m)
    <3>1. SameUser(mem, mem', MyDir)
      BY <1>1, <1>2, <1>3, <2>1, <2>4, SameHalfSameUser, Zenon
    <3> QED
      BY <1>1, <2>1, <2>4, <3>1, HaltStep, Zenon
  <2>5. CASE r.err = "no" /\ ShowsAt(m, r.mem, page, NewDirs, NewTables, With(H, a.frame))
    <3>1. /\ Good(mem', NewDirs, NewTables, With(H, a.frame), {}) /\ SameUserHalf(m, mem')
          /\ DOMAIN mem'.transient = Shown \cup {page} /\ page \notin Shown /\ page \in Nat
      BY <1>1, <1>2, <2>1, <2>5, Zenon DEF ShowsAt
    <3>s. SameUserHalf(mem, mem')
      BY <2>1, <3>1, SameHalfTwice, Zenon
    <3>2. /\ k' \in KType /\ k'.op = "clone_dst" /\ k'.src = page /\ k'.dir = k.dir /\ k'.i = k.i /\ k'.j = j
          /\ k'.first = k.first /\ k'.last = k.last /\ k'.frame = a.frame
      BY <1>1, <1>2, <1>j, <2>1, <2>5, <3>1, Zenon DEF KType, Ops, CloneOps, TableOps
    <3>3. NewDirs' = NewDirs /\ NewTables' = NewTables /\ NewTables = {k.last}
      BY <1>1, <3>2, Zenon DEF NewDirs, NewTables, CloneOps, TableOps
    <3>4. Shown' = Shown \cup {page} /\ k.first \in Shown
      BY <1>1, <3>2, Zenon DEF Shown, TableOps, PageOps
    <3>5. InHand' = With(H, a.frame)
      BY <1>1, <1>2, <2>1, <3>2 DEF InHand, HeldFrames, H, With
    <3>6. MemOk'
      BY <3>1, <3>3, <3>4, <3>5, Zenon DEF MemOk
    <3>7. CloneStep
      <4>1. \A c \in DOMAIN mem.dirs : SameUser(mem, mem', c)
        BY <1>2, <3>s, SameHalfSameUser, Zenon
      <4> QED
        BY <1>1, <2>1, <2>5, <3>2, <4>1, OpFacts, Zenon DEF CloneStep
    <3>8. TasksOk'
      <4>1. TasksOk /\ mem'.dirs = mem.dirs
        BY <3>s, Zenon DEF RunningOk, SameUserHalf
      <4>2. \A p \in DOMAIN task : task[p].held # 0 => task[p].held # a.frame
        BY <2>1, Zenon DEF H, InHand, HeldFrames
      <4> QED
        BY <1>1, <3>2, <3>3, <4>1, <4>2 DEF TasksOk, TasksAt
    <3>9. CloneAt(mem', k, MyDir) /\ TableAt(mem', k, MyDir)
          /\ mem'.tables[mem.dirs[MyDir][k.i]] = mem.tables[mem.dirs[MyDir][k.i]] /\ mem'.dirs = mem.dirs
      <4>1. CloneAt(mem', k, MyDir)
        BY <1>2, <1>3, <1>c, <3>s, CloneSame, Zenon
      <4>2. k.last \in NewTables
        BY <3>3, Zenon
      <4>3. TableAt(mem', k, MyDir) /\ mem'.tables[mem.dirs[MyDir][k.i]] = mem.tables[mem.dirs[MyDir][k.i]]
        BY <1>2, <1>3, <1>c, <3>s, <4>2, TableSame
      <4> QED
        BY <3>s, <4>1, <4>3, Zenon DEF SameUserHalf
    <3>10. CloneAt(mem', k', MyDir)
      BY <3>2, <3>9, Zenon DEF CloneAt
    <3>11. TableAt(mem', k', MyDir)
      <4>1. \A l \in Ptes : ShownFlags(mem'.tables[k.last][l]) = IF l < j THEN ShownFlags(ParentTable[l]) ELSE {}
        <5> SUFFICES ASSUME NEW l \in Ptes
                     PROVE  ShownFlags(mem'.tables[k.last][l]) = IF l < j THEN ShownFlags(ParentTable[l]) ELSE {}
          BY Zenon
        <5>0. l \in Nat /\ k.j \in Nat /\ ShownFlags(mem'.tables[k.last][l]) = IF l < k.j THEN ShownFlags(ParentTable[l]) ELSE {}
          BY <1>2, <3>9 DEF TableAt, Ptes, KType, ParentTable
        <5>1. k.j <= j
          BY <1>2, <1>j, Zenon DEF KType
        <5>2. CASE l < k.j
          BY <5>0, <5>1, <5>2, <1>j
        <5>3. CASE k.j <= l /\ l < j
          BY <5>0, <5>3, <1>j, Zenon DEF ShownFlags
        <5>4. CASE j <= l
          BY <5>0, <5>1, <5>4, <1>j
        <5> QED
          BY <5>0, <5>2, <5>3, <5>4, <1>j
      <4> QED
        BY <3>2, <3>9, <4>1, Zenon DEF TableAt, ParentTable
    <3>12. PageAt(mem', k', MyDir)
      <4>1. k'.j \in PresentPtes(mem'.tables[mem'.dirs[MyDir][k'.i]])
        BY <1>j, <3>2, <3>9, Zenon DEF ParentTable
      <4> QED
        BY <3>1, <3>2, <3>4, <4>1, Zenon DEF PageAt
    <3> QED
      BY <3>6, <3>7, <3>8, <3>10, <3>11, <3>12, CloneStepFacts, Zenon
  <2> QED
    BY <2>3, <2>4, <2>5, Zenon
<1> QED
  BY <1>a, <1>4, <1>5, Zenon

(* A table is added to those that no directory has. *)
LEMMA TableAdded ==
    ASSUME NEW m, NEW N, NEW C, NEW H, Good(m, N, C, H, {}), NEW f \in H, f \in Nat,
           NEW r1, r1.mem = m, r1.err = "no", NEW r, r = AddCloneTable(r1, f)
    PROVE  /\ r.err = "no" /\ Good(r.mem, N, With(C, f), Without(H, f), {}) /\ r.mem.transient = m.transient
           /\ SameUserHalf(m, r.mem) /\ r.mem.tables[f] = EmptyTable
<1>1. r.err = "no" /\ r.mem = [m EXCEPT !.tables = Put(m.tables, f, EmptyTable)] /\ MemType(m)
  BY Zenon DEF AddCloneTable, Ok, Good
<1>2. NewTablesOf(m, r.mem, Put(m.tables, f, EmptyTable))
  BY <1>1, Zenon DEF NewTablesOf, MemType
<1>3. /\ Good(r.mem, N, With(C, f), Without(H, f), {})
      /\ f \notin DOMAIN m.tables /\ DOMAIN r.mem.tables = DOMAIN m.tables \cup {f}
      /\ r.mem.tables[f] = EmptyTable /\ f # KernelTable
      /\ \A t \in DOMAIN m.tables : r.mem.tables[t] = m.tables[t]
  BY <1>2, GoodTable
<1> QED
  BY <1>1, <1>2, <1>3, Zenon DEF NewTablesOf, SameUserHalf, UserTabs

LEMMA NextPdeFacts ==
    ASSUME NEW d \in DOMAIN mem.dirs, NEW x, CloneAt(mem, k, d), k \in KType,
           NEW i \in UserPdes, NextPde(d, UserPdes, i), x.dir = k.dir, x.i = i
    PROVE  CloneAt(mem, x, d) /\ mem.dirs[d][i] # 0 /\ i \in Nat
<1>1. /\ i \in Nat /\ k.i \in Nat /\ k.i <= i /\ mem.dirs[d][i] # 0
      /\ \A p \in UserPdes : p \in Nat /\ (k.i <= p /\ p < i => mem.dirs[d][p] = 0)
  BY DEF NextPde, KType, UserPdes
<1>2. /\ k.dir \in DOMAIN mem.dirs /\ k.dir # 0
      /\ \A p \in UserPdes : p < k.i => SameFlags(mem, p, d, k.dir)
      /\ \A p \in UserPdes : p >= k.i => mem.dirs[k.dir][p] = 0
  BY Zenon DEF CloneAt
<1>3. ASSUME NEW p \in UserPdes, p < i
      PROVE  SameFlags(mem, p, d, k.dir)
  <2>1. CASE p < k.i
    BY <1>2, <2>1, Zenon
  <2>2. CASE k.i <= p
    <3>1. mem.dirs[d][p] = 0 /\ mem.dirs[k.dir][p] = 0
      BY <1>1, <1>2, <1>3, <2>2, Zenon
    <3> QED
      BY <3>1, Zenon DEF SameFlags
  <2>3. p \in Nat /\ k.i \in Nat
    BY <1>1, Zenon DEF UserPdes
  <2>4. p < k.i \/ k.i <= p
    BY <2>3
  <2> QED
    BY <2>1, <2>2, <2>4, Zenon
<1>4. ASSUME NEW p \in UserPdes, p >= i
      PROVE  mem.dirs[k.dir][p] = 0
  <2>1. p >= k.i
    BY <1>1, <1>4
  <2> QED
    BY <2>1, <1>2, Zenon
<1> QED
  BY <1>1, <1>2, <1>3, <1>4, Zenon DEF CloneAt

LEMMA CloneTableStep ==
    ASSUME RunningOk, clone_table
    PROVE  MemoryInv'
<1> DEFINE a == pmm_alloc(mem.regions)
           m == WithRegions(mem, a.regions)
           page == kmalloc_page(m)
           r1 == vmm_transient_map(m, MyDir, a.frame)
           r == AddCloneTable(r1, a.frame)
           H == InHand
<1>1. PICK i \in UserPdes :
      /\ k.op = "clone" /\ task' = task /\ current' = current /\ next_pid' = next_pid /\ NextPde(MyDir, UserPdes, i)
      /\ ~GotFrame(a) => halted' = NoFrame(a) /\ mem' = mem
      /\ GotFrame(a) => /\ mem' = r.mem /\ halted' = r.err
                        /\ r.err = "no" => k' = [k EXCEPT !.op = "clone_pte", !.i = i, !.first = page, !.last = a.frame]
  BY Zenon DEF clone_table, CloneTable, Busy, Do, Halt
<1>2. /\ Good(mem, NewDirs, NewTables, H, {}) /\ DOMAIN mem.transient = Shown
      /\ k \in KType /\ k.frame = 0
  BY <1>1, OpFacts DEF RunningOk, MemOk, TypesOk, KType
<1>3. MyDir \in DOMAIN mem.dirs /\ MyDir \notin NewDirs
  BY MyDirFacts, Zenon
<1>c. CloneAt(mem, k, MyDir) /\ k.j = 0
  BY <1>1, OpFacts, Zenon DEF RunningOk, OpOk
<1>a. AllocGives(mem.regions, a) \/ AllocFails(mem.regions, a)
  BY <1>2, AllocFacts, Zenon DEF Good
<1>r. r1 = vmm_transient_map(m, MyDir, a.frame) /\ page = kmalloc_page(m) /\ m = WithRegions(mem, a.regions)
      /\ r = AddCloneTable(r1, a.frame)
  BY Zenon
<1> HIDE DEF r, r1, page, H, a, m
<1>4. CASE AllocFails(mem.regions, a)
  <2>1. HaltCause(halted', mem') /\ SameUser(mem, mem', MyDir)
    BY <1>1, <1>4, AllocHalt, SameUserSelf
  <2> QED
    BY <1>1, <2>1, HaltStep, Zenon
<1>5. CASE AllocGives(mem.regions, a)
  <2>1. /\ Good(m, NewDirs, NewTables, With(H, a.frame), {}) /\ SameUserHalf(mem, m)
        /\ m.transient = mem.transient /\ a.frame \notin H /\ a.frame # 0 /\ a.frame \in Nat /\ GotFrame(a)
    BY <1>2, <1>5, <1>r, GoodAlloc
  <2>2. MyDir \in DOMAIN m.dirs
    BY <1>3, <2>1, Zenon DEF SameUserHalf
  <2>3. \/ r1.err = "no" /\ ShowsAt(m, r1.mem, page, NewDirs, NewTables, With(H, a.frame))
        \/ r1.mem = m /\ HaltCause(r1.err, m)
    BY <1>3, <1>r, <2>1, <2>2, TransientMapFacts
  <2>4. CASE r1.mem = m /\ HaltCause(r1.err, m)
    <3>0. r = r1
      BY <1>r, <2>4, Zenon DEF AddCloneTable, HaltCause
    <3>1. SameUser(mem, mem', MyDir)
      BY <1>1, <1>2, <1>3, <2>1, <2>4, <3>0, SameHalfSameUser, Zenon
    <3> QED
      BY <1>1, <2>1, <2>4, <3>0, <3>1, HaltStep, Zenon
  <2>5. CASE r1.err = "no" /\ ShowsAt(m, r1.mem, page, NewDirs, NewTables, With(H, a.frame))
    <3>0. /\ Good(r1.mem, NewDirs, NewTables, With(H, a.frame), {}) /\ SameUserHalf(m, r1.mem)
          /\ DOMAIN r1.mem.transient = Shown \cup {page} /\ page \in Nat /\ a.frame \in With(H, a.frame)
      BY <1>2, <2>1, <2>5, Zenon DEF ShowsAt, With
    <3>1. /\ r.err = "no" /\ Good(r.mem, NewDirs, With(NewTables, a.frame), Without(With(H, a.frame), a.frame), {})
          /\ r.mem.transient = r1.mem.transient
          /\ SameUserHalf(r1.mem, r.mem) /\ r.mem.tables[a.frame] = EmptyTable
      BY <1>r, <2>1, <2>5, <3>0, TableAdded
    <3>s. SameUserHalf(mem, mem')
      BY <1>1, <2>1, <3>0, <3>1, SameHalfTwice, Zenon
    <3>2. /\ k' \in KType /\ k'.op = "clone_pte" /\ k'.first = page /\ k'.dir = k.dir /\ k'.i = i /\ k'.j = 0
          /\ k'.last = a.frame /\ k'.frame = 0
      <4>1. i \in Nat /\ k' = [k EXCEPT !.op = "clone_pte", !.i = i, !.first = page, !.last = a.frame]
        BY <1>1, <2>1, <3>1 DEF UserPdes
      <4> QED
        BY <1>2, <1>c, <2>1, <3>0, <4>1, Zenon DEF KType, Ops, CloneOps, TableOps
    <3>3. NewDirs' = NewDirs /\ NewTables' = With(NewTables, a.frame)
      BY <1>1, <3>2, Zenon DEF NewDirs, NewTables, CloneOps, TableOps, With
    <3>4. Shown' = Shown \cup {page}
      BY <1>1, <3>2, Zenon DEF Shown, TableOps, PageOps
    <3>5. InHand' = Without(With(H, a.frame), a.frame)
      BY <1>1, <1>2, <2>1, <3>2 DEF InHand, HeldFrames, H, With, Without
    <3>6. MemOk'
      BY <1>1, <2>1, <3>0, <3>1, <3>3, <3>4, <3>5, Zenon DEF MemOk
    <3>7. CloneStep
      <4>1. \A c \in DOMAIN mem.dirs : SameUser(mem, mem', c)
        BY <1>2, <3>s, SameHalfSameUser, Zenon
      <4> QED
        BY <1>1, <2>1, <3>1, <3>2, <4>1, OpFacts, Zenon DEF CloneStep
    <3>8. TasksOk'
      <4>1. TasksOk /\ mem'.dirs = mem.dirs
        BY <3>s, Zenon DEF RunningOk, SameUserHalf
      <4> QED
        BY <1>1, <1>2, <3>2, <3>3, <4>1, Zenon DEF TasksOk, TasksAt
    <3>9. CloneAt(mem, k', MyDir) /\ mem.dirs[MyDir][i] # 0
      BY <1>1, <1>2, <1>3, <1>c, <3>2, NextPdeFacts
    <3>10. CloneAt(mem', k', MyDir)
      BY <1>2, <1>3, <3>s, <3>9, CloneSame, Zenon
    <3>11. TableAt(mem', k', MyDir)
      <4>1. mem'.tables[a.frame] = EmptyTable /\ \A l \in Ptes : ShownFlags(EmptyTable[l]) = {} /\ ~(l < 0)
        BY <1>1, <2>1, <3>1 DEF ShownFlags, EmptyTable, NoEntry, Ptes
      <4>2. mem'.dirs = mem.dirs
        BY <3>s, Zenon DEF SameUserHalf
      <4> QED
        BY <3>2, <3>9, <4>1, <4>2, Zenon DEF TableAt
    <3>12. PageAt(mem', k', MyDir)
      BY <3>2, Zenon DEF PageAt, PageOps
    <3> QED
      BY <3>6, <3>7, <3>8, <3>10, <3>11, <3>12, CloneStepFacts, Zenon
  <2> QED
    BY <2>3, <2>4, <2>5, Zenon
<1> QED
  BY <1>a, <1>4, <1>5, Zenon

LEMMA CloneSameUser ==
    ASSUME NEW m, NEW other, NEW x, NEW d \in DOMAIN m.dirs, CloneAt(m, x, d), x.dir \in DOMAIN other.dirs,
           \A c \in DOMAIN m.dirs : SameUser(m, other, c)
    PROVE  CloneAt(other, x, d)
<1>1. x.dir \in DOMAIN m.dirs
  BY Zenon DEF CloneAt
<1>2. \A i \in UserPdes : SameFlags(m, i, d, x.dir) => SameFlags(other, i, d, x.dir)
  BY <1>1 DEF SameFlags, SameUser
<1>3. \A i \in UserPdes : other.dirs[x.dir][i] = m.dirs[x.dir][i]
  BY <1>1, Zenon DEF SameUser
<1> QED
  BY <1>2, <1>3, Zenon DEF CloneAt

LEMMA CloneCopyStep ==
    ASSUME RunningOk, clone_copy
    PROVE  MemoryInv'
<1> DEFINE m1 == vmm_transient_unmap(mem, MyDir, k.dst)
           m2 == vmm_transient_unmap(m1, MyDir, k.src)
           entry == Pte(k.frame, ParentTable[k.j].flags)
           H == InHand
<1>1. /\ k.op = "clone_copy" /\ task' = task /\ current' = current /\ next_pid' = next_pid /\ halted' = "no"
      /\ mem' = [m2 EXCEPT !.tables[k.last][k.j] = entry]
      /\ k' = [k EXCEPT !.op = "clone_pte", !.j = k.j + 1, !.frame = 0, !.src = 0, !.dst = 0]
  BY Zenon DEF clone_copy, CloneEntry, Busy, Pte
<1>2. /\ Good(mem, NewDirs, NewTables, H, {}) /\ DOMAIN mem.transient = Shown
      /\ k \in KType /\ k.frame # 0 /\ k.frame \in Nat
  BY <1>1, OpFacts, Zenon DEF RunningOk, MemOk, TypesOk, KType
<1>3. MyDir \in DOMAIN mem.dirs /\ MyDir \notin NewDirs
  BY MyDirFacts, Zenon
<1>c. CloneAt(mem, k, MyDir) /\ TableAt(mem, k, MyDir) /\ PageAt(mem, k, MyDir)
  BY <1>1, OpFacts, Zenon DEF RunningOk, OpOk
<1>s. Shown = {k.first, k.src, k.dst} /\ NewTables = {k.last} /\ k.dst # k.src /\ k.first # k.src /\ k.first # k.dst
  BY <1>1, <1>c, Zenon DEF Shown, NewTables, TableOps, PageOps, PageAt
<1>p. k.j \in Ptes /\ entry \in EntryType /\ entry.frame = k.frame /\ "P" \in ParentTable[k.j].flags
      /\ entry.flags = ParentTable[k.j].flags
  <2>1. TablesOk(mem.dirs, mem.tables) /\ DirsOk(mem.dirs, mem.tables, NewDirs, NewTables)
    BY <1>2, Zenon DEF Good
  <2>2. mem.dirs[MyDir][k.i] \in DOMAIN mem.tables
    BY <1>3, <1>c, <2>1, Zenon DEF TableAt, DirsOk, UserTabs
  <2>3. ParentTable \in [Ptes -> EntryType]
    BY <2>1, <2>2, Zenon DEF TablesOk, ParentTable
  <2>4. k.j \in Ptes /\ "P" \in ParentTable[k.j].flags
    BY <1>1, <1>c, Zenon DEF PageAt, PageOps, PresentPtes, ParentTable
  <2> QED
    BY <1>2, <2>3, <2>4, Zenon DEF EntryType, Pte
<1>r. m1 = vmm_transient_unmap(mem, MyDir, k.dst) /\ m2 = vmm_transient_unmap(m1, MyDir, k.src)
  BY Zenon
<1> HIDE DEF m1, m2, entry, H
<1>4. Good(m1, NewDirs, NewTables, H, {}) /\ SameUserHalf(mem, m1) /\ DOMAIN m1.transient = DOMAIN mem.transient \ {k.dst}
  <2>1. k.dst \in DOMAIN mem.transient
    BY <1>2, <1>s, Zenon
  <2> QED
    BY <1>2, <1>3, <1>r, <2>1, TransientUnmapFacts
<1>5. Good(m2, NewDirs, NewTables, H, {}) /\ SameUserHalf(m1, m2) /\ DOMAIN m2.transient = DOMAIN m1.transient \ {k.src}
  <2>1. k.src \in DOMAIN m1.transient
    BY <1>2, <1>4, <1>s, Zenon
  <2>2. MyDir \in DOMAIN m1.dirs
    BY <1>3, <1>4, Zenon DEF SameUserHalf
  <2> QED
    BY <1>3, <1>4, <1>r, <2>1, <2>2, TransientUnmapFacts
<1>6. SameUserHalf(mem, m2) /\ DOMAIN m2.transient = {k.first}
  BY <1>2, <1>4, <1>5, <1>s, SameHalfTwice, Zenon
<1>7. NewTablesOf(m2, mem', SetIn(m2.tables, k.last, k.j, entry))
  <2>1. MemType(m2)
    BY <1>5, Zenon DEF Good
  <2> QED
    BY <1>1, <2>1, Zenon DEF NewTablesOf, MemType, SetIn
<1>8. k.last \in UserTabs(m2.tables) /\ entry.frame \in H
  BY <1>2, <1>5, <1>p, <1>s, Zenon DEF Good, DirsOk, H, InHand
<1>9. /\ Good(mem', NewDirs, NewTables, Without(H, entry.frame), {})
      /\ DOMAIN mem'.tables = DOMAIN m2.tables
      /\ \A u \in DOMAIN m2.tables : u # k.last => mem'.tables[u] = m2.tables[u]
      /\ \A j \in Ptes : mem'.tables[k.last][j] = IF j = k.j THEN entry ELSE m2.tables[k.last][j]
  <2>1. k.j \in Ptes /\ entry \in EntryType /\ Good(m2, NewDirs, NewTables, H, {})
    BY <1>5, <1>p, Zenon
  <2>2. /\ Good(mem', NewDirs, NewTables, Without(H, entry.frame), {})
        /\ SetTo(m2.tables, mem'.tables, k.last, k.j, entry)
    BY <1>7, <1>8, <2>1, GoodMap
  <2> QED
    BY <2>2, Zenon DEF SetTo
<1>10. mem'.dirs = mem.dirs /\ DOMAIN mem'.transient = {k.first}
  BY <1>6, <1>7, Zenon DEF NewTablesOf, SameUserHalf
<1>11. ASSUME NEW c \in DOMAIN mem.dirs
       PROVE  SameUser(mem, mem', c)
  <2>1. SameUser(mem, m2, c)
    BY <1>2, <1>6, SameHalfSameUser, Zenon
  <2>2. \A i \in UserPdes : mem.dirs[c][i] # 0 =>
            /\ mem.dirs[c][i] # k.last /\ mem.dirs[c][i] \in DOMAIN m2.tables
    BY <1>2, <1>6, <1>s DEF Good, DirsOk, SameUserHalf, UserTabs
  <2> QED
    BY <1>9, <1>10, <2>1, <2>2, Zenon DEF SameUser
<1>12. /\ k' \in KType /\ k'.op = "clone_pte" /\ k'.dir = k.dir /\ k'.i = k.i /\ k'.j = k.j + 1
       /\ k'.first = k.first /\ k'.last = k.last /\ k'.frame = 0
  <2>1. k.j + 1 \in Nat /\ 0 \in Nat /\ k \in KType
    BY <1>2 DEF KType
  <2>2. k' = [k EXCEPT !.op = "clone_pte", !.j = k.j + 1, !.frame = 0, !.src = 0, !.dst = 0]
    BY <1>1, Zenon
  <2> QED
    BY <2>1, <2>2, Zenon DEF KType, Ops, CloneOps, TableOps
<1>13. NewDirs' = NewDirs /\ NewTables' = NewTables /\ Shown' = {k.first}
  BY <1>1, <1>12, Zenon DEF NewDirs, NewTables, Shown, CloneOps, TableOps, PageOps
<1>14. InHand' = Without(H, entry.frame)
  <2>1. \A p \in DOMAIN task : task[p].held # 0 => task[p].held # k.frame
    BY Zenon DEF RunningOk, TasksOk, TasksAt
  <2> QED
    BY <1>1, <1>12, <1>p, <2>1 DEF InHand, HeldFrames, H, Without
<1>15. MemOk'
  BY <1>9, <1>10, <1>13, <1>14, Zenon DEF MemOk
<1>16. CloneStep
  BY <1>1, <1>11, <1>12, OpFacts, Zenon DEF CloneStep
<1>17. TasksOk'
  <2>1. TasksOk
    BY Zenon DEF RunningOk
  <2> QED
    BY <1>1, <1>10, <1>12, <1>13, <2>1, Zenon DEF TasksOk, TasksAt
<1>18. CloneAt(mem', k', MyDir)
  <2>1. CloneAt(mem', k, MyDir)
    <3>1. k.dir \in DOMAIN mem'.dirs
      BY <1>10, <1>c, Zenon DEF CloneAt
    <3> QED
      BY <1>3, <1>c, <1>11, <3>1, CloneSameUser, Zenon
  <2> QED
    BY <1>12, <2>1, Zenon DEF CloneAt
<1>19. TableAt(mem', k', MyDir)
  <2>1. mem'.tables[mem.dirs[MyDir][k.i]] = ParentTable
    BY <1>3, <1>c, <1>11, Zenon DEF SameUser, TableAt, ParentTable
  <2>2. m2.tables[k.last] = mem.tables[k.last]
    <3>1. k.last \in UserTabs(mem.tables)
      BY <1>2, <1>s, Zenon DEF Good, DirsOk
    <3> QED
      BY <1>6, <3>1, Zenon DEF SameUserHalf
  <2>3. ASSUME NEW l \in Ptes
        PROVE  ShownFlags(mem'.tables[k.last][l]) = IF l < k.j + 1 THEN ShownFlags(ParentTable[l]) ELSE {}
    <3>1. l \in Nat /\ k.j \in Nat
      BY <1>p DEF Ptes
    <3>2. CASE l = k.j
      <4>1. mem'.tables[k.last][l].flags = ParentTable[l].flags /\ l < k.j + 1
        BY <1>9, <1>p, <3>1, <3>2
      <4> QED
        BY <4>1, Zenon DEF ShownFlags
    <3>3. CASE l # k.j
      <4>1. mem'.tables[k.last][l] = mem.tables[k.last][l]
        BY <1>9, <2>2, <3>3, Zenon
      <4>2. ShownFlags(mem.tables[k.last][l]) = IF l < k.j THEN ShownFlags(ParentTable[l]) ELSE {}
        BY <1>c, Zenon DEF TableAt, ParentTable
      <4>3. l < k.j <=> l < k.j + 1
        BY <3>1, <3>3
      <4> QED
        BY <4>1, <4>2, <4>3, Zenon
    <3> QED
      BY <3>2, <3>3, Zenon
  <2> QED
    BY <1>c, <1>10, <1>12, <2>1, <2>3 DEF TableAt
<1>20. PageAt(mem', k', MyDir)
  BY <1>12, Zenon DEF PageAt, PageOps
<1> QED
  BY <1>15, <1>16, <1>17, <1>18, <1>19, <1>20, CloneStepFacts, Zenon

(* A clone's table is complete when no page of the parent's is left. *)
LEMMA TableComplete ==
    ASSUME NEW d \in DOMAIN mem.dirs, d = MyDir, TableAt(mem, k, d), PtesLeft = {}, k \in KType, NEW j \in Ptes
    PROVE  ShownFlags(mem.tables[k.last][j]) = ShownFlags(mem.tables[mem.dirs[d][k.i]][j])
<1>1. ShownFlags(mem.tables[k.last][j]) = IF j < k.j THEN ShownFlags(mem.tables[mem.dirs[d][k.i]][j]) ELSE {}
  BY Zenon DEF TableAt
<1>2. CASE j < k.j
  BY <1>1, <1>2, Zenon
<1>3. CASE ~(j < k.j)
  <2>1. j >= k.j
    BY <1>3 DEF Ptes, KType
  <2>2. "P" \notin ParentTable[j].flags
    BY <2>1, Zenon DEF PtesLeft, PresentPtes
  <2> QED
    BY <1>1, <1>3, <2>2, Zenon DEF ShownFlags, ParentTable
<1> QED
  BY <1>2, <1>3, Zenon

LEMMA CloneTableDoneStep ==
    ASSUME RunningOk, clone_table_done
    PROVE  MemoryInv'
<1> DEFINE m1 == vmm_transient_unmap(mem, MyDir, k.first)
           H == InHand
<1>1. /\ k.op = "clone_pte" /\ task' = task /\ current' = current /\ next_pid' = next_pid /\ halted' = "no"
      /\ mem' = [m1 EXCEPT !.dirs[k.dir][k.i] = k.last] /\ PtesLeft = {}
      /\ k' = [k EXCEPT !.op = "clone", !.i = k.i + 1, !.j = 0, !.first = 0, !.last = 0]
  BY Zenon DEF clone_table_done, Busy
<1>2. /\ Good(mem, NewDirs, NewTables, H, {}) /\ DOMAIN mem.transient = Shown
      /\ k \in KType /\ k.frame = 0 /\ k.i \in Nat
  BY <1>1, OpFacts, Zenon DEF RunningOk, MemOk, TypesOk, KType
<1>3. MyDir \in DOMAIN mem.dirs /\ MyDir \notin NewDirs
  BY MyDirFacts, Zenon
<1>c. CloneAt(mem, k, MyDir) /\ TableAt(mem, k, MyDir)
  BY <1>1, OpFacts, Zenon DEF RunningOk, OpOk
<1>s. Shown = {k.first} /\ NewTables = {k.last} /\ NewDirs = {k.dir}
  BY <1>1, Zenon DEF Shown, NewTables, NewDirs, CloneOps, TableOps, PageOps
<1>r. m1 = vmm_transient_unmap(mem, MyDir, k.first)
  BY Zenon
<1> HIDE DEF m1, H
<1>4. Good(m1, NewDirs, NewTables, H, {}) /\ SameUserHalf(mem, m1) /\ DOMAIN m1.transient = DOMAIN mem.transient \ {k.first}
  <2>1. k.first \in DOMAIN mem.transient
    BY <1>2, <1>s, Zenon
  <2> QED
    BY <1>2, <1>3, <1>r, <2>1, TransientUnmapFacts
<1>5. NewDirsOf(m1, mem', Linked(m1.dirs, k.dir, k.i, k.last))
  <2>1. MemType(m1)
    BY <1>4, Zenon DEF Good
  <2> QED
    BY <1>1, <2>1, Zenon DEF NewDirsOf, MemType, Linked
<1>6. /\ k.dir \in DOMAIN m1.dirs /\ k.i \in UserPdes /\ m1.dirs[k.dir][k.i] = 0 /\ k.last \in NewTables
      /\ m1.dirs = mem.dirs /\ k.dir # MyDir /\ mem.dirs[MyDir][k.i] # 0
  <2>1. m1.dirs = mem.dirs /\ k.dir # MyDir /\ k.last \in NewTables
    BY <1>3, <1>4, <1>s, Zenon DEF SameUserHalf
  <2>2. k.i \in UserPdes /\ mem.dirs[MyDir][k.i] # 0
    BY <1>c, Zenon DEF TableAt
  <2>3. k.dir \in DOMAIN mem.dirs /\ mem.dirs[k.dir][k.i] = 0
    BY <1>2, <1>c, <2>2 DEF CloneAt
  <2> QED
    BY <2>1, <2>2, <2>3, Zenon
<1>7. /\ Good(mem', NewDirs, Without(NewTables, k.last), H, {}) /\ DOMAIN mem'.dirs = DOMAIN m1.dirs
      /\ \A c \in DOMAIN m1.dirs : \A j \in UserPdes \cup KernelPdes :
            mem'.dirs[c][j] = IF c = k.dir /\ j = k.i THEN k.last ELSE m1.dirs[c][j]
  <2>1. /\ Good(mem', NewDirs, Without(NewTables, k.last), H, {})
        /\ LinkedTo(m1.dirs, mem'.dirs, k.dir, k.i, k.last)
    BY <1>4, <1>5, <1>6, GoodLink
  <2> QED
    BY <2>1, Zenon DEF LinkedTo
<1>8. /\ mem'.tables = m1.tables /\ DOMAIN mem'.transient = {}
      /\ \A c \in DOMAIN mem.dirs : \A i \in UserPdes :
            mem.dirs[c][i] # 0 => m1.tables[mem.dirs[c][i]] = mem.tables[mem.dirs[c][i]]
  <2>1. \A c \in DOMAIN mem.dirs : SameUser(mem, m1, c)
    BY <1>2, <1>4, SameHalfSameUser, Zenon
  <2> QED
    BY <1>2, <1>4, <1>5, <1>s, <2>1, Zenon DEF NewDirsOf, SameUser
<1>9. \A c \in DOMAIN mem.dirs : c # k.dir => SameUser(mem, mem', c)
  BY <1>6, <1>7, <1>8 DEF SameUser
<1>10. k.i + 1 \in Nat /\ k' \in KType /\ k'.op = "clone" /\ k'.dir = k.dir /\ k'.i = k.i + 1 /\ k'.j = 0 /\ k'.frame = 0
  <2>1. k.i + 1 \in Nat /\ 0 \in Nat /\ k \in KType
    BY <1>2
  <2>2. k' = [k EXCEPT !.op = "clone", !.i = k.i + 1, !.j = 0, !.first = 0, !.last = 0]
    BY <1>1, Zenon
  <2> QED
    BY <1>2, <2>1, <2>2, Zenon DEF KType, Ops, CloneOps
<1>11. NewDirs' = NewDirs /\ NewTables' = Without(NewTables, k.last) /\ Shown' = {}
  BY <1>10, <1>s, Zenon DEF NewDirs, NewTables, Shown, CloneOps, TableOps, PageOps, Without
<1>12. InHand' = H
  BY <1>1, <1>2, <1>10 DEF InHand, HeldFrames, H
<1>13. MemOk'
  BY <1>7, <1>8, <1>11, <1>12, Zenon DEF MemOk
<1>14. CloneStep
  BY <1>1, <1>9, <1>10, <1>s, OpFacts, Zenon DEF CloneStep
<1>15. TasksOk'
  <2>1. TasksOk
    BY Zenon DEF RunningOk
  <2> QED
    BY <1>1, <1>2, <1>6, <1>7, <1>10, <1>11, <2>1, Zenon DEF TasksOk, TasksAt
<1>16. CloneAt(mem', k', MyDir)
  <2>1. k.dir \in DOMAIN mem'.dirs /\ k.dir # 0
    BY <1>6, <1>7, <1>c, Zenon DEF CloneAt
  <2>2. ASSUME NEW i \in UserPdes, i < k.i + 1
        PROVE  SameFlags(mem', i, MyDir, k.dir)
    <3>1. CASE i = k.i
      <4>1. mem'.dirs[k.dir][i] = k.last /\ mem'.dirs[MyDir][i] = mem.dirs[MyDir][k.i]
        BY <1>3, <1>6, <1>7, <3>1
      <4>2. k.last \in UserTabs(mem.tables) /\ k.last # 0
        BY <1>2, <1>s, Zenon DEF Good, DirsOk, TablesOk, UserTabs
      <4>3. mem'.tables[k.last] = mem.tables[k.last]
        BY <1>4, <1>8, <4>2, Zenon DEF SameUserHalf
      <4>4. mem'.tables[mem.dirs[MyDir][k.i]] = mem.tables[mem.dirs[MyDir][k.i]]
        BY <1>3, <1>6, <1>8, Zenon
      <4>5. \A j \in Ptes : ShownFlags(mem.tables[k.last][j]) = ShownFlags(mem.tables[mem.dirs[MyDir][k.i]][j])
        BY <1>1, <1>2, <1>3, <1>c, TableComplete, Zenon
      <4> QED
        BY <1>6, <4>1, <4>2, <4>3, <4>4, <4>5, Zenon DEF SameFlags
    <3>2. CASE i # k.i
      <4>1. i < k.i
        BY <1>2, <2>2, <3>2 DEF UserPdes
      <4>2. SameFlags(mem, i, MyDir, k.dir)
        BY <1>c, <4>1, Zenon DEF CloneAt
      <4>3. mem'.dirs[k.dir][i] = mem.dirs[k.dir][i] /\ mem'.dirs[MyDir][i] = mem.dirs[MyDir][i]
        BY <1>3, <1>6, <1>7, <3>2
      <4>4. /\ k.dir \in DOMAIN mem.dirs /\ mem'.tables = m1.tables
            /\ mem.dirs[k.dir][i] # 0 => m1.tables[mem.dirs[k.dir][i]] = mem.tables[mem.dirs[k.dir][i]]
            /\ mem.dirs[MyDir][i] # 0 => m1.tables[mem.dirs[MyDir][i]] = mem.tables[mem.dirs[MyDir][i]]
        BY <1>3, <1>6, <1>8, Zenon
      <4>5. CASE mem.dirs[MyDir][i] = 0
        BY <4>2, <4>3, <4>5, Zenon DEF SameFlags
      <4>6. CASE mem.dirs[MyDir][i] # 0
        BY <4>2, <4>3, <4>4, <4>6, Zenon DEF SameFlags
      <4> QED
        BY <4>5, <4>6, Zenon
    <3> QED
      BY <3>1, <3>2, Zenon
  <2>3. ASSUME NEW i \in UserPdes, i >= k.i + 1
        PROVE  mem'.dirs[k.dir][i] = 0
    <3>1. i # k.i /\ i >= k.i
      BY <1>2, <2>3 DEF UserPdes
    <3>2. mem.dirs[k.dir][i] = 0
      BY <1>c, <3>1, Zenon DEF CloneAt
    <3> QED
      BY <1>6, <1>7, <3>1, <3>2
  <2> QED
    BY <1>10, <2>1, <2>2, <2>3, Zenon DEF CloneAt
<1> QED
  BY <1>10, <1>13, <1>14, <1>15, <1>16, CloneStepFacts, OpFacts, Zenon

(* A new directory, and a clone into it that has done nothing yet. *)
Starting(page) == [Idle EXCEPT !.op = "clone", !.dir = page]

LEMMA StartingFacts ==
    ASSUME NEW page \in Nat, NEW x, x = Starting(page)
    PROVE  /\ x \in KType /\ x.op = "clone" /\ x.dir = page /\ x.i = 0 /\ x.j = 0 /\ x.frame = 0
BY Zenon DEF Starting, Idle, KType, Ops, CloneOps

LEMMA StartingClone ==
    ASSUME NEW m, NEW after, NEW page, NEW H, NewDirAt(m, after, page, {}, {}, H), NEW x, x = Starting(page), NEW d
    PROVE  CloneAt(after, x, d)
<1>1. page \in Nat /\ page # 0 /\ page \in DOMAIN after.dirs /\ after.dirs[page] = EmptyDir
  BY Zenon DEF NewDirAt, With
<1>2. x.dir = page /\ x.i = 0
  BY <1>1, StartingFacts, Zenon
<1>3. \A i \in UserPdes : EmptyDir[i] = 0 /\ ~(i < 0)
  BY DEF EmptyDir, UserPdes
<1> QED
  BY <1>1, <1>2, <1>3, Zenon DEF CloneAt

LEMMA StartingHand ==
    ASSUME NEW page \in Nat, k' = Starting(page)
    PROVE  NewDirs' = With({}, page) /\ NewTables' = {} /\ Shown' = {} /\ InHand' = HeldFrames'
<1>1. k'.op = "clone" /\ k'.dir = page /\ k'.frame = 0
  BY StartingFacts, Zenon
<1> QED
  BY <1>1, OpFacts, Zenon DEF NewDirs, NewTables, Shown, InHand, PageOps, With

LEMMA ForkStep ==
    ASSUME RunningOk, fork
    PROVE  MemoryInv'
<1> DEFINE page == kmalloc_page(mem)
           r == AddDir(kmalloc_a(mem, MyDir), page)
<1>1. /\ k.op = "none" /\ task' = task /\ current' = current /\ next_pid' = next_pid
      /\ mem' = r.mem /\ halted' = r.err
      /\ r.err = "no" => k' = Starting(page)
  BY Zenon DEF fork, StartClone, Running, Do, Starting
<1>2. Good(mem, {}, {}, HeldFrames, {}) /\ DOMAIN mem.transient = {} /\ NewDirs = {} /\ k.frame = 0
  BY <1>1, PlainHand, OpFacts, Zenon
<1>3. MyDir \in DOMAIN mem.dirs
  BY MyDirFacts, Zenon
<1>r. r = AddDir(kmalloc_a(mem, MyDir), page) /\ page = kmalloc_page(mem)
  BY Zenon
<1> HIDE DEF r, page
<1>4. \/ r.err = "no" /\ NewDirAt(mem, r.mem, page, {}, {}, HeldFrames)
      \/ r.mem = mem /\ HaltCause(r.err, mem)
  <2>1. MyDir \notin {}
    BY Zenon
  <2> QED
    BY <1>2, <1>3, <1>r, <2>1, AddDirFacts
<1>5. CASE r.mem = mem /\ HaltCause(r.err, mem)
  BY <1>1, <1>5, HaltStep, SameUserSelf, Zenon
<1>6. CASE r.err = "no" /\ NewDirAt(mem, r.mem, page, {}, {}, HeldFrames)
  <2>1. /\ Good(mem', With({}, page), {}, HeldFrames, {}) /\ page \in Nat /\ page # 0 /\ page \notin DOMAIN mem.dirs
        /\ DOMAIN mem'.dirs = With(DOMAIN mem.dirs, page)
        /\ \A c \in DOMAIN mem.dirs : SameUser(mem, mem', c)
        /\ mem'.transient = mem.transient
    BY <1>1, <1>6, Zenon DEF NewDirAt
  <2>2. k' = Starting(page)
    BY <1>1, <1>6, Zenon
  <2>3. k' \in KType /\ k'.op = "clone" /\ k'.j = 0 /\ k'.frame = 0
    BY <2>1, <2>2, StartingFacts, Zenon
  <2>4. MemOk'
    <3>1. NewDirs' = With({}, page) /\ NewTables' = {} /\ Shown' = {} /\ InHand' = HeldFrames'
      BY <2>1, <2>2, StartingHand, Zenon
    <3>2. HeldFrames' = HeldFrames
      BY <1>1, Zenon DEF HeldFrames
    <3> QED
      BY <1>2, <2>1, <3>1, <3>2, Zenon DEF MemOk
  <2>5. CloneStep
    BY <1>1, <1>6, <2>1, <2>3, OpFacts, Zenon DEF CloneStep
  <2>6. TasksOk'
    <3>1. TasksOk /\ NewDirs' = {page}
      BY <2>1, <2>2, StartingHand, Zenon DEF RunningOk, With
    <3> QED
      BY <1>1, <1>2, <2>1, <2>3, <3>1, Zenon DEF TasksOk, TasksAt, With
  <2>7. CloneAt(mem', k', MyDir)
    BY <1>1, <1>6, <2>2, StartingClone, Zenon
  <2> QED
    BY <2>3, <2>4, <2>5, <2>6, <2>7, CloneStepFacts, OpFacts, Zenon
<1> QED
  BY <1>4, <1>5, <1>6, Zenon

(* At boot there is no task yet, and the boot directory is the only one. *)
LEMMA HaltAtBoot ==
    ASSUME current' = -1, HaltCause(halted', mem')
    PROVE  MemoryInv'
BY Zenon DEF HaltCause, HaltsOnlyOutOfMemory, KernelStackMapped, MemoryInv

LEMMA BootFacts ==
    ASSUME RunningOk, k.op = "boot"
    PROVE  current = -1 /\ next_pid = 0 /\ DOMAIN task = {} /\ MyDir = 0 /\ mem.dirs[0][USER_PDE_END] = 0
<1>1. current = -1 /\ next_pid = 0
  BY Zenon DEF RunningOk, CurrentOk
<1>2. DOMAIN task = {}
  <2>1. 0 .. next_pid - 1 = {}
    BY <1>1
  <2> QED
    BY <2>1, Zenon DEF RunningOk, TypesOk
<1>3. MyDir = 0
  BY <1>1, MyDirFacts, Zenon
<1>4. BootAt(mem, "boot")
  BY Zenon DEF RunningOk, BootOk
<1> QED
  BY <1>1, <1>2, <1>3, <1>4, Zenon DEF BootAt

(* The boot directory once the kernel stack is mapped in it. *)
LEMMA BootStacked ==
    ASSUME NEW m, BootAt(m, "boot"), NEW m1, SameUser(m, m1, 0), NEW m2, NEW frame,
           MapsAt(m1, m2, 0, KERNEL_STACK, Pte(frame, {"P", "W"})), NEW op, op # "boot"
    PROVE  BootAt(m2, op)
<1>1. EmptyBelow(m2, 0)
  BY LayoutFacts, Zenon DEF BootAt, EmptyBelow, MapsAt, SameUser
<1>2. NoUserStack(m2, 0)
  <2>1. va_info_ex(m2, 0, USER_STACK) = va_info_ex(m1, 0, USER_STACK)
    BY LayoutFacts, Zenon DEF MapsAt
  <2>2. ~Present(m1, 0, USER_STACK)
    BY SameUserView, LayoutFacts, Zenon DEF BootAt, NoUserStack
  <2> QED
    BY <2>1, <2>2, Zenon DEF NoUserStack, Present
<1>3. Stacked(m2, 0)
  BY DEF MapsAt, Pte, Stacked, vmm_get_flags, Present
<1> QED
  BY <1>1, <1>2, <1>3, Zenon DEF BootAt

LEMMA SchedulerStartStep ==
    ASSUME RunningOk, scheduler_start
    PROVE  MemoryInv'
<1> DEFINE a == pmm_alloc(mem.regions)
           m1 == WithRegions(mem, a.regions)
           r1 == vmm_map(m1, 0, KERNEL_STACK, a.frame, {"P", "W"})
           page == kmalloc_page(r1.mem)
           r == AddDir(kmalloc_a(r1.mem, MyDir), page)
<1>1. /\ k.op = "boot" /\ task' = task /\ current' = current /\ next_pid' = next_pid
      /\ ~GotFrame(a) => halted' = NoFrame(a) /\ mem' = mem
      /\ GotFrame(a) /\ r1.err # "no" => mem' = r1.mem /\ halted' = r1.err
      /\ GotFrame(a) /\ r1.err = "no" => mem' = r.mem /\ halted' = r.err /\ (r.err = "no" => k' = Starting(page))
  BY Zenon DEF scheduler_start, BootClone, MapNewFrame, Fail, NoFrame, StartClone, Busy, Do, Starting
<1>2. /\ Good(mem, {}, {}, HeldFrames, {}) /\ DOMAIN mem.transient = {} /\ NewDirs = {} /\ k.frame = 0
  BY <1>1, PlainHand, OpFacts, Zenon
<1>3. /\ current = -1 /\ next_pid = 0 /\ DOMAIN task = {} /\ MyDir = 0 /\ mem.dirs[0][USER_PDE_END] = 0
      /\ 0 \in DOMAIN mem.dirs
  BY <1>1, BootFacts, MyDirFacts, Zenon
<1>a. AllocGives(mem.regions, a) \/ AllocFails(mem.regions, a)
  BY <1>2, AllocFacts, Zenon DEF Good
<1>r. r1 = vmm_map(m1, 0, KERNEL_STACK, a.frame, {"P", "W"}) /\ m1 = WithRegions(mem, a.regions)
      /\ page = kmalloc_page(r1.mem) /\ r = AddDir(kmalloc_a(r1.mem, MyDir), page)
  BY Zenon
<1> HIDE DEF r, r1, page, a, m1
<1>4. CASE AllocFails(mem.regions, a)
  <2>1. HaltCause(halted', mem')
    BY <1>1, <1>4, AllocHalt, Zenon
  <2> QED
    BY <1>1, <1>3, <2>1, HaltAtBoot, Zenon
<1>5. CASE AllocGives(mem.regions, a)
  <2>1. /\ Good(m1, {}, {}, With(HeldFrames, a.frame), {}) /\ SameUserHalf(mem, m1)
        /\ m1.transient = mem.transient /\ a.frame \notin HeldFrames /\ a.frame \in Nat /\ GotFrame(a)
    BY <1>2, <1>5, <1>r, GoodAlloc
  <2>2. m1.dirs = mem.dirs /\ 0 \in DOMAIN m1.dirs /\ SameUser(mem, m1, 0) /\ a.frame \in With(HeldFrames, a.frame)
    BY <1>2, <1>3, <2>1, SameHalfSameUser, Zenon DEF SameUserHalf, With
  <2>3. ~Present(m1, 0, KERNEL_STACK) /\ KERNEL_STACK \in Nat /\ Dir(KERNEL_STACK) \in UserPdes
        /\ {"P", "W"} \in SUBSET {"P", "W", "U"}
    BY <1>3, <2>2, LayoutFacts, Zenon DEF Present, va_info_ex, NoEntry
  <2>4. \/ /\ r1.err = "no" /\ Good(r1.mem, {}, {}, Without(With(HeldFrames, a.frame), a.frame), {})
           /\ MapsAt(m1, r1.mem, 0, KERNEL_STACK, Pte(a.frame, {"P", "W"}))
        \/ r1.mem = m1 /\ HaltCause(r1.err, m1)
    BY <1>r, <2>1, <2>2, <2>3, VmmMapFacts
  <2>5. CASE r1.mem = m1 /\ HaltCause(r1.err, m1)
    <3>1. r1.err # "no"
      BY <2>5, Zenon DEF HaltCause
    <3> QED
      BY <1>1, <1>3, <2>1, <2>5, <3>1, HaltAtBoot, Zenon
  <2>6. CASE /\ r1.err = "no" /\ Good(r1.mem, {}, {}, Without(With(HeldFrames, a.frame), a.frame), {})
             /\ MapsAt(m1, r1.mem, 0, KERNEL_STACK, Pte(a.frame, {"P", "W"}))
    <3>1. Good(r1.mem, {}, {}, HeldFrames, {}) /\ MyDir \in DOMAIN r1.mem.dirs /\ MyDir \notin {}
          /\ DOMAIN r1.mem.transient = {} /\ mem' = r.mem /\ halted' = r.err /\ (r.err = "no" => k' = Starting(page))
      <4>1. Without(With(HeldFrames, a.frame), a.frame) = HeldFrames
        BY <2>1, Zenon DEF With, Without
      <4> QED
        BY <1>1, <1>2, <1>3, <2>1, <2>2, <2>6, <4>1, Zenon DEF MapsAt
    <3>2. \/ r.err = "no" /\ NewDirAt(r1.mem, r.mem, page, {}, {}, HeldFrames)
          \/ r.mem = r1.mem /\ HaltCause(r.err, r1.mem)
      BY <1>r, <3>1, AddDirFacts
    <3>3. CASE r.mem = r1.mem /\ HaltCause(r.err, r1.mem)
      BY <1>1, <1>3, <3>1, <3>3, HaltAtBoot, Zenon
    <3>4. CASE r.err = "no" /\ NewDirAt(r1.mem, r.mem, page, {}, {}, HeldFrames)
      <4>1. /\ Good(mem', With({}, page), {}, HeldFrames, {}) /\ page \in Nat
            /\ SameUser(r1.mem, mem', 0)
            /\ mem'.transient = r1.mem.transient /\ k' = Starting(page)
        BY <1>3, <3>1, <3>4, Zenon DEF NewDirAt
      <4>2. k' \in KType /\ k'.op = "clone" /\ k'.j = 0 /\ k'.frame = 0
        BY <4>1, StartingFacts, Zenon
      <4>3. MemOk'
        <5>1. NewDirs' = With({}, page) /\ NewTables' = {} /\ Shown' = {} /\ InHand' = HeldFrames'
          BY <4>1, StartingHand, Zenon
        <5>2. HeldFrames' = HeldFrames
          BY <1>1, Zenon DEF HeldFrames
        <5> QED
          BY <3>1, <4>1, <5>1, <5>2, Zenon DEF MemOk
      <4>4. TypesOk' /\ TasksOk' /\ PhasesOk'
        BY <1>1, <1>3, <4>2, OpFacts, Zenon DEF TypesOk, TasksOk, TasksAt, PhasesOk, RunningOk
      <4>5. CurrentOk'
        BY <1>1, <1>3, <4>2, OpFacts DEF CurrentOk
      <4>6. BootOk'
        <5>1. BootAt(mem, "boot")
          BY <1>1, Zenon DEF RunningOk, BootOk
        <5>2. BootAt(r1.mem, "clone")
          BY <2>2, <2>6, <5>1, BootStacked
        <5> QED
          BY <4>1, <4>2, <5>2, BootSame, Zenon DEF BootOk
      <4>7. OpOk'
        <5>1. CloneAt(mem', k', MyDir')
          BY <3>1, <3>4, <4>1, StartingClone, Zenon
        <5> QED
          BY <4>2, <5>1, OpFacts, Zenon DEF OpOk
      <4>8. RunningOk' /\ halted' = "no"
        BY <3>1, <3>4, <4>3, <4>4, <4>5, <4>6, <4>7, Zenon DEF RunningOk
      <4> QED
        BY <4>8, Zenon DEF MemoryInv
    <3> QED
      BY <3>2, <3>3, <3>4, Zenon
  <2> QED
    BY <2>4, <2>5, <2>6, Zenon
<1> QED
  BY <1>a, <1>4, <1>5, Zenon

-----------------------------------------------------------------------------
(* The end of a clone. *)

CloneEnds == k.op = "clone" /\ \A i \in UserPdes : i >= k.i => mem.dirs[MyDir][i] = 0

(* The child has the parent's pages, with the parent's flags. *)
LEMMA CloneComplete ==
    ASSUME RunningOk, CloneEnds
    PROVE  /\ k.dir \in DOMAIN mem.dirs /\ k.dir # 0
           /\ \A i \in UserPdes : SameFlags(mem, i, MyDir, k.dir)
<1>1. CloneAt(mem, k, MyDir) /\ k.i \in Nat
  BY OpFacts, Zenon DEF CloneEnds, RunningOk, OpOk, TypesOk, KType
<1>2. ASSUME NEW i \in UserPdes
      PROVE  SameFlags(mem, i, MyDir, k.dir)
  <2>1. CASE i < k.i
    BY <1>1, <2>1, Zenon DEF CloneAt
  <2>2. CASE i >= k.i
    <3>1. mem.dirs[MyDir][i] = 0 /\ mem.dirs[k.dir][i] = 0
      BY <1>1, <2>2, Zenon DEF CloneAt, CloneEnds
    <3> QED
      BY <3>1, Zenon DEF SameFlags
  <2> QED
    BY <1>1, <2>1, <2>2 DEF UserPdes
<1> QED
  BY <1>1, <1>2, Zenon DEF CloneAt

LEMMA SameFlagsView ==
    ASSUME NEW m, NEW c, NEW d, NEW p \in Nat, Dir(p) \in UserPdes, SameFlags(m, Dir(p), c, d)
    PROVE  vmm_get_flags(m, d, p) = vmm_get_flags(m, c, p)
<1>1. Idx(p) \in Ptes
  BY PageFacts, Zenon
<1>2. \A x : vmm_get_flags(m, x, p) = ShownFlags(va_info_ex(m, x, p))
  BY Zenon DEF vmm_get_flags, Present, ShownFlags
<1>3. CASE m.dirs[c][Dir(p)] = 0
  BY <1>2, <1>3, Zenon DEF SameFlags, va_info_ex
<1>4. CASE m.dirs[c][Dir(p)] # 0
  BY <1>1, <1>2, <1>4, Zenon DEF SameFlags, va_info_ex
<1> QED
  BY <1>3, <1>4, Zenon

LEMMA ChildView ==
    ASSUME RunningOk, CloneEnds
    PROVE  /\ Stacked(mem, MyDir) => Stacked(mem, k.dir)
           /\ NoUserStack(mem, MyDir) => NoUserStack(mem, k.dir)
           /\ EmptyBelow(mem, MyDir) => EmptyBelow(mem, k.dir)
<1>1. \A p \in Nat : Dir(p) \in UserPdes => vmm_get_flags(mem, k.dir, p) = vmm_get_flags(mem, MyDir, p)
  BY CloneComplete, SameFlagsView, Zenon
<1>2. vmm_get_flags(mem, k.dir, KERNEL_STACK) = vmm_get_flags(mem, MyDir, KERNEL_STACK)
      /\ vmm_get_flags(mem, k.dir, USER_STACK) = vmm_get_flags(mem, MyDir, USER_STACK)
  BY <1>1, LayoutFacts, Zenon
<1>3. EmptyBelow(mem, MyDir) => EmptyBelow(mem, k.dir)
  BY CloneComplete, LayoutFacts, Zenon DEF EmptyBelow, SameFlags
<1>4. NoUserStack(mem, MyDir) => NoUserStack(mem, k.dir)
  BY <1>2, Zenon DEF NoUserStack, vmm_get_flags, Present
<1> QED
  BY <1>2, <1>3, <1>4, Zenon DEF Stacked

(* The new task. *)
ChildPhase ==
    IF next_pid <= IdleTask THEN "kernel" ELSE IF current = KernelTask THEN "load" ELSE "user"
ChildLoad == IF ChildPhase = "load" THEN LoadOf(InitImage) ELSE NoLoad

ChildOk(child) ==
    /\ child \in TaskType /\ child.dir = k.dir /\ child.held = 0
    /\ PhaseAt(mem, child, "none")

LEMMA ChildFacts ==
    ASSUME RunningOk, CloneEnds, NEW child,
           child = [dir |-> k.dir, phase |-> ChildPhase, held |-> 0, load |-> ChildLoad]
    PROVE  ChildOk(child)
<1>1. child.dir = k.dir /\ child.phase = ChildPhase /\ child.held = 0 /\ child.load = ChildLoad
  BY Zenon
<1>2. /\ Stacked(mem, MyDir) => Stacked(mem, k.dir)
      /\ NoUserStack(mem, MyDir) => NoUserStack(mem, k.dir)
      /\ EmptyBelow(mem, MyDir) => EmptyBelow(mem, k.dir)
  BY ChildView, Zenon
<1>3. k.dir \in Nat /\ next_pid \in Nat /\ CurrentOk /\ k.op = "clone"
  BY Zenon DEF RunningOk, TypesOk, KType, CloneEnds
<1>4. CASE next_pid <= IdleTask
  <2>1. ChildPhase = "kernel" /\ ChildLoad = NoLoad
    BY <1>4, Zenon DEF ChildPhase, ChildLoad
  <2>2. current = -1
    BY <1>3, <1>4 DEF CurrentOk, IdleTask
  <2>3. MyDir = 0 /\ BootAt(mem, "clone")
    BY <1>3, <2>2, MyDirFacts, Zenon DEF RunningOk, BootOk
  <2>4. Stacked(mem, k.dir) /\ NoUserStack(mem, k.dir) /\ EmptyBelow(mem, k.dir)
    BY <1>2, <2>3, Zenon DEF BootAt
  <2>5. PhaseAt(mem, child, "none")
    BY <1>1, <2>1, <2>4, OpFacts, Zenon DEF PhaseAt
  <2>6. child \in TaskType
    BY <1>3, <2>1, NoLoadType, Zenon DEF TaskType
  <2> QED
    BY <1>1, <2>5, <2>6, Zenon DEF ChildOk
<1>5. CASE ~(next_pid <= IdleTask)
  <2>1. current # -1
    BY <1>3, <1>5 DEF CurrentOk, IdleTask
  <2>2. current \in DOMAIN task /\ MyDir = task[current].dir /\ Stacked(mem, k.dir)
    BY <1>2, <2>1, MyDirFacts, Zenon
  <2>3. CASE current = KernelTask
    <3>1. ChildPhase = "load" /\ ChildLoad = LoadOf(InitImage)
      BY <1>5, <2>3, Zenon DEF ChildPhase, ChildLoad
    <3>2. task[current].phase = "kernel"
      <4>1. next_pid > 0
        BY <1>3, <1>5 DEF IdleTask
      <4> QED
        BY <1>3, <2>3, <4>1, Zenon DEF CurrentOk
    <3>3. NoUserStack(mem, MyDir) /\ EmptyBelow(mem, MyDir)
      <4>1. PhaseAt(mem, task[current], OpOf(current))
        BY <2>2, Zenon DEF RunningOk, PhasesOk
      <4> QED
        BY <2>2, <3>2, <4>1, Zenon DEF PhaseAt
    <3>4. LoadOk(LoadOf(InitImage)) /\ Loaded(mem, k.dir, LoadOf(InitImage)) /\ LoadOf(InitImage) \in LoadType
      BY <1>2, <3>3, LoadStart, ProgramAssumption, Zenon
    <3>5. PhaseAt(mem, child, "none")
      BY <1>1, <1>2, <2>2, <3>1, <3>3, <3>4, OpFacts, Zenon DEF PhaseAt
    <3>6. child \in TaskType
      BY <1>3, <3>1, <3>4, Zenon DEF TaskType
    <3> QED
      BY <1>1, <3>5, <3>6, Zenon DEF ChildOk
  <2>4. CASE current # KernelTask
    <3>1. ChildPhase = "user" /\ ChildLoad = NoLoad
      BY <1>5, <2>4, Zenon DEF ChildPhase, ChildLoad
    <3>2. PhaseAt(mem, child, "none")
      BY <1>1, <2>2, <3>1, OpFacts, Zenon DEF PhaseAt
    <3>3. child \in TaskType
      BY <1>3, <3>1, NoLoadType, Zenon DEF TaskType
    <3> QED
      BY <1>1, <3>2, <3>3, Zenon DEF ChildOk
  <2> QED
    BY <2>3, <2>4, Zenon
<1> QED
  BY <1>4, <1>5, Zenon

LEMMA PutFacts ==
    ASSUME NEW f, NEW x, x \notin DOMAIN f, NEW e, NEW g, g = Put(f, x, e)
    PROVE  /\ DOMAIN g = DOMAIN f \cup {x} /\ g[x] = e
           /\ \A y \in DOMAIN f : g[y] = f[y]
BY Zenon DEF Put

(* A task is added; k' is idle, or the start of another clone. *)
AddsTask(child) ==
    /\ task' = Put(task, next_pid, child) /\ next_pid' = next_pid + 1
    /\ \A c \in DOMAIN mem.dirs : SameUser(mem, mem', c)
    /\ DOMAIN mem.dirs \subseteq DOMAIN mem'.dirs
    /\ k' \in KType /\ k'.op \in {"none", "clone"} /\ k'.frame = 0
    /\ NewDirs' \cap DOMAIN mem.dirs = {}
    /\ current' \in {current, KernelTask}

LEMMA AddTaskFacts ==
    ASSUME RunningOk, CloneEnds, NEW child, ChildOk(child), AddsTask(child)
    PROVE  /\ TypesOk' /\ TasksOk' /\ PhasesOk' /\ BootOk' /\ HeldFrames' = HeldFrames
           /\ DOMAIN task' = DOMAIN task \cup {next_pid} /\ task'[next_pid] = child
           /\ \A p \in DOMAIN task : task'[p] = task[p]
<1>1. /\ next_pid \in Nat /\ DOMAIN task \subseteq 0 .. next_pid - 1
      /\ \A p \in DOMAIN task : task[p] \in TaskType
  BY Zenon DEF RunningOk, TypesOk
<1>2. next_pid \notin DOMAIN task
  BY <1>1
<1>3. /\ DOMAIN task' = DOMAIN task \cup {next_pid} /\ task'[next_pid] = child
      /\ \A p \in DOMAIN task : task'[p] = task[p]
  <2>1. task' = Put(task, next_pid, child)
    BY Zenon DEF AddsTask
  <2>2. DOMAIN task' = DOMAIN task \cup {next_pid}
    BY <2>1, Zenon DEF Put
  <2>3. task'[next_pid] = child
    BY <2>1, Zenon DEF Put
  <2>4. \A p \in DOMAIN task : task'[p] = task[p]
    BY <1>2, <2>1, Zenon DEF Put
  <2> QED
    BY <2>2, <2>3, <2>4, Zenon
<1>4. child \in TaskType /\ child.dir = k.dir /\ child.held = 0 /\ PhaseAt(mem, child, "none")
  BY Zenon DEF ChildOk
<1>5. k.dir \in DOMAIN mem.dirs /\ k.dir # 0 /\ NewDirs = {k.dir}
  <2>1. k.op \in CloneOps
    BY OpFacts, Zenon DEF CloneEnds
  <2> QED
    BY <2>1, CloneComplete, Zenon DEF NewDirs
<1>6. TypesOk'
  <2>1. next_pid + 1 \in Nat /\ \A p \in DOMAIN task \cup {next_pid} : p \in 0 .. (next_pid + 1) - 1
    BY <1>1
  <2>2. k' \in KType /\ k'.frame = 0 /\ k'.op \notin PageOps /\ next_pid' = next_pid + 1
    BY Zenon DEF AddsTask, PageOps
  <2>3. \A p \in DOMAIN task \cup {next_pid} : task'[p] \in TaskType
    BY <1>1, <1>3, <1>4, Zenon
  <2> QED
    BY <1>3, <2>1, <2>2, <2>3, Zenon DEF TypesOk
<1>7. TasksOk'
  <2>1. TasksAt(task, mem.dirs, {k.dir}, k.frame)
    BY <1>5, Zenon DEF RunningOk, TasksOk
  <2>2. DOMAIN mem.dirs \subseteq DOMAIN mem'.dirs /\ NewDirs' \cap DOMAIN mem.dirs = {} /\ k'.frame = 0
    BY Zenon DEF AddsTask
  <2>3. \A p \in DOMAIN task' : p = next_pid \/ (p \in DOMAIN task /\ task'[p] = task[p])
    BY <1>3, Zenon
  <2>4. \A p \in DOMAIN task' : task'[p].dir \in DOMAIN mem.dirs /\ task'[p].dir # 0
    BY <1>3, <1>4, <1>5, <2>1, <2>3, Zenon DEF TasksAt
  <2>5. \A p, q \in DOMAIN task' : task'[p].dir = task'[q].dir => p = q
    BY <1>3, <1>4, <2>1, <2>3 DEF TasksAt
  <2>6. \A p, q \in DOMAIN task' : task'[p].held = task'[q].held /\ task'[p].held # 0 => p = q
    BY <1>3, <1>4, <2>1, <2>3, Zenon DEF TasksAt
  <2> QED
    BY <2>2, <2>4, <2>5, <2>6, Zenon DEF TasksOk, TasksAt
<1>8. PhasesOk'
  <2> SUFFICES ASSUME NEW p \in DOMAIN task'
               PROVE  PhaseAt(mem', task'[p], OpOf(p)')
    BY Zenon DEF PhasesOk
  <2>0. OpOf(p)' \notin ExecOps
    BY OpFacts, Zenon DEF OpOf, AddsTask
  <2>1. CASE p = next_pid
    <3>1. SameUser(mem, mem', child.dir)
      BY <1>4, <1>5, Zenon DEF AddsTask
    <3>2. PhaseAt(mem', child, "none")
      BY <1>4, <3>1, PhaseSame, Zenon
    <3> QED
      BY <1>3, <2>0, <2>1, <3>2, PhaseOtherOp, OpFacts, Zenon
  <2>2. CASE p \in DOMAIN task
    <3>1. PhaseAt(mem, task[p], OpOf(p)) /\ OpOf(p) \notin ExecOps
      BY <2>2, OpFacts, Zenon DEF RunningOk, PhasesOk, OpOf, CloneEnds
    <3>2. SameUser(mem, mem', task[p].dir)
      BY <2>2, Zenon DEF RunningOk, TasksOk, TasksAt, AddsTask
    <3>3. PhaseAt(mem', task[p], OpOf(p))
      BY <3>1, <3>2, PhaseSame, Zenon
    <3>4. PhaseAt(mem', task[p], OpOf(p)')
      BY <2>0, <3>1, <3>3, PhaseOtherOp, Zenon
    <3> QED
      BY <1>3, <2>2, <3>4, Zenon
  <2> QED
    BY <1>3, <2>1, <2>2, Zenon
<1>9. BootOk'
  <2>1. BootAt(mem, "clone") /\ SameUser(mem, mem', 0)
    BY MyDirFacts, Zenon DEF RunningOk, BootOk, CloneEnds, AddsTask
  <2>2. BootAt(mem', "clone")
    BY <2>1, BootSame, Zenon
  <2>3. k'.op # "boot"
    BY Zenon DEF AddsTask
  <2> QED
    BY <2>2, <2>3, Zenon DEF BootOk, BootAt
<1>10. HeldFrames' = HeldFrames
  <2>1. \A p \in DOMAIN task' : p = next_pid \/ (p \in DOMAIN task /\ task'[p] = task[p])
    BY <1>3, Zenon
  <2> QED
    BY <1>3, <1>4, <2>1, Zenon DEF HeldFrames
<1> QED
  BY <1>3, <1>6, <1>7, <1>8, <1>9, <1>10, Zenon

LEMMA CloneDoneStep ==
    ASSUME RunningOk, clone_done
    PROVE  MemoryInv' /\ CloneEnds /\ \A c \in DOMAIN mem.dirs : SameUser(mem, mem', c)
<1> DEFINE m == vmm_copy_kernel_mappings(mem, MyDir, k.dir)
           child == [dir |-> k.dir, phase |-> ChildPhase, held |-> 0, load |-> ChildLoad]
           page == kmalloc_page(m)
           r == AddDir(kmalloc_a(m, MyDir), page)
<1>1. /\ CloneEnds /\ task' = Put(task, next_pid, child) /\ next_pid' = next_pid + 1 /\ halted = "no"
      /\ next_pid = 0 => /\ mem' = r.mem /\ halted' = r.err /\ current' = current
                         /\ r.err = "no" => k' = Starting(page)
      /\ next_pid # 0 => mem' = m /\ k' = Idle /\ halted' = "no"
      /\ next_pid = 1 => current' = KernelTask
      /\ next_pid # 1 => current' = current
  BY DEF clone_done, Busy, StartClone, Do, CloneEnds, NewTask, ChildPhase, ChildLoad, Starting, KernelTask, IdleTask
<1>2. /\ Good(mem, NewDirs, NewTables, HeldFrames, {}) /\ DOMAIN mem.transient = {} /\ k.frame = 0
      /\ NewDirs = {k.dir} /\ NewTables = {} /\ next_pid \in Nat
  <2>1. k.op = "clone"
    BY <1>1, Zenon DEF CloneEnds
  <2>2. k.frame = 0 /\ next_pid \in Nat
    BY <2>1, OpFacts, Zenon DEF RunningOk, TypesOk
  <2>3. NewDirs = {k.dir} /\ NewTables = {} /\ Shown = {} /\ InHand = HeldFrames
    BY <2>1, <2>2, OpFacts, Zenon DEF NewDirs, NewTables, Shown, InHand
  <2> QED
    BY <2>2, <2>3, Zenon DEF RunningOk, MemOk
<1>3. MyDir \in DOMAIN mem.dirs /\ MyDir \notin NewDirs /\ k.dir \in DOMAIN mem.dirs
  BY <1>1, MyDirFacts, CloneComplete, Zenon
<1>c. ChildOk(child)
  BY <1>1, ChildFacts, Zenon
<1>r. m = vmm_copy_kernel_mappings(mem, MyDir, k.dir) /\ page = kmalloc_page(m)
      /\ r = AddDir(kmalloc_a(m, MyDir), page)
  BY Zenon
<1> HIDE DEF r, page, m, child
<1>4. Good(m, Without(NewDirs, k.dir), NewTables, HeldFrames, {}) /\ SameUserAll(mem, m)
  BY <1>2, <1>3, <1>r, CopyFacts, Zenon
<1>5. Good(m, {}, {}, HeldFrames, {})
  <2>1. Without(NewDirs, k.dir) = {}
    BY <1>2, Zenon DEF Without
  <2> QED
    BY <1>2, <1>4, <2>1, Zenon
<1>6. /\ DOMAIN m.dirs = DOMAIN mem.dirs /\ DOMAIN m.transient = {}
      /\ \A c \in DOMAIN mem.dirs : SameUser(mem, m, c)
  BY <1>2, <1>4, Zenon DEF SameUserAll
<1>o. CurrentOk /\ DOMAIN task \subseteq 0 .. next_pid - 1
  BY Zenon DEF RunningOk, TypesOk
<1>7. CASE next_pid = 0
  <2>0. current = -1 /\ MyDir \in DOMAIN m.dirs /\ MyDir \notin {} /\ MyDir' = 0
    <3>1. current = -1
      BY <1>7, <1>o DEF CurrentOk
    <3>2. -1 \notin DOMAIN task'
      <4>1. next_pid \notin DOMAIN task
        BY <1>2, <1>o
      <4>2. DOMAIN task' = DOMAIN task \cup {next_pid}
        BY <1>1, <4>1, PutFacts, Zenon
      <4> QED
        BY <1>7, <1>o, <4>2
    <3> QED
      BY <1>1, <1>3, <1>6, <1>7, <3>1, <3>2, Zenon DEF MyDir
  <2>1. \/ r.err = "no" /\ NewDirAt(m, r.mem, page, {}, {}, HeldFrames)
        \/ r.mem = m /\ HaltCause(r.err, m)
    BY <1>5, <1>r, <2>0, AddDirFacts
  <2>2. CASE r.mem = m /\ HaltCause(r.err, m)
    <3>1. mem' = m /\ MemoryInv'
      BY <1>1, <1>7, <2>0, <2>2, HaltAtBoot, Zenon
    <3> QED
      BY <1>1, <1>6, <3>1, Zenon
  <2>3. CASE r.err = "no" /\ NewDirAt(m, r.mem, page, {}, {}, HeldFrames)
    <3>1. /\ Good(mem', With({}, page), {}, HeldFrames, {}) /\ page \in Nat /\ page \notin DOMAIN mem.dirs
          /\ DOMAIN mem'.dirs = With(DOMAIN mem.dirs, page)
          /\ \A c \in DOMAIN mem.dirs : SameUser(m, mem', c)
          /\ DOMAIN mem'.transient = {} /\ k' = Starting(page)
      BY <1>1, <1>6, <1>7, <2>3, Zenon DEF NewDirAt
    <3>2. k' \in KType /\ k'.op = "clone" /\ k'.j = 0 /\ k'.frame = 0
      BY <3>1, StartingFacts, Zenon
    <3>3. NewDirs' = With({}, page) /\ NewTables' = {} /\ Shown' = {} /\ InHand' = HeldFrames'
      BY <3>1, StartingHand, Zenon
    <3>4. AddsTask(child)
      <4>1. \A c \in DOMAIN mem.dirs : SameUser(mem, mem', c)
        BY <1>6, <3>1, SameUserTwice, Zenon
      <4> QED
        BY <1>1, <1>7, <3>1, <3>2, <3>3, <4>1, Zenon DEF AddsTask, With
    <3>5. /\ TypesOk' /\ TasksOk' /\ PhasesOk' /\ BootOk' /\ HeldFrames' = HeldFrames
          /\ DOMAIN task' = DOMAIN task \cup {next_pid} /\ task'[next_pid] = child
      BY <1>1, <1>c, <3>4, AddTaskFacts, Zenon
    <3>6. MemOk'
      BY <3>1, <3>3, <3>5, Zenon DEF MemOk
    <3>7. CurrentOk'
      <4>1. child.phase = "kernel"
        BY <1>7 DEF child, ChildPhase, IdleTask
      <4>2. current' = -1 /\ next_pid' = 1 /\ k'.op = "clone"
        BY <1>1, <1>7, <2>0, <3>2
      <4> QED
        BY <1>7, <3>5, <4>1, <4>2, OpFacts DEF CurrentOk, KernelTask
    <3>8. OpOk'
      <4>1. CloneAt(mem', k', MyDir')
        BY <1>1, <1>7, <2>3, <3>1, StartingClone, Zenon
      <4> QED
        BY <3>2, <4>1, OpFacts, Zenon DEF OpOk
    <3>9. RunningOk' /\ halted' = "no"
      BY <1>1, <1>7, <2>3, <3>5, <3>6, <3>7, <3>8, Zenon DEF RunningOk
    <3> QED
      BY <1>1, <3>4, <3>9, Zenon DEF MemoryInv, AddsTask
  <2> QED
    BY <2>1, <2>2, <2>3, Zenon
<1>8. CASE next_pid # 0
  <2>1. mem' = m /\ k' = Idle /\ halted' = "no"
    BY <1>1, <1>8, Zenon
  <2>2. k' \in KType /\ k'.op = "none" /\ k'.frame = 0
    BY <2>1, Zenon DEF Idle, KType, Ops
  <2>3. NewDirs' = {} /\ NewTables' = {} /\ Shown' = {} /\ InHand' = HeldFrames'
    BY <2>2, OpFacts, Zenon DEF NewDirs, NewTables, Shown, InHand, TableOps, PageOps
  <2>4. AddsTask(child)
    BY <1>1, <1>6, <2>1, <2>2, <2>3, Zenon DEF AddsTask
  <2>5. /\ TypesOk' /\ TasksOk' /\ PhasesOk' /\ BootOk' /\ HeldFrames' = HeldFrames
        /\ DOMAIN task' = DOMAIN task \cup {next_pid} /\ task'[next_pid] = child
        /\ \A p \in DOMAIN task : task'[p] = task[p]
    BY <1>1, <1>c, <2>4, AddTaskFacts, Zenon
  <2>6. MemOk'
    BY <1>5, <1>6, <2>1, <2>3, <2>5, Zenon DEF MemOk
  <2>7. CurrentOk'
    <3>1. KernelTask \in DOMAIN task /\ task[KernelTask].phase = "kernel"
      BY <1>2, <1>8, <1>o DEF CurrentOk
    <3>2. KernelTask \in DOMAIN task' /\ task'[KernelTask].phase = "kernel"
      BY <2>5, <3>1, Zenon
    <3>3. current' \in DOMAIN task' /\ task'[current'].phase # "exited" /\ current' # -1
      <4>1. CASE next_pid = 1
        BY <1>1, <3>2, <4>1 DEF KernelTask
      <4>2. CASE next_pid # 1
        <5>1. current # -1
          BY <1>2, <1>8, <1>o, <4>2 DEF CurrentOk
        <5>2. current \in DOMAIN task /\ task[current].phase # "exited"
          BY <1>o, <5>1, Zenon DEF CurrentOk
        <5> QED
          BY <1>1, <2>5, <4>2, <5>1, <5>2, Zenon
      <4> QED
        BY <4>1, <4>2, Zenon
    <3>4. next_pid' >= 2 /\ next_pid' # 0
      BY <1>1, <1>2, <1>8
    <3> QED
      BY <2>2, <3>2, <3>3, <3>4, Zenon DEF CurrentOk
  <2>8. OpOk'
    BY <2>2, OpFacts, Zenon DEF OpOk
  <2>9. RunningOk'
    BY <2>5, <2>6, <2>7, <2>8, Zenon DEF RunningOk
  <2> QED
    BY <1>1, <1>6, <2>1, <2>9, Zenon DEF MemoryInv
<1> QED
  BY <1>7, <1>8, Zenon

-----------------------------------------------------------------------------
(* The list that pmm_init builds. *)

EntryType0 == [addr : Nat, len : Nat, available : BOOLEAN, high : BOOLEAN]
Usable(entry) == entry.available /\ ~entry.high

NewRegion(entry) == [addr |-> AlignedPage(entry.addr), len |-> AlignedPages(entry.addr, entry.len),
                     bitmap |-> bitset_init(AlignedPages(entry.addr, entry.len))]

(* One round of the loop. *)
Round(map, i, before) == IF Usable(map[i]) THEN <<NewRegion(map[i])>> \o before ELSE before

(* g is the list after each of the first n rounds. *)
Rounds(map, n, g) == g = [i \in 0 .. n |-> IF i = 0 THEN << >> ELSE Round(map, i, g[i - 1])]

LEMMA RoundsExist ==
    ASSUME NEW map, NEW n \in Nat
    PROVE  \E g : Rounds(map, n, g)
<1> DEFINE S == {m \in 0 .. n : ~ \E g : Rounds(map, m, g)}
           R == OpToRel(<, Nat)
<1>1. SUFFICES ASSUME S # {}
               PROVE  FALSE
  OBVIOUS
<1>2. PICK m \in S : \A y \in S : m <= y
  <2>1. S \in SUBSET (0 .. n)
    BY Zenon
  <2> HIDE DEF S
  <2> QED
    BY <1>1, <2>1, LeastFacts, Zenon
<1>3. m \in 0 .. n /\ ~ \E g : Rounds(map, m, g)
  BY Zenon
<1>4. CASE m = 0
  <2> DEFINE g == [i \in {0} |-> << >>]
  <2>1. 0 .. 0 = {0}
    OBVIOUS
  <2>2. g = [i \in 0 .. m |-> IF i = 0 THEN << >> ELSE Round(map, i, g[i - 1])]
    BY <1>4, <2>1, Zenon
  <2> QED
    BY <1>3, <2>2, Zenon DEF Rounds
<1>5. CASE m # 0
  <2>1. m - 1 \in 0 .. n /\ ~(m <= m - 1)
    BY <1>3, <1>5
  <2>2. PICK g : Rounds(map, m - 1, g)
    BY <1>2, <2>1, Zenon
  <2> DEFINE h == [i \in 0 .. m |-> IF i = m THEN Round(map, m, g[m - 1]) ELSE g[i]]
  <2>3. \A i \in 0 .. m : i # m => i \in 0 .. m - 1
    BY <1>3
  <2>4. \A i \in 0 .. m - 1 : g[i] = IF i = 0 THEN << >> ELSE Round(map, i, g[i - 1])
    BY <2>2, Zenon DEF Rounds
  <2>5. \A i \in 0 .. m : i # 0 => h[i - 1] = g[i - 1]
    BY <1>3
  <2>6. ASSUME NEW i \in 0 .. m
        PROVE  h[i] = IF i = 0 THEN << >> ELSE Round(map, i, h[i - 1])
    <3>1. CASE i = m
      BY <1>5, <2>5, <3>1, Zenon
    <3>2. CASE i # m
      BY <2>3, <2>4, <2>5, <3>2, Zenon
    <3> QED
      BY <3>1, <3>2, Zenon
  <2>7. h = [i \in 0 .. m |-> IF i = 0 THEN << >> ELSE Round(map, i, h[i - 1])]
    BY <2>6, Zenon
  <2> QED
    BY <1>3, <2>7, Zenon DEF Rounds
<1> QED
  BY <1>4, <1>5, Zenon

LEMMA PmmInitRounds ==
    ASSUME NEW map, Len(map) \in Nat
    PROVE  \E g : Rounds(map, Len(map), g) /\ pmm_init(map) = g[Len(map)]
<1> DEFINE n == Len(map)
           f[i \in 0 .. n] ==
             IF i = 0 THEN << >>
             ELSE IF map[i].available /\ ~map[i].high
                  THEN add_region(f[i - 1], map[i].addr, map[i].len)
                  ELSE f[i - 1]
<1>1. pmm_init(map) = f[n]
  BY Zenon DEF pmm_init
<1>2. \A g : Rounds(map, n, g) <=>
        g = [i \in 0 .. n |-> IF i = 0 THEN << >>
                              ELSE IF map[i].available /\ ~map[i].high
                                   THEN add_region(g[i - 1], map[i].addr, map[i].len)
                                   ELSE g[i - 1]]
  BY Zenon DEF Rounds, Round, Usable, NewRegion, add_region
<1>3. \E g : Rounds(map, n, g)
  BY RoundsExist, Zenon
<1>4. Rounds(map, n, f)
  BY <1>2, <1>3, Zenon
<1> HIDE DEF f
<1> QED
  BY <1>1, <1>4, Zenon

LEMMA NewRegionFacts ==
    ASSUME NEW entry \in EntryType0
    PROVE  /\ NewRegion(entry) \in RegionType /\ Pages(NewRegion(entry)) = EntryPages(entry)
           /\ NewRegion(entry).bitmap.size = NewRegion(entry).len /\ NewRegion(entry).bitmap.bits = {}
<1>0. entry.addr \in Nat /\ entry.len \in Nat /\ PAGE_SIZE \in Nat /\ PAGE_SIZE > 0 /\ UINT \in Nat /\ UINT > 0
  BY PmmAssumption DEF EntryType0
<1>1. AlignedPage(entry.addr) \in Nat
  BY <1>0 DEF AlignedPage
<1> DEFINE x == entry.len - (AlignedPage(entry.addr) * PAGE_SIZE - entry.addr)
<1>2. x \in Int
  BY <1>0, <1>1
<1> HIDE DEF x
<1>3. x % UINT \in Nat
  BY <1>0, <1>2
<1>4. (x % UINT) \div PAGE_SIZE \in Nat
  BY <1>0, <1>3
<1>5. AlignedPages(entry.addr, entry.len) \in Nat
  BY <1>4, Zenon DEF AlignedPages, x
<1>6. {} \in SUBSET Nat
  BY Zenon
<1> QED
  BY <1>1, <1>5, <1>6, Zenon DEF NewRegion, RegionType, bitset_init, Pages, EntryPages

(* After n rounds: a region for a different entry each. *)
ListAfter(map, n, list) ==
    /\ list \in Seq(RegionType)
    /\ \A r \in 1 .. Len(list) : \E j \in 1 .. n : list[r] = NewRegion(map[j])
    /\ \A r, s \in 1 .. Len(list) : \A p \in Pages(list[r]) : p \in Pages(list[s]) => r = s

LEMMA ListAfterRound ==
    ASSUME NEW map, MapOk(map), NEW n \in 1 .. Len(map), NEW list, ListAfter(map, n - 1, list)
    PROVE  ListAfter(map, n, Round(map, n, list))
<1>a. map \in Seq(EntryType0)
  BY Zenon DEF MapOk, EntryType0
<1>b. \A i, j \in 1 .. Len(map) : \A p \in EntryPages(map[i]) : p \in EntryPages(map[j]) => i = j
  BY Zenon DEF MapOk
<1>0. /\ Len(map) \in Nat /\ n \in Nat
      /\ \A i \in 1 .. Len(map) : map[i] \in EntryType0
  BY <1>a
<1>1. \A j \in 1 .. n - 1 : j \in 1 .. n /\ j # n /\ j \in 1 .. Len(map)
  BY <1>0
<1>2. CASE ~Usable(map[n])
  BY <1>1, <1>2, Zenon DEF ListAfter, Round
<1>3. CASE Usable(map[n])
  <2> DEFINE new == NewRegion(map[n])
             list2 == <<new>> \o list
  <2>1. new \in RegionType /\ Pages(new) = EntryPages(map[n])
    BY <1>0, NewRegionFacts, Zenon
  <2>2. list \in Seq(RegionType) /\ Len(list) \in Nat
    BY DEF ListAfter
  <2>c. new = NewRegion(map[n])
    BY Zenon
  <2> HIDE DEF new
  <2>3. /\ list2 \in Seq(RegionType) /\ Len(list2) = Len(list) + 1 /\ list2[1] = new
        /\ \A r \in 1 .. Len(list2) : r # 1 => r - 1 \in 1 .. Len(list) /\ list2[r] = list[r - 1]
    BY <2>1, <2>2
  <2>4. Round(map, n, list) = list2
    BY <1>3, Zenon DEF Round, new
  <2> HIDE DEF list2
  <2>5. \A r \in 1 .. Len(list2) : \E j \in 1 .. n : list2[r] = NewRegion(map[j])
    <3>1. ASSUME NEW r \in 1 .. Len(list2), r # 1
          PROVE  \E j \in 1 .. n : list2[r] = NewRegion(map[j])
      BY <1>1, <2>3, <3>1 DEF ListAfter
    <3> QED
      BY <1>0, <2>3, <2>c, <3>1
  <2>6. ASSUME NEW s \in 1 .. Len(list2), s # 1, NEW p, p \in Pages(list2[s])
        PROVE  p \notin Pages(new)
    <3>1. PICK j \in 1 .. n - 1 : list2[s] = NewRegion(map[j])
      BY <2>3, <2>6 DEF ListAfter
    <3>2. Pages(list2[s]) = EntryPages(map[j])
      BY <1>0, <1>1, <3>1, NewRegionFacts, Zenon
    <3>3. j \in 1 .. Len(map) /\ n \in 1 .. Len(map) /\ j # n
      BY <1>1, Zenon
    <3> QED
      BY <1>b, <2>1, <2>6, <3>2, <3>3, Zenon
  <2>7. ASSUME NEW r \in 1 .. Len(list2), NEW s \in 1 .. Len(list2), NEW p \in Pages(list2[r]), p \in Pages(list2[s])
        PROVE  r = s
    <3>1. CASE r = 1 \/ s = 1
      BY <2>3, <2>6, <2>7, <3>1, Zenon
    <3>2. CASE r # 1 /\ s # 1
      <4>1. r - 1 \in 1 .. Len(list) /\ s - 1 \in 1 .. Len(list) /\ list2[r] = list[r - 1] /\ list2[s] = list[s - 1]
        BY <2>3, <3>2, Zenon
      <4>2. r - 1 = s - 1
        BY <2>7, <4>1, Zenon DEF ListAfter
      <4> QED
        BY <4>2
    <3> QED
      BY <3>1, <3>2, Zenon
  <2> QED
    BY <2>3, <2>4, <2>5, <2>7, Zenon DEF ListAfter
<1> QED
  BY <1>2, <1>3, Zenon

(* The regions are disjoint, and nothing is reserved yet. *)
LEMMA PmmInitFacts ==
    ASSUME NEW map, MapOk(map)
    PROVE  /\ pmm_init(map) \in Seq(RegionType)
           /\ \A r \in Indexes(pmm_init(map)) :
                pmm_init(map)[r].bitmap.size = pmm_init(map)[r].len /\ pmm_init(map)[r].bitmap.bits = {}
           /\ \A r, s \in Indexes(pmm_init(map)) :
                \A p \in Pages(pmm_init(map)[r]) : p \in Pages(pmm_init(map)[s]) => r = s
<1> DEFINE n == Len(map)
<1>a. map \in Seq(EntryType0)
  BY Zenon DEF MapOk, EntryType0
<1>0. n \in Nat /\ \A i \in 1 .. n : map[i] \in EntryType0
  BY <1>a
<1>1. PICK g : Rounds(map, n, g) /\ pmm_init(map) = g[n]
  BY <1>0, PmmInitRounds, Zenon
<1>2. /\ g[0] = << >>
      /\ \A i \in 0 .. n : i # 0 => g[i] = Round(map, i, g[i - 1])
  BY <1>0, <1>1 DEF Rounds
<1> DEFINE S == {m \in 0 .. n : ~ListAfter(map, m, g[m])}
<1>3. S = {}
  <2>1. SUFFICES ASSUME S # {}
                 PROVE  FALSE
    BY Zenon
  <2>2. PICK m \in S : \A y \in S : m <= y
    <3>1. S \in SUBSET (0 .. n)
      BY Zenon
    <3> HIDE DEF S
    <3> QED
      BY <1>0, <2>1, <3>1, LeastFacts, Zenon
  <2>3. m \in 0 .. n /\ ~ListAfter(map, m, g[m])
    BY Zenon
  <2>4. CASE m = 0
    <3>1. << >> \in Seq(RegionType) /\ Len(<< >>) = 0 /\ 1 .. 0 = {}
      OBVIOUS
    <3>2. ListAfter(map, 0, << >>)
      BY <3>1, Zenon DEF ListAfter
    <3> QED
      BY <1>2, <2>3, <2>4, <3>2, Zenon
  <2>5. CASE m # 0
    <3>1. m - 1 \in 0 .. n /\ ~(m <= m - 1) /\ m \in 1 .. n
      BY <1>0, <2>3, <2>5
    <3>2. ListAfter(map, m - 1, g[m - 1])
      BY <2>2, <3>1, Zenon
    <3>3. ListAfter(map, m, Round(map, m, g[m - 1]))
      BY <3>1, <3>2, ListAfterRound, Zenon
    <3> QED
      BY <1>2, <2>3, <2>5, <3>3, Zenon
  <2> QED
    BY <2>4, <2>5, Zenon
<1>4. n \in 0 .. n
  BY <1>0
<1>5. ListAfter(map, n, pmm_init(map))
  BY <1>1, <1>3, <1>4, Zenon
<1>6. ASSUME NEW r \in Indexes(pmm_init(map))
      PROVE  pmm_init(map)[r].bitmap.size = pmm_init(map)[r].len /\ pmm_init(map)[r].bitmap.bits = {}
  <2>1. PICK j \in 1 .. n : pmm_init(map)[r] = NewRegion(map[j])
    BY <1>5, Zenon DEF ListAfter, Indexes
  <2> QED
    BY <1>0, <2>1, NewRegionFacts, Zenon
<1> QED
  BY <1>5, <1>6, Zenon DEF ListAfter, Indexes

-----------------------------------------------------------------------------
(* What vmm_init leaves. *)

LEMMA ReserveFacts ==
    ASSUME NEW map, MapOk(map), NEW regions, regions = ReserveKernel(pmm_init(map))
    PROVE  RegionsOk(regions) /\ \A f \in KernelFrames : f \in Managed(regions) => f \in Taken(regions)
<1> DEFINE old == pmm_init(map)
           bits(r) == {f - old[r].addr : f \in KernelFrames \cap Pages(old[r])}
<1>1. /\ old \in Seq(RegionType)
      /\ \A r \in Indexes(old) : old[r].bitmap.size = old[r].len
      /\ \A r, s \in Indexes(old) : \A p \in Pages(old[r]) : p \in Pages(old[s]) => r = s
  BY PmmInitFacts, Zenon
<1>2. regions = [r \in DOMAIN old |-> [old[r] EXCEPT !.bitmap.bits = bits(r)]]
  BY Zenon DEF ReserveKernel
<1> HIDE DEF old
<1>3. DOMAIN old = Indexes(old) /\ Len(old) \in Nat /\ Indexes(old) = 1 .. Len(old)
      /\ \A r \in Indexes(old) : old[r] \in RegionType
  BY <1>1 DEF Indexes
<1>4. ASSUME NEW r \in Indexes(old)
      PROVE  /\ bits(r) \subseteq 0 .. old[r].len - 1
             /\ \A f \in KernelFrames \cap Pages(old[r]) : f - old[r].addr \in bits(r)
  <2>1. old[r].addr \in Nat /\ old[r].len \in Nat
    BY <1>3, Zenon DEF RegionType
  <2> QED
    BY <2>1, KernelAssumption DEF Pages
<1> HIDE DEF bits
<1>5. ASSUME NEW r \in Indexes(old)
      PROVE  /\ regions[r] \in RegionType /\ Pages(regions[r]) = Pages(old[r])
             /\ regions[r].addr = old[r].addr /\ regions[r].len = old[r].len
             /\ regions[r].bitmap.size = regions[r].len /\ regions[r].bitmap.bits = bits(r)
  <2>1. regions[r] = [old[r] EXCEPT !.bitmap.bits = bits(r)] /\ old[r] \in RegionType /\ bits(r) \in SUBSET Nat
    BY <1>2, <1>3, <1>4 DEF RegionType
  <2> QED
    BY <1>1, <2>1, Zenon DEF RegionType, Pages
<1>6. regions \in Seq(RegionType) /\ Len(regions) = Len(old) /\ Indexes(regions) = Indexes(old)
  <2>1. regions \in [1 .. Len(old) -> RegionType]
    BY <1>2, <1>3, <1>5, Zenon
  <2> QED
    BY <1>3, <2>1 DEF Indexes
<1>7. RegionsOk(regions)
  BY <1>1, <1>4, <1>5, <1>6, Zenon DEF RegionsOk
<1>8. ASSUME NEW f \in KernelFrames, f \in Managed(regions)
      PROVE  f \in Taken(regions)
  <2>1. PICK r \in Indexes(regions) : f \in Pages(regions[r])
    BY <1>8, Zenon DEF Managed
  <2>2. TakenIn(regions[r], f)
    BY <1>4, <1>5, <1>6, <2>1 DEF TakenIn
  <2> QED
    BY <1>8, <2>2, Zenon DEF Taken
<1> QED
  BY <1>7, <1>8, Zenon

LEMMA BootHeapFacts ==
    /\ BootHeap \in Seq(Nat) /\ Len(BootHeap) = 2 /\ Range(BootHeap) \subseteq KernelFrames
    /\ BootHeap[1] \in Nat /\ BootHeap[2] \in Nat
<1> DEFINE K == KernelFrames \ {0}
<1>1. BootHeap \in Seq(K) /\ Len(BootHeap) = 2
  BY KernelAssumption, Zenon
<1>2. K \subseteq Nat /\ K \subseteq KernelFrames
  BY KernelAssumption, Zenon
<1> HIDE DEF K
<1>3. BootHeap \in [1 .. Len(BootHeap) -> K] /\ Len(BootHeap) \in Nat
  BY <1>1
<1>4. 1 \in 1 .. Len(BootHeap) /\ 2 \in 1 .. Len(BootHeap)
  BY <1>1
<1>5. BootHeap \in [1 .. Len(BootHeap) -> Nat]
  BY <1>2, <1>3, Zenon
<1>6. BootHeap \in Seq(Nat)
  BY <1>3, <1>5
<1>7. Range(BootHeap) \subseteq KernelFrames
  BY <1>2, <1>3, Zenon DEF Range
<1>8. BootHeap[1] \in Nat /\ BootHeap[2] \in Nat
  BY <1>4, <1>5, Zenon
<1> QED
  BY <1>1, <1>6, <1>7, <1>8, Zenon

LEMMA BootTableFacts ==
    /\ BootTable \in [Ptes -> EntryType]
    /\ \A i \in 0 .. 1 : /\ "P" \in BootTable[Idx(HeapStart + i)].flags
                         /\ BootTable[Idx(HeapStart + i)].frame = BootHeap[i + 1]
    /\ \A i \in 2 .. HeapMax - 1 : "P" \notin BootTable[Idx(HeapStart + i)].flags
<1>1. 0 \in 0 .. HeapMax - 1 /\ 1 \in 0 .. HeapMax - 1 /\ HeapStart + 0 = HeapStart /\ HeapMax \in Nat
  BY VmmAssumption, KernelAssumption
<1> DEFINE x == Idx(HeapStart)
           y == Idx(HeapStart + 1)
           a == BootHeap[1]
           b == BootHeap[2]
<1>2. x \in Ptes /\ y \in Ptes /\ x # y
  BY <1>1, HeapPageFacts
<1>3. \A i \in 2 .. HeapMax - 1 : Idx(HeapStart + i) \in Ptes /\ Idx(HeapStart + i) # x /\ Idx(HeapStart + i) # y
  <2>1. ASSUME NEW i \in 2 .. HeapMax - 1
        PROVE  i \in 0 .. HeapMax - 1 /\ i # 0 /\ i # 1
    BY <1>1
  <2> QED
    BY <1>1, <2>1, HeapPageFacts, Zenon
<1>4. a \in Nat /\ b \in Nat
  BY BootHeapFacts, Zenon
<1>5. EmptyTable \in [Ptes -> EntryType] /\ \A i \in Ptes : EmptyTable[i].flags = {}
  BY Zenon DEF EmptyTable, NoEntry, EntryType
<1>6. [frame |-> a, flags |-> {"P", "W"}] \in EntryType /\ [frame |-> b, flags |-> {"P", "W"}] \in EntryType
  BY <1>4, Zenon DEF EntryType
<1>7. BootTable = [[EmptyTable EXCEPT ![x] = [frame |-> a, flags |-> {"P", "W"}]]
                      EXCEPT ![y] = [frame |-> b, flags |-> {"P", "W"}]]
  BY Zenon DEF BootTable
<1> HIDE DEF x, y, a, b
<1>8. /\ BootTable \in [Ptes -> EntryType]
      /\ BootTable[x] = [frame |-> a, flags |-> {"P", "W"}] /\ BootTable[y] = [frame |-> b, flags |-> {"P", "W"}]
      /\ \A i \in Ptes : i # x /\ i # y => BootTable[i].flags = {}
  BY <1>2, <1>5, <1>6, <1>7, Zenon
<1>9. ASSUME NEW i \in 0 .. 1
      PROVE  /\ "P" \in BootTable[Idx(HeapStart + i)].flags
             /\ BootTable[Idx(HeapStart + i)].frame = BootHeap[i + 1]
  <2>1. CASE i = 0
    BY <1>1, <1>8, <2>1 DEF x, a
  <2>2. CASE i = 1
    BY <1>8, <2>2 DEF y, b
  <2> QED
    BY <2>1, <2>2
<1> QED
  BY <1>3, <1>8, <1>9, Zenon

LEMMA VmmInitFacts ==
    ASSUME NEW map, MapOk(map), NEW m, m = vmm_init(map)
    PROVE  /\ Good(m, {}, {}, {}, {}) /\ DOMAIN m.transient = {}
           /\ \A i \in UserPdes : m.dirs[0][i] = 0
<1> DEFINE regions == ReserveKernel(pmm_init(map))
           dir == [EmptyDir EXCEPT ![USER_PDE_END + 1] = KernelTable]
           heap == [size |-> 2, used |-> {0, 1}, frame |-> BootHeap]
<1>1. /\ m.regions = regions /\ m.dirs = [d \in {0} |-> dir] /\ m.tables = [t \in {KernelTable} |-> BootTable]
      /\ m.heap = heap /\ m.transient = << >> /\ MemType(m)
  BY Zenon DEF vmm_init, MemType, KernelTable
<1>2. RegionsOk(regions) /\ \A f \in KernelFrames : f \in Managed(regions) => f \in Taken(regions)
  BY ReserveFacts, Zenon
<1>3. KernelTable \in Nat \ {0} /\ USER_PDE_END + 1 \in KernelPdes /\ USER_PDE_END + 1 \notin UserPdes
  BY KernelTableFacts, VmmAssumption DEF UserPdes
<1>4. /\ dir \in [UserPdes \cup KernelPdes -> Nat]
      /\ \A i \in UserPdes : dir[i] = 0
      /\ \A i \in KernelPdes : dir[i] = KernelEntry(i)
  BY <1>3, Zenon DEF EmptyDir, KernelEntry
<1>5. /\ BootHeap \in Seq(Nat) /\ Len(BootHeap) = 2 /\ Range(BootHeap) \subseteq KernelFrames
      /\ HeapMax \in Nat /\ HeapMax >= 2
  BY BootHeapFacts, KernelAssumption, VmmAssumption, Zenon
<1> HIDE DEF regions, dir
<1>6. DOMAIN m.dirs = {0} /\ m.dirs[0] = dir /\ DOMAIN m.tables = {KernelTable} /\ m.tables[KernelTable] = BootTable
      /\ UserTabs(m.tables) = {} /\ DOMAIN m.transient = {}
  BY <1>1 DEF UserTabs
<1>7. TablesOk(m.dirs, m.tables)
  BY <1>3, <1>4, <1>6, BootTableFacts DEF TablesOk
<1>8. DirsOk(m.dirs, m.tables, {}, {})
  BY <1>4, <1>6, Zenon DEF DirsOk
<1>9. FramesOk(m.regions, m.tables, Range(m.heap.frame), {})
  <2>1. m.heap.frame = BootHeap
    BY <1>1
  <2> QED
    BY <1>1, <1>2, <1>5, <1>6, <2>1, Zenon DEF FramesOk
<1>10. HeapOk(m.dirs, m.tables, m.heap, m.transient, {})
  <2>1. heap \in HeapType /\ heap.size = 2 /\ heap.used = {0, 1} /\ heap.frame = BootHeap
    BY <1>5 DEF HeapType
  <2>2. 0 .. 2 - 1 = {0, 1} /\ 2 .. HeapMax - 1 = 2 .. HeapMax - 1 /\ 0 .. 1 = {0, 1}
    BY <1>5
  <2> HIDE DEF heap
  <2>3. ASSUME NEW i \in 0 .. heap.size - 1
        PROVE  /\ "P" \in m.tables[KernelTable][Idx(HeapStart + i)].flags
               /\ heap.frame[i + 1] = IF i \in DOMAIN m.transient THEN m.transient[i]
                                      ELSE m.tables[KernelTable][Idx(HeapStart + i)].frame
    BY <1>6, <2>1, <2>2, BootTableFacts, Zenon
  <2>4. ASSUME NEW i \in heap.size .. HeapMax - 1
        PROVE  "P" \notin m.tables[KernelTable][Idx(HeapStart + i)].flags
    BY <1>6, <2>1, BootTableFacts, Zenon
  <2>5. heap.used \subseteq 0 .. heap.size - 1 /\ Len(heap.frame) = heap.size
    BY <1>5, <2>1
  <2>6. heap.used = DOMAIN m.dirs \cup {1} \cup DOMAIN m.transient \cup {} /\ 1 \notin DOMAIN m.dirs
    BY <1>6, <2>1
  <2> QED
    BY <1>1, <1>6, <2>1, <2>3, <2>4, <2>5, <2>6, Zenon DEF HeapOk
<1> QED
  BY <1>1, <1>2, <1>4, <1>6, <1>7, <1>8, <1>9, <1>10, Zenon DEF Good
=============================================================================
