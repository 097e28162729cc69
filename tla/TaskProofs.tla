----------------------------- MODULE TaskProofs -----------------------------
EXTENDS VmmProofs

-----------------------------------------------------------------------------
(* A table goes, with the frames it maps. *)

(* A table goes, with all the frames it maps. *)
LEMMA FramesFree ==
    ASSUME NEW regions, NEW tables, NEW heapFrames, NEW H, RegionsOk(regions),
           FramesOk(regions, tables, heapFrames, H),
           NEW t \in UserTabs(tables), NEW other, UserTabs(other) = UserTabs(tables) \ {t},
           \A u \in UserTabs(other) : other[u] = tables[u]
    PROVE  FramesOk(FreeAll(regions, FramesOf(tables[t]) \cup {t}), other, heapFrames, H)
<1> DEFINE gone == FramesOf(tables[t]) \cup {t}
           after == FreeAll(regions, gone)
<1>1. Managed(after) = Managed(regions) /\ Taken(after) = Taken(regions) \ gone
  BY FreeAllFacts, Zenon
<1> HIDE DEF after
<1>2. \A u \in UserTabs(other) : other[u] = tables[u] /\ u \in UserTabs(tables) /\ u # t
  BY Zenon
<1>3. \A f \in gone : f = t \/ \E i \in Ptes : "P" \in tables[t][i].flags /\ tables[t][i].frame = f
  BY Zenon DEF FramesOf, PresentPtes
<1> HIDE DEF gone
<1>4. \A f \in gone : f \notin heapFrames \cup KernelFrames \cup H
  BY <1>3 DEF FramesOk, With, Without
<1>5. \A u \in UserTabs(other) : u \notin gone
  BY <1>2, <1>3 DEF FramesOk, With, Without
<1>6. \A u \in UserTabs(other) : \A j \in Ptes : "P" \in other[u][j].flags => other[u][j].frame \notin gone
  BY <1>2, <1>3 DEF FramesOk, With, Without
<1>7. \A u, v \in UserTabs(other) : \A j, l \in Ptes :
        "P" \in other[u][j].flags /\ "P" \in other[v][l].flags /\ other[u][j].frame = other[v][l].frame
            => u = v /\ j = l
  BY <1>2 DEF FramesOk, With, Without
<1>8. \A u \in UserTabs(other) : \A j \in Ptes :
        "P" \in other[u][j].flags =>
            /\ other[u][j].frame \in Taken(after)
            /\ other[u][j].frame \notin UserTabs(other) \cup heapFrames \cup KernelFrames \cup H
  BY <1>1, <1>2, <1>6 DEF FramesOk, With, Without
<1>9. UserTabs(other) \cup H \subseteq Taken(after)
  BY <1>1, <1>2, <1>4, <1>5, Zenon DEF FramesOk, With, Without
<1>10. \A f \in heapFrames \cup KernelFrames : f \in Managed(after) => f \in Taken(after)
  BY <1>1, <1>4, Zenon DEF FramesOk, With, Without
<1>12. \A u \in UserTabs(other) : u \notin heapFrames \cup KernelFrames \cup H
  BY <1>2, Zenon DEF FramesOk, With, Without
<1>13. \A f \in H : f \notin heapFrames \cup KernelFrames
  BY Zenon DEF FramesOk, With, Without
<1>14. FramesOk(after, other, heapFrames, H)
  BY <1>7, <1>8, <1>9, <1>10, <1>12, <1>13, Zenon DEF FramesOk, With, Without
<1> QED
  BY <1>14, Zenon DEF after, gone

(* ... and it can: nothing is freed twice. *)
LEMMA CanFreeFacts ==
    ASSUME NEW m, NEW N, NEW C, NEW H, NEW E, Good(m, N, C, H, E), NEW t \in UserTabs(m.tables)
    PROVE  CanFreeTable(m, t)
<1> DEFINE table == m.tables[t]
<1>1. \A i, j \in PresentPtes(table) : table[i].frame = table[j].frame => i = j
  BY Zenon DEF Good, FramesOk, PresentPtes, With, Without
<1>2. \A f \in FramesOf(table) \cup {t} : f \in Taken(m.regions)
  BY DEF Good, FramesOk, FramesOf, PresentPtes, With, Without
<1>3. t \notin FramesOf(table)
  BY DEF Good, FramesOk, FramesOf, PresentPtes, With, Without
<1>4. \A f \in FramesOf(table) \cup {t} : CanFree(m.regions, f)
  <2>1. RegionsOk(m.regions) /\ Taken(m.regions) \subseteq Managed(m.regions)
    BY Zenon DEF Good, Taken
  <2> QED
    BY <1>2, <2>1, ReservedFacts, Zenon DEF CanFree
<1> QED
  BY <1>1, <1>3, <1>4, Zenon DEF CanFreeTable

(* free_pde: the table of an entry goes, with its pages. *)
EmptiesAt(m, after, d, i) ==
    /\ DOMAIN after.dirs = DOMAIN m.dirs /\ after.transient = m.transient
    /\ after.dirs[d][i] = 0
    /\ \A j \in UserPdes : j # i =>
        /\ after.dirs[d][j] = m.dirs[d][j]
        /\ m.dirs[d][j] # 0 => after.tables[m.dirs[d][j]] = m.tables[m.dirs[d][j]]
    /\ \A c \in DOMAIN m.dirs : c # d => SameUser(m, after, c)

LEMMA FreePdeFacts ==
    ASSUME NEW m, NEW N, NEW C, NEW H, NEW E, Good(m, N, C, H, E), NEW d \in DOMAIN m.dirs,
           NEW i \in UserPdes, m.dirs[d][i] # 0, NEW r, r = free_pde(m, d, i)
    PROVE  r.err = "no" /\ Good(r.mem, N, C, H, E) /\ EmptiesAt(m, r.mem, d, i)
<1> DEFINE t == m.dirs[d][i]
           gone == FramesOf(m.tables[t]) \cup {t}
           left == Restrict(m.tables, DOMAIN m.tables \ {t})
           m2 == r.mem
<1>1. /\ MemType(m) /\ RegionsOk(m.regions) /\ TablesOk(m.dirs, m.tables) /\ DirsOk(m.dirs, m.tables, N, C)
      /\ FramesOk(m.regions, m.tables, Range(m.heap.frame), H)
      /\ HeapOk(m.dirs, m.tables, m.heap, m.transient, E)
  BY Zenon DEF Good
<1>2. t \in UserTabs(m.tables) /\ t \notin C /\ t # 0 /\ t # KernelTable
  BY <1>1, Zenon DEF DirsOk, UserTabs
<1>3. CanFreeTable(m, t)
  BY <1>2, CanFreeFacts, Zenon
<1>4. r.err = "no" /\ m2 = [m EXCEPT !.regions = FreeAll(m.regions, gone), !.tables = left, !.dirs[d][i] = 0]
  BY <1>3, Zenon DEF free_pde, Ok
<1>5. /\ MemType(m2) /\ m2.regions = FreeAll(m.regions, gone) /\ m2.tables = left /\ m2.heap = m.heap
      /\ m2.transient = m.transient /\ m2.dirs = Linked(m.dirs, d, i, 0)
  BY <1>1, <1>4, Zenon DEF MemType, Linked
<1>6. /\ DOMAIN left = DOMAIN m.tables \ {t}
      /\ \A u \in DOMAIN m.tables : u # t => left[u] = m.tables[u]
  BY Zenon DEF Restrict
<1>t. t = m.dirs[d][i]
  BY Zenon
<1>7. /\ TablesOk(m2.dirs, m.tables) /\ DOMAIN m2.dirs = DOMAIN m.dirs
      /\ \A c \in DOMAIN m.dirs : \A j \in UserPdes \cup KernelPdes :
            m2.dirs[c][j] = IF c = d /\ j = i THEN 0 ELSE m.dirs[c][j]
      /\ \A c \in DOMAIN m.dirs : c # d => m2.dirs[c] = m.dirs[c]
  <2>1. TablesOk(m2.dirs, m.tables) /\ LinkedTo(m.dirs, m2.dirs, d, i, 0)
    BY <1>1, <1>5, LinkedFacts
  <2> QED
    BY <2>1, Zenon DEF LinkedTo
<1>8. UserTabs(m2.tables) = UserTabs(m.tables) \ {t} /\ \A u \in UserTabs(m2.tables) : m2.tables[u] = m.tables[u]
  BY <1>5, <1>6, Zenon DEF UserTabs
<1>9. FramesOk(m2.regions, m2.tables, Range(m2.heap.frame), H)
  <2>1. FramesOk(FreeAll(m.regions, gone), m2.tables, Range(m.heap.frame), H)
    BY <1>1, <1>2, <1>8, FramesFree, Zenon
  <2> QED
    BY <1>5, <2>1, Zenon
<1>10. RegionsOk(m2.regions)
  BY <1>1, <1>5, FreeAllFacts
<1> HIDE DEF t, gone, left, m2
<1>11. TablesOk(m2.dirs, m2.tables) /\ m2.tables[KernelTable] = m.tables[KernelTable]
  <2>1. KernelTable \in DOMAIN m.tables
    BY <1>1, Zenon DEF TablesOk
  <2>2. m2.tables[KernelTable] = m.tables[KernelTable] /\ KernelTable \in DOMAIN m2.tables
    BY <1>2, <1>5, <1>6, <2>1, Zenon
  <2>3. \A u \in DOMAIN m2.tables : u \in DOMAIN m.tables /\ m2.tables[u] = m.tables[u]
    BY <1>5, <1>6, Zenon
  <2> QED
    BY <1>7, <2>2, <2>3, Zenon DEF TablesOk
<1>12. HeapOk(m2.dirs, m2.tables, m2.heap, m2.transient, E)
  BY <1>1, <1>5, <1>7, <1>11, HeapSame
<1>13. \A c \in DOMAIN m.dirs : \A j \in UserPdes : ~(c = d /\ j = i) =>
        /\ m2.dirs[c][j] = m.dirs[c][j] /\ m.dirs[c][j] # t
        /\ m.dirs[c][j] # 0 => m.dirs[c][j] \in UserTabs(m2.tables) \ C
  <2>1. \A c \in DOMAIN m.dirs : \A j \in UserPdes : ~(c = d /\ j = i) => m.dirs[c][j] # t
    BY <1>1, <1>2, <1>t DEF DirsOk
  <2> QED
    BY <1>1, <1>7, <1>8, <2>1 DEF DirsOk
<1>14. DirsOk(m2.dirs, m2.tables, N, C)
  <2>0. m2.dirs[d][i] = 0
    BY <1>7, Zenon
  <2>1. \A c \in DOMAIN m2.dirs : \A j \in UserPdes : m2.dirs[c][j] # 0 => m2.dirs[c][j] \in UserTabs(m2.tables) \ C
    BY <1>7, <1>13, <2>0, Zenon
  <2>2. \A c, e \in DOMAIN m2.dirs : \A j, l \in UserPdes :
            m2.dirs[c][j] = m2.dirs[e][l] /\ m2.dirs[c][j] # 0 => c = e /\ j = l
    BY <1>1, <1>7, <1>13, <2>0 DEF DirsOk
  <2>3. \A u \in UserTabs(m2.tables) \ C : \E c \in DOMAIN m2.dirs : \E j \in UserPdes : m2.dirs[c][j] = u
    <3> SUFFICES ASSUME NEW u \in UserTabs(m2.tables) \ C
                 PROVE  \E c \in DOMAIN m2.dirs : \E j \in UserPdes : m2.dirs[c][j] = u
      BY Zenon
    <3>1. u \in UserTabs(m.tables) \ C /\ u # t
      BY <1>8, Zenon
    <3>2. PICK c \in DOMAIN m.dirs, j \in UserPdes : m.dirs[c][j] = u
      BY <1>1, <3>1, Zenon DEF DirsOk
    <3>3. ~(c = d /\ j = i)
      BY <1>t, <3>1, <3>2, Zenon
    <3> QED
      BY <1>7, <1>13, <3>2, <3>3, Zenon
  <2>4. C \subseteq UserTabs(m2.tables)
    BY <1>1, <1>2, <1>8, Zenon DEF DirsOk
  <2>5. \A c \in DOMAIN m2.dirs : \A j \in KernelPdes : m2.dirs[c][j] = IF c \in N THEN 0 ELSE KernelEntry(j)
    BY <1>1, <1>7, UserKernelApart DEF DirsOk
  <2> QED
    BY <2>1, <2>2, <2>3, <2>4, <2>5, Zenon DEF DirsOk
<1>15. Good(m2, N, C, H, E)
  BY <1>5, <1>9, <1>10, <1>11, <1>12, <1>14, Zenon DEF Good
<1>16. \A c \in DOMAIN m.dirs : \A j \in UserPdes : ~(c = d /\ j = i) /\ m.dirs[c][j] # 0 =>
        m2.tables[m.dirs[c][j]] = m.tables[m.dirs[c][j]]
  BY <1>8, <1>13, Zenon
<1>17. EmptiesAt(m, m2, d, i)
  BY <1>5, <1>7, <1>13, <1>16 DEF EmptiesAt, SameUser
<1> QED
  BY <1>4, <1>15, <1>17, Zenon DEF m2

-----------------------------------------------------------------------------
(* Flags change. *)

(* Flags change, and pages are unmapped, but none gets a frame. *)
LEMMA FramesFlags ==
    ASSUME NEW regions, NEW tables, NEW heapFrames, NEW H, FramesOk(regions, tables, heapFrames, H),
           NEW other, UserTabs(other) = UserTabs(tables),
           \A t \in UserTabs(tables) : \A i \in Ptes :
               "P" \in other[t][i].flags => "P" \in tables[t][i].flags /\ other[t][i].frame = tables[t][i].frame
    PROVE  FramesOk(regions, other, heapFrames, H)
<1>1. \A u, v \in UserTabs(other) : \A j, l \in Ptes :
        "P" \in other[u][j].flags /\ "P" \in other[v][l].flags /\ other[u][j].frame = other[v][l].frame
            => u = v /\ j = l
  BY DEF FramesOk, With, Without
<1>2. \A u \in UserTabs(other) : \A j \in Ptes :
        "P" \in other[u][j].flags =>
            /\ other[u][j].frame \in Taken(regions)
            /\ other[u][j].frame \notin UserTabs(other) \cup heapFrames \cup KernelFrames \cup H
  BY Zenon DEF FramesOk, With, Without
<1> QED
  BY <1>1, <1>2, Zenon DEF FramesOk, With, Without

(* The flags of some pages of a directory change: vmm_remap, vmm_unmap. *)
ReflagsAt(m, after, d, pages) ==
    /\ after.dirs = m.dirs /\ after.transient = m.transient
    /\ \A q \in Nat : Dir(q) \in UserPdes /\ q \notin pages => va_info_ex(after, d, q) = va_info_ex(m, d, q)
    /\ \A c \in DOMAIN m.dirs : c # d => SameUser(m, after, c)

Reflagged(m, m2, d, pages) ==
    /\ NewTablesOf(m, m2, m2.tables) /\ DOMAIN m2.tables = DOMAIN m.tables
    /\ \A t \in DOMAIN m.tables : m2.tables[t] \in [Ptes -> EntryType]
    /\ \A t \in DOMAIN m.tables : \A i \in Ptes : m2.tables[t][i].frame = m.tables[t][i].frame
    /\ \A t \in DOMAIN m.tables : \A i \in Ptes :
        <<t, i>> \notin Entries(m, d, pages) => m2.tables[t][i] = m.tables[t][i]

MappedPages(m, d, pages) ==
    pages \in SUBSET Nat /\ \A p \in pages : Dir(p) \in UserPdes /\ Present(m, d, p)

LEMMA GoodReflag ==
    ASSUME NEW m, NEW N, NEW C, NEW H, NEW E, Good(m, N, C, H, E), NEW d \in DOMAIN m.dirs,
           NEW pages, MappedPages(m, d, pages), NEW m2, Reflagged(m, m2, d, pages)
    PROVE  Good(m2, N, C, H, E) /\ ReflagsAt(m, m2, d, pages)
<1>p. pages \in SUBSET Nat /\ \A p \in pages : Dir(p) \in UserPdes /\ Present(m, d, p)
  BY Zenon DEF MappedPages
<1>r. /\ NewTablesOf(m, m2, m2.tables) /\ DOMAIN m2.tables = DOMAIN m.tables
      /\ \A t \in DOMAIN m.tables : m2.tables[t] \in [Ptes -> EntryType]
      /\ \A t \in DOMAIN m.tables : \A i \in Ptes : m2.tables[t][i].frame = m.tables[t][i].frame
      /\ \A t \in DOMAIN m.tables : \A i \in Ptes :
          <<t, i>> \notin Entries(m, d, pages) => m2.tables[t][i] = m.tables[t][i]
  BY Zenon DEF Reflagged
<1>1. /\ MemType(m) /\ RegionsOk(m.regions) /\ TablesOk(m.dirs, m.tables) /\ DirsOk(m.dirs, m.tables, N, C)
      /\ FramesOk(m.regions, m.tables, Range(m.heap.frame), H)
      /\ HeapOk(m.dirs, m.tables, m.heap, m.transient, E)
  BY Zenon DEF Good
<1>2. /\ MemType(m2) /\ m2.regions = m.regions /\ m2.dirs = m.dirs /\ m2.heap = m.heap
      /\ m2.transient = m.transient
  BY <1>r, Zenon DEF NewTablesOf
<1>3. \A p \in pages : m.dirs[d][Dir(p)] # 0 /\ m.dirs[d][Dir(p)] \in UserTabs(m.tables) \ C
  <2>1. \A p \in pages : m.dirs[d][Dir(p)] # 0
    BY <1>p, Zenon DEF Present, va_info_ex, NoEntry
  <2> QED
    BY <1>p, <1>1, <2>1, Zenon DEF DirsOk
<1>4. \A t \in DOMAIN m.tables : \A i \in Ptes :
        (<<t, i>> \in Entries(m, d, pages)) => \E p \in pages : t = m.dirs[d][Dir(p)] /\ i = Idx(p)
  BY Zenon DEF Entries
<1>5. \A t \in DOMAIN m.tables : (\A p \in pages : t # m.dirs[d][Dir(p)]) => m2.tables[t] = m.tables[t]
  <2> SUFFICES ASSUME NEW t \in DOMAIN m.tables, \A p \in pages : t # m.dirs[d][Dir(p)]
               PROVE  m2.tables[t] = m.tables[t]
    BY Zenon
  <2>1. \A i \in Ptes : m2.tables[t][i] = m.tables[t][i]
    BY <1>r, <1>4, Zenon
  <2>2. m.tables[t] \in [Ptes -> EntryType] /\ m2.tables[t] \in [Ptes -> EntryType]
    BY <1>r, <1>1, Zenon DEF TablesOk
  <2> QED
    BY <2>1, <2>2
<1>6. TablesOk(m2.dirs, m2.tables)
  BY <1>r, <1>1, <1>2, Zenon DEF TablesOk
<1>7. m2.tables[KernelTable] = m.tables[KernelTable]
  BY <1>1, <1>3, <1>5, Zenon DEF TablesOk, UserTabs
<1>8. \A t \in UserTabs(m.tables) : \A i \in Ptes :
        "P" \in m2.tables[t][i].flags => "P" \in m.tables[t][i].flags
  <2> SUFFICES ASSUME NEW t \in DOMAIN m.tables, NEW i \in Ptes, "P" \in m2.tables[t][i].flags
               PROVE  "P" \in m.tables[t][i].flags
    BY Zenon DEF UserTabs
  <2>1. CASE <<t, i>> \notin Entries(m, d, pages)
    BY <1>r, <2>1, Zenon
  <2>2. CASE <<t, i>> \in Entries(m, d, pages)
    <3>1. PICK p \in pages : t = m.dirs[d][Dir(p)] /\ i = Idx(p)
      BY <1>4, <2>2, Zenon
    <3> QED
      BY <1>p, <1>3, <3>1, Zenon DEF Present, va_info_ex
  <2> QED
    BY <2>1, <2>2, Zenon
<1>9. UserTabs(m2.tables) = UserTabs(m.tables) /\ \A t \in UserTabs(m.tables) : t \in DOMAIN m.tables
  BY <1>r, Zenon DEF UserTabs
<1>10. FramesOk(m2.regions, m2.tables, Range(m2.heap.frame), H)
  <2>1. \A t \in UserTabs(m.tables) : \A i \in Ptes :
          "P" \in m2.tables[t][i].flags => "P" \in m.tables[t][i].flags /\ m2.tables[t][i].frame = m.tables[t][i].frame
    BY <1>r, <1>8, <1>9, Zenon
  <2> QED
    BY <1>1, <1>2, <1>9, <2>1, FramesFlags, SMTT(30)
<1>11. DirsOk(m2.dirs, m2.tables, N, C)
  BY <1>r, <1>1, <1>2, DirsSameTables, Zenon
<1>12. HeapOk(m2.dirs, m2.tables, m2.heap, m2.transient, E)
  BY <1>1, <1>2, <1>7, HeapSame, Zenon
<1>13. Good(m2, N, C, H, E)
  BY <1>1, <1>2, <1>6, <1>10, <1>11, <1>12, Zenon DEF Good
<1>14. ASSUME NEW q \in Nat, Dir(q) \in UserPdes, q \notin pages
       PROVE  va_info_ex(m2, d, q) = va_info_ex(m, d, q)
  <2> DEFINE t == m.dirs[d][Dir(q)]
  <2>1. CASE t = 0
    BY <1>2, <2>1, Zenon DEF va_info_ex
  <2>2. CASE t # 0
    <3>1. t \in DOMAIN m.tables /\ Idx(q) \in Ptes
      BY <1>1, <1>14, <2>2, PageFacts, Zenon DEF DirsOk, UserTabs
    <3>2. ASSUME NEW p \in pages, t = m.dirs[d][Dir(p)], Idx(q) = Idx(p)
          PROVE  FALSE
      <4>1. Dir(q) = Dir(p)
        BY <1>p, <1>1, <1>14, <2>2, <3>2, SMTT(30) DEF DirsOk
      <4> QED
        BY <1>p, <1>14, <3>2, <4>1, SamePage, Zenon
    <3>3. <<t, Idx(q)>> \notin Entries(m, d, pages)
      BY <1>4, <3>1, <3>2, Zenon
    <3> QED
      BY <1>r, <1>2, <2>2, <3>1, <3>3, Zenon DEF va_info_ex
  <2> QED
    BY <2>1, <2>2, Zenon
<1>15. ASSUME NEW c \in DOMAIN m.dirs, c # d
       PROVE  SameUser(m, m2, c)
  <2>1. \A i \in UserPdes : m.dirs[c][i] # 0 =>
            m.dirs[c][i] \in DOMAIN m.tables /\ \A p \in pages : m.dirs[c][i] # m.dirs[d][Dir(p)]
    <3>1. \A i \in UserPdes : m.dirs[c][i] # 0 => m.dirs[c][i] \in DOMAIN m.tables
      BY <1>1, <1>9, <1>15, Zenon DEF DirsOk
    <3>2. ASSUME NEW i \in UserPdes, m.dirs[c][i] # 0, NEW p \in pages, m.dirs[c][i] = m.dirs[d][Dir(p)]
          PROVE  FALSE
      <4>1. Dir(p) \in UserPdes
        BY <1>p, Zenon
      <4>2. \A a, b \in DOMAIN m.dirs : \A h, j \in UserPdes :
              m.dirs[a][h] = m.dirs[b][j] /\ m.dirs[a][h] # 0 => a = b
        BY <1>1 DEF DirsOk
      <4> QED
        BY <1>15, <3>2, <4>1, <4>2, Zenon
    <3> QED
      BY <3>1, <3>2, Zenon
  <2> QED
    BY <1>2, <1>5, <2>1, Zenon DEF SameUser
<1> QED
  BY <1>2, <1>13, <1>14, <1>15, Zenon DEF ReflagsAt

LEMMA RemapFacts ==
    ASSUME NEW m, NEW N, NEW C, NEW H, NEW E, Good(m, N, C, H, E), NEW d \in DOMAIN m.dirs,
           NEW pages, MappedPages(m, d, pages),
           NEW flags \in SUBSET {"P", "W", "U"}, NEW m2, m2 = vmm_remap(m, d, pages, flags)
    PROVE  /\ Good(m2, N, C, H, E) /\ ReflagsAt(m, m2, d, pages)
           /\ \A p \in pages : va_info_ex(m2, d, p).flags = flags
<1>1. MemType(m) /\ TablesOk(m.dirs, m.tables) /\ DirsOk(m.dirs, m.tables, N, C)
  BY Zenon DEF Good
<1>2. NewTablesOf(m, m2, m2.tables) /\ m2.dirs = m.dirs
  BY <1>1, Zenon DEF NewTablesOf, vmm_remap, MemType
<1>3. m2.tables = [t \in DOMAIN m.tables |-> [i \in Ptes |->
        IF <<t, i>> \in Entries(m, d, pages) THEN [m.tables[t][i] EXCEPT !.flags = flags] ELSE m.tables[t][i]]]
  BY <1>1, Zenon DEF vmm_remap, MemType
<1>4. \A t \in DOMAIN m.tables : \A i \in Ptes : m.tables[t][i] \in EntryType
  BY <1>1, Zenon DEF TablesOk
<1>5. \A t \in DOMAIN m.tables : \A i \in Ptes :
        /\ m2.tables[t][i] \in EntryType
        /\ m2.tables[t][i].frame = m.tables[t][i].frame
        /\ <<t, i>> \notin Entries(m, d, pages) => m2.tables[t][i] = m.tables[t][i]
        /\ <<t, i>> \in Entries(m, d, pages) => m2.tables[t][i].flags = flags
  BY <1>3, <1>4 DEF EntryType
<1>6. DOMAIN m2.tables = DOMAIN m.tables /\ \A t \in DOMAIN m.tables : m2.tables[t] \in [Ptes -> EntryType]
  <2>1. DOMAIN m2.tables = DOMAIN m.tables /\ \A t \in DOMAIN m.tables : m2.tables[t] = [i \in Ptes |-> m2.tables[t][i]]
    BY <1>3, Zenon
  <2> QED
    BY <1>5, <2>1, Zenon
<1>7. Good(m2, N, C, H, E) /\ ReflagsAt(m, m2, d, pages)
  <2>1. Reflagged(m, m2, d, pages)
    BY <1>2, <1>5, <1>6, Zenon DEF Reflagged
  <2> QED
    BY <2>1, GoodReflag, Zenon
<1>8. ASSUME NEW p \in pages
      PROVE  va_info_ex(m2, d, p).flags = flags
  <2>0. p \in Nat /\ Dir(p) \in UserPdes /\ Present(m, d, p)
    BY Zenon DEF MappedPages
  <2>1. m.dirs[d][Dir(p)] # 0
    BY <2>0, Zenon DEF Present, va_info_ex, NoEntry
  <2>2. m.dirs[d][Dir(p)] \in DOMAIN m.tables /\ Idx(p) \in Ptes
    BY <1>1, <2>0, <2>1, PageFacts, Zenon DEF DirsOk, UserTabs
  <2>3. <<m.dirs[d][Dir(p)], Idx(p)>> \in Entries(m, d, pages)
    BY Zenon DEF Entries
  <2> QED
    BY <1>2, <1>5, <2>1, <2>2, <2>3, Zenon DEF va_info_ex
<1> QED
  BY <1>7, <1>8, Zenon

LEMMA UnmapFacts ==
    ASSUME NEW m, NEW N, NEW C, NEW H, NEW E, Good(m, N, C, H, E), NEW d \in DOMAIN m.dirs,
           NEW pages, MappedPages(m, d, pages),
           NEW m2, m2 = vmm_unmap(m, d, pages)
    PROVE  /\ Good(m2, N, C, H, E) /\ ReflagsAt(m, m2, d, pages)
           /\ \A p \in pages : ~Present(m2, d, p)
<1>1. MemType(m) /\ TablesOk(m.dirs, m.tables) /\ DirsOk(m.dirs, m.tables, N, C)
  BY Zenon DEF Good
<1>2. NewTablesOf(m, m2, m2.tables) /\ m2.dirs = m.dirs
  BY <1>1, Zenon DEF NewTablesOf, vmm_unmap, MemType
<1>3. m2.tables = [t \in DOMAIN m.tables |-> [i \in Ptes |->
        IF <<t, i>> \in Entries(m, d, pages) THEN [m.tables[t][i] EXCEPT !.flags = m.tables[t][i].flags \ {"P"}]
        ELSE m.tables[t][i]]]
  BY <1>1, Zenon DEF vmm_unmap, MemType
<1>4. \A t \in DOMAIN m.tables : \A i \in Ptes : m.tables[t][i] \in EntryType
  BY <1>1, Zenon DEF TablesOk
<1>5. \A t \in DOMAIN m.tables : \A i \in Ptes :
        /\ m2.tables[t][i] \in EntryType
        /\ m2.tables[t][i].frame = m.tables[t][i].frame
        /\ <<t, i>> \notin Entries(m, d, pages) => m2.tables[t][i] = m.tables[t][i]
        /\ <<t, i>> \in Entries(m, d, pages) => "P" \notin m2.tables[t][i].flags
  <2> SUFFICES ASSUME NEW t \in DOMAIN m.tables, NEW i \in Ptes
               PROVE  /\ m2.tables[t][i] \in EntryType
                      /\ m2.tables[t][i].frame = m.tables[t][i].frame
                      /\ <<t, i>> \notin Entries(m, d, pages) => m2.tables[t][i] = m.tables[t][i]
                      /\ <<t, i>> \in Entries(m, d, pages) => "P" \notin m2.tables[t][i].flags
    BY Zenon
  <2> DEFINE e == m.tables[t][i]
             fl == e.flags \ {"P"}
  <2>1. e \in EntryType /\ fl \in SUBSET {"P", "W", "U"} /\ "P" \notin fl
    BY <1>4, Zenon DEF EntryType
  <2>2. m2.tables[t][i] = IF <<t, i>> \in Entries(m, d, pages) THEN [e EXCEPT !.flags = fl] ELSE e
    BY <1>3
  <2> HIDE DEF fl
  <2> QED
    BY <2>1, <2>2, Zenon DEF EntryType
<1>6. DOMAIN m2.tables = DOMAIN m.tables /\ \A t \in DOMAIN m.tables : m2.tables[t] \in [Ptes -> EntryType]
  <2>1. DOMAIN m2.tables = DOMAIN m.tables /\ \A t \in DOMAIN m.tables : m2.tables[t] = [i \in Ptes |-> m2.tables[t][i]]
    BY <1>3, Zenon
  <2> QED
    BY <1>5, <2>1, Zenon
<1>7. Good(m2, N, C, H, E) /\ ReflagsAt(m, m2, d, pages)
  <2>1. Reflagged(m, m2, d, pages)
    BY <1>2, <1>5, <1>6, Zenon DEF Reflagged
  <2> QED
    BY <2>1, GoodReflag, Zenon
<1>8. ASSUME NEW p \in pages
      PROVE  ~Present(m2, d, p)
  <2>0. p \in Nat /\ Dir(p) \in UserPdes /\ Present(m, d, p)
    BY Zenon DEF MappedPages
  <2>1. m.dirs[d][Dir(p)] # 0
    BY <2>0, Zenon DEF Present, va_info_ex, NoEntry
  <2>2. m.dirs[d][Dir(p)] \in DOMAIN m.tables /\ Idx(p) \in Ptes
    BY <1>1, <2>0, <2>1, PageFacts, Zenon DEF DirsOk, UserTabs
  <2>3. <<m.dirs[d][Dir(p)], Idx(p)>> \in Entries(m, d, pages)
    BY Zenon DEF Entries
  <2> QED
    BY <1>2, <1>5, <2>1, <2>2, <2>3, Zenon DEF va_info_ex, Present
<1> QED
  BY <1>7, <1>8, Zenon

-----------------------------------------------------------------------------
(* What stays true of an address space that a step leaves alone. *)


(* A step of the running task, or of the kernel for it, that is no part of *)
(* a clone.                                                                *)
RunStep ==
    /\ halted' = "no" /\ current' = current /\ next_pid' = next_pid /\ DOMAIN task' = DOMAIN task
    /\ k' \in KType /\ k'.op \notin CloneOps /\ k'.op # "boot" /\ k'.frame = 0
    /\ \A p \in DOMAIN task : p # current => task'[p] = task[p]
    /\ task'[current] \in TaskType /\ task'[current].dir = task[current].dir
    /\ task'[current].phase # "exited" /\ (task[current].phase = "kernel" => task'[current].phase = "kernel")
    /\ k'.op \in {"reset", "load", "mmap"} => task'[current].phase = "user"
    /\ \A p \in DOMAIN task : p # current => task[p].held = 0 \/ task[p].held # task'[current].held
    /\ DOMAIN mem'.dirs = DOMAIN mem.dirs /\ DOMAIN mem'.transient = {}
    /\ SameUser(mem, mem', 0)
    /\ \A p \in DOMAIN task : p # current /\ task[p].phase # "exited" => SameUser(mem, mem', task[p].dir)

LEMMA PhaseExited ==
    ASSUME NEW m, NEW other, NEW t, t.phase = "exited", PhaseAt(m, t, "none")
    PROVE  PhaseAt(other, t, "none")
BY OpFacts, Zenon DEF PhaseAt

LEMMA PlainOp ==
    ASSUME k.op \notin CloneOps, k.frame = 0
    PROVE  NewDirs = {} /\ NewTables = {} /\ Shown = {} /\ InHand = HeldFrames
BY OpFacts, Zenon DEF NewDirs, NewTables, Shown, InHand

LEMMA NotBoot ==
    ASSUME RunningOk, k.op \notin CloneOps, k.op # "boot"
    PROVE  /\ current # -1 /\ current \in DOMAIN task /\ MyDir = task[current].dir /\ MyDir # 0
           /\ MyDir \in DOMAIN mem.dirs /\ 0 \in DOMAIN mem.dirs /\ task[current].phase # "exited"
           /\ Stacked(mem, MyDir) /\ task[current] \in TaskType
           /\ PhaseAt(mem, task[current], k.op)
           /\ next_pid \in Nat /\ next_pid >= 2 /\ KernelTask \in DOMAIN task /\ task[KernelTask].phase = "kernel"
           /\ k \in KType
<1>1. current # -1 /\ task[current].phase # "exited"
  BY OpFacts, Zenon DEF RunningOk, CurrentOk
<1>2. next_pid \in Nat /\ next_pid >= 2 /\ KernelTask \in DOMAIN task /\ task[KernelTask].phase = "kernel"
  BY <1>1 DEF RunningOk, CurrentOk, TypesOk
<1>3. /\ current \in DOMAIN task /\ MyDir = task[current].dir /\ MyDir # 0
      /\ MyDir \in DOMAIN mem.dirs /\ 0 \in DOMAIN mem.dirs /\ Stacked(mem, MyDir)
  BY <1>1, MyDirFacts, Zenon
<1>4. PhaseAt(mem, task[current], k.op)
  BY <1>3, Zenon DEF RunningOk, PhasesOk, OpOf
<1>5. task[current] \in TaskType /\ k \in KType
  BY <1>3, Zenon DEF RunningOk, TypesOk
<1> QED
  BY <1>1, <1>2, <1>3, <1>4, <1>5, Zenon

LEMMA RunStepFacts ==
    ASSUME RunningOk, k.op \notin CloneOps, k.op # "boot", RunStep, Good(mem', {}, {}, HeldFrames', {}),
           PhaseAt(mem', task'[current], k'.op), OpOk'
    PROVE  MemoryInv'
<1>1. /\ current \in DOMAIN task /\ current # -1 /\ next_pid \in Nat /\ next_pid >= 2
      /\ KernelTask \in DOMAIN task /\ task[KernelTask].phase = "kernel"
  BY NotBoot, Zenon
<1>2. /\ halted' = "no" /\ current' = current /\ next_pid' = next_pid /\ DOMAIN task' = DOMAIN task
      /\ k' \in KType /\ k'.op \notin CloneOps /\ k'.op # "boot" /\ k'.frame = 0
      /\ \A p \in DOMAIN task : p # current => task'[p] = task[p]
  BY Zenon DEF RunStep
<1>3. NewDirs' = {} /\ NewTables' = {} /\ Shown' = {} /\ InHand' = HeldFrames'
  BY <1>2, OpFacts, Zenon DEF NewDirs, NewTables, Shown, InHand
<1>4. MemOk'
  BY <1>3, Zenon DEF MemOk, RunStep
<1>5. TypesOk'
  <2>1. \A p \in DOMAIN task : task'[p] \in TaskType
    BY <1>2, Zenon DEF RunningOk, TypesOk, RunStep
  <2>2. DOMAIN task \subseteq 0 .. next_pid - 1
    BY Zenon DEF RunningOk, TypesOk
  <2>3. k'.op \notin PageOps
    BY <1>2, OpFacts, Zenon
  <2> QED
    BY <1>1, <1>2, <2>1, <2>2, <2>3, Zenon DEF TypesOk
<1>6. TasksOk'
  <2>1. TasksAt(task, mem.dirs, {}, 0)
    BY PlainHand, Zenon DEF RunningOk, TasksOk
  <2>2. \A p \in DOMAIN task : task'[p].dir = task[p].dir
    BY <1>2, Zenon DEF RunStep
  <2>3. \A p, q \in DOMAIN task : task'[p].held = task'[q].held /\ task'[p].held # 0 => p = q
    BY <1>2, <2>1 DEF RunStep, TasksAt
  <2>4. TasksAt(task', mem'.dirs, {}, 0)
    BY <1>2, <2>1, <2>2, <2>3 DEF TasksAt, RunStep
  <2> QED
    BY <1>2, <1>3, <2>4, Zenon DEF TasksOk
<1>7. CurrentOk'
  <2>1. KernelTask \in DOMAIN task' /\ task'[KernelTask].phase = "kernel"
    BY <1>1, <1>2, Zenon DEF RunStep
  <2>2. task'[current].phase # "exited" /\ (k'.op \in {"reset", "load", "mmap"} => task'[current].phase = "user")
    BY Zenon DEF RunStep
  <2> QED
    BY <1>1, <1>2, <2>1, <2>2, Zenon DEF CurrentOk
<1>8. PhasesOk'
  <2> SUFFICES ASSUME NEW p \in DOMAIN task, p # current
               PROVE  PhaseAt(mem', task[p], "none")
    BY <1>2, Zenon DEF PhasesOk, OpOf
  <2>1. PhaseAt(mem, task[p], "none")
    BY Zenon DEF RunningOk, PhasesOk, OpOf
  <2>2. CASE task[p].phase = "exited"
    BY <2>1, <2>2, PhaseExited, Zenon
  <2>3. CASE task[p].phase # "exited"
    <3>1. SameUser(mem, mem', task[p].dir)
      BY <2>3, Zenon DEF RunStep
    <3> QED
      BY <2>1, <3>1, PhaseSame, Zenon
  <2> QED
    BY <2>2, <2>3, Zenon
<1>9. BootOk'
  <2>1. BootAt(mem, k.op) /\ SameUser(mem, mem', 0)
    BY Zenon DEF RunningOk, BootOk, RunStep
  <2>2. BootAt(mem', k.op)
    BY <2>1, BootSame, Zenon
  <2> QED
    BY <1>2, <2>2, Zenon DEF BootOk, BootAt
<1>10. RunningOk'
  BY <1>4, <1>5, <1>6, <1>7, <1>8, <1>9, Zenon DEF RunningOk
<1> QED
  BY <1>2, <1>10, Zenon DEF MemoryInv

-----------------------------------------------------------------------------
(* Frames that tasks hold. *)

(* Only the running task's record changes. *)
OnlyMine(mine) ==
    /\ DOMAIN task' = DOMAIN task /\ task'[current] = mine
    /\ \A p \in DOMAIN task : p # current => task'[p] = task[p]

LEMMA HeldMore ==
    ASSUME current \in DOMAIN task, NEW mine, OnlyMine(mine), task[current].held = 0, mine.held # 0
    PROVE  HeldFrames' = With(HeldFrames, mine.held)
BY Zenon DEF OnlyMine, HeldFrames, With

LEMMA HeldSame ==
    ASSUME current \in DOMAIN task, NEW mine, OnlyMine(mine), mine.held = task[current].held
    PROVE  HeldFrames' = HeldFrames
<1>1. DOMAIN task' = DOMAIN task /\ \A p \in DOMAIN task : task'[p].held = task[p].held
  BY Zenon DEF OnlyMine
<1> QED
  BY <1>1, Zenon DEF HeldFrames

LEMMA HeldLess ==
    ASSUME RunningOk, current \in DOMAIN task, NEW mine, OnlyMine(mine), task[current].held # 0, mine.held = 0
    PROVE  HeldFrames' = Without(HeldFrames, task[current].held)
<1>1. \A p \in DOMAIN task : p # current => task[p].held = 0 \/ task[p].held # task[current].held
  BY Zenon DEF RunningOk, TasksOk, TasksAt
<1>2. DOMAIN task' = DOMAIN task /\ task'[current].held = 0
      /\ \A p \in DOMAIN task : p # current => task'[p].held = task[p].held
  BY Zenon DEF OnlyMine
<1> QED
  BY <1>1, <1>2 DEF HeldFrames, Without

LEMMA PhaseHeld ==
    ASSUME NEW m, NEW t, NEW mine, mine.dir = t.dir, mine.phase = t.phase, mine.load = t.load,
           NEW op, t.phase \in {"load", "stack"} \/ (op \in ExecOps /\ t.phase = "user"), PhaseAt(m, t, op)
    PROVE  PhaseAt(m, mine, op)
BY Zenon DEF PhaseAt

(* A frame is allocated, and the running task holds it. *)
LEMMA HoldStep ==
    ASSUME RunningOk, k.op \in {"none", "load"}, task[current].held = 0,
           k.op = "load" \/ task[current].phase \in {"load", "stack"},
           Hold(pmm_alloc(mem.regions)), current' = current, next_pid' = next_pid, halted = "no"
    PROVE  MemoryInv'
<1> DEFINE a == pmm_alloc(mem.regions)
           mine == [task[current] EXCEPT !.held = a.frame]
<1>o. k.op \notin CloneOps /\ k.op # "boot"
  BY OpFacts, Zenon
<1>1. /\ ~GotFrame(a) => halted' = NoFrame(a) /\ mem' = mem /\ task' = task
      /\ GotFrame(a) => mem' = WithRegions(mem, a.regions) /\ OnlyMine(mine) /\ k' = k /\ halted' = "no"
  BY <1>o, NotBoot, Zenon DEF Hold, Halt, OnlyMine
<1>2. Good(mem, {}, {}, HeldFrames, {}) /\ DOMAIN mem.transient = {} /\ k.frame = 0
  BY <1>o, PlainHand, Zenon
<1>3. /\ current \in DOMAIN task /\ MyDir = task[current].dir /\ MyDir \in DOMAIN mem.dirs /\ 0 \in DOMAIN mem.dirs
      /\ task[current] \in TaskType /\ PhaseAt(mem, task[current], k.op) /\ k \in KType /\ task[current].phase # "exited"
  BY <1>o, NotBoot, Zenon
<1>a. AllocGives(mem.regions, a) \/ AllocFails(mem.regions, a)
  BY <1>2, AllocFacts, Zenon DEF Good
<1>4. CASE AllocFails(mem.regions, a)
  <2>1. HaltCause(halted', mem') /\ SameUser(mem, mem', MyDir) /\ task' = task
    BY <1>1, <1>4, AllocHalt, SameUserSelf, Zenon
  <2> QED
    BY <2>1, HaltStep, Zenon
<1>5. CASE AllocGives(mem.regions, a)
  <2>1. /\ Good(mem', {}, {}, With(HeldFrames, a.frame), {}) /\ SameUserHalf(mem, mem')
        /\ mem'.transient = mem.transient /\ a.frame \notin HeldFrames /\ a.frame \in Nat /\ GotFrame(a) /\ a.frame # 0
    <3>1. mem' = WithRegions(mem, a.regions)
      BY <1>1, <1>5, Zenon DEF AllocGives
    <3> HIDE DEF a
    <3> QED
      BY <1>2, <1>5, <3>1, GoodAlloc
  <2>m. /\ mine \in TaskType /\ mine.held = a.frame /\ mine.dir = task[current].dir
        /\ mine.phase = task[current].phase /\ mine.load = task[current].load
    BY <1>3, <2>1, Zenon DEF TaskType
  <2>2. OnlyMine(mine) /\ k' = k /\ halted' = "no"
    BY <1>1, <2>1, Zenon
  <2> HIDE DEF mine, a
  <2>3. /\ DOMAIN task' = DOMAIN task /\ task'[current] = mine
        /\ \A p \in DOMAIN task : p # current => task'[p] = task[p]
    BY <2>2, Zenon DEF OnlyMine
  <2>4. \A c \in DOMAIN mem.dirs : SameUser(mem, mem', c)
    BY <1>2, <2>1, SameHalfSameUser, Zenon
  <2>5. Good(mem', {}, {}, HeldFrames', {})
    <3>1. HeldFrames' = With(HeldFrames, a.frame)
      BY <1>3, <2>1, <2>2, <2>m, HeldMore, Zenon
    <3> QED
      BY <2>1, <3>1, Zenon
  <2>6. RunStep
    <3>1. \A p \in DOMAIN task : p # current => task[p].held = 0 \/ task[p].held # mine.held
      BY <2>1, <2>m, Zenon DEF HeldFrames
    <3>2. \A p \in DOMAIN task : SameUser(mem, mem', task[p].dir)
      BY <2>4, Zenon DEF RunningOk, TasksOk, TasksAt
    <3>3. DOMAIN mem'.dirs = DOMAIN mem.dirs
      BY <2>1, Zenon DEF SameUserHalf
    <3>4. k.op \in {"reset", "load", "mmap"} => task[current].phase = "user"
      BY Zenon DEF RunningOk, CurrentOk
    <3> QED
      BY <1>o, <1>2, <1>3, <2>1, <2>2, <2>3, <2>4, <2>m, <3>1, <3>2, <3>3, <3>4, Zenon DEF RunStep
  <2>7. PhaseAt(mem', task'[current], k'.op)
    <3>1. PhaseAt(mem', task[current], k.op)
      BY <1>3, <2>4, PhaseSame, Zenon
    <3>u. k.op = "load" => task[current].phase = "user"
      BY Zenon DEF RunningOk, CurrentOk
    <3>2. PhaseAt(mem', mine, k.op)
      BY <2>m, <3>1, <3>u, OpFacts, PhaseHeld, Zenon
    <3> QED
      BY <2>2, <2>3, <3>2, Zenon
  <2>8. OpOk'
    BY <2>2, OpFacts, Zenon DEF OpOk
  <2> QED
    BY <1>o, <2>5, <2>6, <2>7, <2>8, RunStepFacts, Zenon
<1> QED
  BY <1>a, <1>4, <1>5, Zenon

LEMMA LoadAllocStep ==
    ASSUME RunningOk, load_alloc
    PROVE  MemoryInv'
<1>1. /\ halted = "no" /\ current' = current /\ next_pid' = next_pid /\ task[current].held = 0
      /\ k.op = "load" \/ (k.op = "none" /\ task[current].phase = "load")
      /\ Hold(pmm_alloc(mem.regions))
  BY Zenon DEF load_alloc, CanLoad, me
<1> QED
  BY <1>1, HoldStep, Zenon

LEMMA JumpAllocStep ==
    ASSUME RunningOk, jump_to_usermode_alloc
    PROVE  MemoryInv'
<1>1. /\ halted = "no" /\ current' = current /\ next_pid' = next_pid /\ task[current].held = 0
      /\ k.op = "none" /\ task[current].phase = "stack"
      /\ Hold(pmm_alloc(mem.regions))
  BY Zenon DEF jump_to_usermode_alloc, Running, me
<1> QED
  BY <1>1, HoldStep, Zenon

-----------------------------------------------------------------------------
(* exec, up to the load; the start of mmap and of the collection. *)

LEMMA LoadOfFacts ==
    ASSUME NEW img, ImageOk(img)
    PROVE  LoadOk(LoadOf(img)) /\ LoadOf(img) \in LoadType /\ LoadOf(img).img = img
<1>1. EmptyBelow([dirs |-> [d \in {0} |-> [i \in ResetPdes |-> 0]]], 0)
  BY Zenon DEF EmptyBelow
<1>2. LoadOk(LoadOf(img)) /\ LoadOf(img) \in LoadType
  BY <1>1, LoadStart, Zenon
<1> QED
  BY <1>2, Zenon DEF LoadOf

(* Nothing but the kernel's state changes. *)
LEMMA KernelOnly ==
    ASSUME RunningOk, k.op \notin CloneOps, k.op # "boot", NEW mine, OnlyMine(mine), mine \in TaskType,
           mine.dir = task[current].dir, mine.phase = task[current].phase, mine.held = task[current].held,
           mem' = mem, current' = current, next_pid' = next_pid, halted' = "no",
           k' \in KType, k'.op \notin CloneOps, k'.op # "boot", k'.frame = 0,
           k'.op \in {"reset", "load", "mmap"} => task[current].phase = "user",
           PhaseAt(mem, mine, k'.op), OpOk'
    PROVE  MemoryInv'
<1>1. /\ current \in DOMAIN task /\ task[current].phase # "exited"
  BY NotBoot, Zenon
<1>2. /\ DOMAIN task' = DOMAIN task /\ task'[current] = mine
      /\ \A p \in DOMAIN task : p # current => task'[p] = task[p]
  BY Zenon DEF OnlyMine
<1>3. Good(mem', {}, {}, HeldFrames', {}) /\ DOMAIN mem'.transient = {}
  BY <1>1, PlainHand, HeldSame, Zenon
<1>4. \A p \in DOMAIN task : p # current => task[p].held = 0 \/ task[p].held # task[current].held
  BY <1>1, Zenon DEF RunningOk, TasksOk, TasksAt
<1>5. RunStep
  BY <1>1, <1>2, <1>3, <1>4, SameUserSelf, Zenon DEF RunStep
<1> QED
  BY <1>2, <1>3, <1>5, RunStepFacts, Zenon

LEMMA ExecStep ==
    ASSUME RunningOk, exec
    PROVE  MemoryInv'
<1>1. /\ k.op = "none" /\ task[current].phase = "user" /\ mem' = mem /\ current' = current /\ next_pid' = next_pid
      /\ halted' = "no" /\ k' = [Idle EXCEPT !.op = "reset"]
  BY Zenon DEF exec, Running, me
<1>2. PICK img \in Images : task' = [task EXCEPT ![current].load = LoadOf(img)]
  BY Zenon DEF exec
<1> DEFINE mine == [task[current] EXCEPT !.load = LoadOf(img)]
<1>3. /\ task[current] \in TaskType /\ PhaseAt(mem, task[current], "none") /\ current \in DOMAIN task
  BY <1>1, NotBoot, OpFacts, Zenon
<1>4. LoadOk(LoadOf(img)) /\ LoadOf(img) \in LoadType /\ LoadOf(img).img = img
  BY LoadOfFacts, ProgramAssumption, Zenon
<1>5. OnlyMine(mine)
  BY <1>2, <1>3, Zenon DEF OnlyMine
<1>6. /\ mine \in TaskType /\ mine.dir = task[current].dir /\ mine.phase = task[current].phase
      /\ mine.held = task[current].held /\ mine.load = LoadOf(img)
  BY <1>3, <1>4, Zenon DEF TaskType
<1> HIDE DEF mine
<1>7. PhaseAt(mem, mine, "reset")
  BY <1>1, <1>3, <1>4, <1>6, OpFacts, Zenon DEF PhaseAt
<1>8. k' \in KType /\ k'.op = "reset" /\ k'.frame = 0 /\ k'.i = 0
  BY <1>1, Zenon DEF KType, Idle, Ops
<1>9. OpOk'
  <2>1. \A i \in ResetPdes : ~(i < 0)
    BY DEF ResetPdes, UserPdes
  <2> QED
    BY <1>8, <2>1, OpFacts, Zenon DEF OpOk
<1> QED
  BY <1>1, <1>5, <1>6, <1>7, <1>8, <1>9, KernelOnly, OpFacts, Zenon

(* The same, when no task changes either. *)
LEMMA KernelAlone ==
    ASSUME RunningOk, k.op \notin CloneOps, k.op # "boot", task' = task,
           mem' = mem, current' = current, next_pid' = next_pid, halted' = "no",
           k' \in KType, k'.op \notin CloneOps, k'.op # "boot", k'.frame = 0,
           k'.op \in {"reset", "load", "mmap"} => task[current].phase = "user",
           PhaseAt(mem, task[current], k'.op), OpOk'
    PROVE  MemoryInv'
<1>1. task[current] \in TaskType /\ current \in DOMAIN task
  BY NotBoot, Zenon
<1>2. OnlyMine(task[current])
  BY Zenon DEF OnlyMine
<1> QED
  BY <1>1, <1>2, KernelOnly, Zenon

LEMMA ResetDoneStep ==
    ASSUME RunningOk, reset_done
    PROVE  MemoryInv'
<1>1. /\ k.op = "reset" /\ task' = task /\ mem' = mem /\ current' = current /\ next_pid' = next_pid
      /\ halted' = "no" /\ k' = [Idle EXCEPT !.op = "load"]
      /\ \A i \in ResetPdes : i >= k.i => mem.dirs[MyDir][i] = 0
  BY Zenon DEF reset_done, Busy
<1>2. /\ task[current] \in TaskType /\ PhaseAt(mem, task[current], "reset") /\ current \in DOMAIN task
      /\ MyDir = task[current].dir /\ k.i \in Nat
  BY <1>1, NotBoot, OpFacts, Zenon DEF KType
<1>3. task[current].phase = "user"
  BY <1>1, Zenon DEF RunningOk, CurrentOk
<1>4. EmptyBelow(mem, MyDir)
  <2>1. \A i \in ResetPdes : i < k.i => mem.dirs[MyDir][i] = 0
    BY <1>1, Zenon DEF RunningOk, OpOk
  <2>2. \A i \in ResetPdes : i < k.i \/ i >= k.i
    BY <1>2 DEF ResetPdes, UserPdes
  <2> QED
    BY <1>1, <2>1, <2>2, Zenon DEF EmptyBelow
<1>5. LoadOk(task[current].load) /\ Loaded(mem, MyDir, task[current].load)
  <2>1. LoadOk(task[current].load) /\ task[current].load = LoadOf(task[current].load.img)
    BY <1>2, OpFacts, Zenon DEF PhaseAt
  <2>2. ImageOk(task[current].load.img)
    BY <2>1, Zenon DEF LoadOk
  <2> QED
    BY <1>4, <2>1, <2>2, LoadStart, Zenon
<1>6. PhaseAt(mem, task[current], "load")
  BY <1>2, <1>3, <1>5, OpFacts, Zenon DEF PhaseAt
<1>7. k' \in KType /\ k'.op = "load" /\ k'.frame = 0
  BY <1>1, Zenon DEF KType, Idle, Ops
<1>8. OpOk'
  BY <1>7, OpFacts, Zenon DEF OpOk
<1> QED
  BY <1>1, <1>3, <1>6, <1>7, <1>8, KernelAlone, OpFacts, Zenon

LEMMA MmapStep ==
    ASSUME RunningOk, mmap
    PROVE  MemoryInv'
<1>1. /\ k.op = "none" /\ task[current].phase = "user" /\ task' = task /\ mem' = mem /\ current' = current
      /\ next_pid' = next_pid /\ halted' = "no"
  BY Zenon DEF mmap, Running, me
<1>2. PICK first \in MmapPages, n \in 1 .. MaxMmap, w \in BOOLEAN :
        /\ MmapPermitted(first, first + n - 1)
        /\ k' = [Idle EXCEPT !.op = "mmap", !.i = first, !.first = first, !.last = first + n - 1,
                             !.flags = SegmentFlags([w |-> w])]
  BY Zenon DEF mmap
<1>3. first \in Nat /\ first + n - 1 \in Nat /\ first \in first .. first + n - 1
  BY ProgramAssumption
<1>4. SegmentFlags([w |-> w]) \in SUBSET {"P", "W", "U"} /\ "P" \in SegmentFlags([w |-> w])
  BY Zenon DEF SegmentFlags
<1>5. /\ k' \in KType /\ k'.op = "mmap" /\ k'.frame = 0 /\ k'.i = first /\ k'.first = first /\ k'.last = first + n - 1
      /\ "P" \in k'.flags
  BY <1>2, <1>3, <1>4, Zenon DEF KType, Idle, Ops
<1>6. /\ PhaseAt(mem, task[current], "none") /\ Stacked(mem, MyDir)
  BY <1>1, NotBoot, OpFacts, Zenon
<1>7. PhaseAt(mem, task[current], "mmap")
  BY <1>6, PhaseOtherOp, OpFacts, Zenon
<1>8. MmapAt(mem, k', MyDir)
  <2>1. \A p \in first .. first + n - 1 : p \in UserPages /\ vmm_get_flags(mem, MyDir, p) = {} /\ ~(p < first)
    BY <1>2, <1>3 DEF MmapPermitted, vmm_get_flags
  <2>2. KERNEL_STACK \notin first .. first + n - 1
    BY <1>6, <2>1, Zenon DEF Stacked
  <2> QED
    BY <1>3, <1>5, <2>1, <2>2, Zenon DEF MmapAt
<1>9. OpOk'
  <2>1. MyDir' = MyDir
    BY <1>1, Zenon DEF MyDir
  <2> QED
    BY <1>1, <1>5, <1>8, <2>1, OpFacts, Zenon DEF OpOk
<1> QED
  BY <1>1, <1>5, <1>7, <1>9, KernelAlone, OpFacts, Zenon

LEMMA ExitedFacts ==
    ASSUME RunningOk, NEW S, S \subseteq Exited, S # {}
    PROVE  /\ LeastOf(S) \in S /\ LeastOf(S) \in Nat /\ task[LeastOf(S)].dir \in Nat
           /\ LeastOf(S) \in DOMAIN task
<1>1. S \in SUBSET (0 .. next_pid) /\ next_pid \in Nat /\ S \subseteq DOMAIN task
  <2>1. DOMAIN task \subseteq 0 .. next_pid - 1 /\ next_pid \in Nat /\ S \subseteq DOMAIN task
    BY Zenon DEF RunningOk, TypesOk, Exited
  <2>2. 0 .. next_pid - 1 \subseteq 0 .. next_pid
    BY <2>1
  <2> QED
    BY <2>1, <2>2, Zenon
<1>2. LeastOf(S) \in S
  BY <1>1, LeastFacts, Zenon
<1>3. task[LeastOf(S)] \in TaskType
  BY <1>1, <1>2, Zenon DEF RunningOk, TypesOk
<1>4. LeastOf(S) \in 0 .. next_pid /\ LeastOf(S) \in DOMAIN task
  BY <1>1, <1>2, Zenon
<1>5. LeastOf(S) \in Nat
  BY <1>4
<1>6. task[LeastOf(S)].dir \in Nat
  BY <1>3, Zenon DEF TaskType
<1> QED
  BY <1>2, <1>4, <1>5, <1>6, Zenon

LEMMA CollectStep ==
    ASSUME RunningOk, collect
    PROVE  MemoryInv'
<1> DEFINE p == LeastOf(Exited)
<1>1. /\ k.op = "none" /\ task' = task /\ mem' = mem /\ current' = current
      /\ next_pid' = next_pid /\ halted' = "no" /\ Exited # {}
      /\ k' = [Idle EXCEPT !.op = "collect", !.last = p, !.dir = task[p].dir]
  BY Zenon DEF collect, Running
<1>2. p \in Exited /\ p \in Nat /\ task[p].dir \in Nat
  BY <1>1, ExitedFacts, Zenon
<1> HIDE DEF p
<1>3. k' \in KType /\ k'.op = "collect" /\ k'.last = p /\ k'.dir = task[p].dir /\ k'.i = 0 /\ k'.frame = 0
  BY <1>1, <1>2, Zenon DEF KType, Idle, Ops
<1>4. PhaseAt(mem, task[current], "collect")
  BY <1>1, NotBoot, PhaseOtherOp, OpFacts, Zenon
<1>5. OpOk'
  <2>1. CollectOk'
    <3>1. \A i \in UserPdes : ~(i < 0)
      BY DEF UserPdes
    <3>2. Exited' = Exited
      BY <1>1, Zenon DEF Exited, Runnable
    <3> QED
      BY <1>1, <1>2, <1>3, <3>1, <3>2 DEF CollectOk
  <2> QED
    BY <1>3, <2>1, OpFacts, Zenon DEF OpOk
<1> QED
  BY <1>1, <1>3, <1>4, <1>5, KernelAlone, OpFacts, Zenon

-----------------------------------------------------------------------------
(* Steps that change the running task's address space. *)

MyStep(mine) ==
    /\ OnlyMine(mine) /\ mine \in TaskType /\ mine.dir = task[current].dir /\ mine.phase # "exited"
    /\ task[current].phase = "kernel" => mine.phase = "kernel"
    /\ mine.held = 0 \/ mine.held = task[current].held
    /\ current' = current /\ next_pid' = next_pid /\ halted' = "no"
    /\ k' \in KType /\ k'.op \notin CloneOps /\ k'.op # "boot" /\ k'.frame = 0
    /\ k'.op \in {"reset", "load", "mmap"} => mine.phase = "user"
    /\ DOMAIN mem'.dirs = DOMAIN mem.dirs /\ DOMAIN mem'.transient = {}
    /\ \A c \in DOMAIN mem.dirs : c # MyDir => SameUser(mem, mem', c)

LEMMA MyStepFacts ==
    ASSUME RunningOk, k.op \notin CloneOps, k.op # "boot", NEW mine, MyStep(mine),
           Good(mem', {}, {}, HeldFrames', {}), PhaseAt(mem', mine, k'.op), OpOk'
    PROVE  MemoryInv'
<1>1. current \in DOMAIN task /\ MyDir = task[current].dir /\ MyDir # 0 /\ 0 \in DOMAIN mem.dirs
  BY NotBoot, Zenon
<1>2. /\ DOMAIN task' = DOMAIN task /\ task'[current] = mine
      /\ \A p \in DOMAIN task : p # current => task'[p] = task[p]
  BY Zenon DEF OnlyMine, MyStep
<1>3. TasksAt(task, mem.dirs, {}, 0)
  BY PlainHand, Zenon DEF RunningOk, TasksOk
<1>4. \A p \in DOMAIN task : p # current => task[p].held = 0 \/ task[p].held # mine.held
  BY <1>1, <1>3, Zenon DEF TasksAt, MyStep
<1>5. SameUser(mem, mem', 0)
  BY <1>1, Zenon DEF MyStep
<1>6. \A p \in DOMAIN task : p # current => SameUser(mem, mem', task[p].dir)
  BY <1>1, <1>3, Zenon DEF TasksAt, MyStep
<1>7. RunStep
  BY <1>2, <1>4, <1>5, <1>6, Zenon DEF RunStep, MyStep
<1> QED
  BY <1>2, <1>7, RunStepFacts, Zenon

LEMMA ResetPdeStep ==
    ASSUME RunningOk, reset_pde
    PROVE  MemoryInv'
<1>1. PICK i \in ResetPdes :
        /\ k.op = "reset" /\ task' = task /\ current' = current /\ next_pid' = next_pid
        /\ NextPde(MyDir, ResetPdes, i) /\ Do(free_pde(mem, MyDir, i), [k EXCEPT !.i = i + 1])
  BY Zenon DEF reset_pde, Busy
<1> DEFINE r == free_pde(mem, MyDir, i)
<1>o. k.op \notin CloneOps /\ k.op # "boot"
  BY <1>1, OpFacts, Zenon
<1>2. Good(mem, {}, {}, HeldFrames, {}) /\ DOMAIN mem.transient = {} /\ k.frame = 0
  BY <1>o, PlainHand, Zenon
<1>3. /\ current \in DOMAIN task /\ MyDir = task[current].dir /\ MyDir \in DOMAIN mem.dirs
      /\ task[current] \in TaskType /\ PhaseAt(mem, task[current], "reset") /\ k \in KType
      /\ Stacked(mem, MyDir)
  BY <1>1, <1>o, NotBoot, Zenon
<1>4. /\ i \in UserPdes /\ i \in Nat /\ i # USER_PDE_END /\ k.i \in Nat /\ k.i <= i /\ mem.dirs[MyDir][i] # 0
      /\ \A p \in ResetPdes : k.i <= p /\ p < i => mem.dirs[MyDir][p] = 0
      /\ task[current].phase = "user"
  BY <1>1, <1>3, LayoutFacts DEF NextPde, KType, UserPdes, ResetPdes, RunningOk, CurrentOk
<1>5. r.err = "no" /\ Good(r.mem, {}, {}, HeldFrames, {}) /\ EmptiesAt(mem, r.mem, MyDir, i)
  BY <1>2, <1>3, <1>4, FreePdeFacts
<1>6. mem' = r.mem /\ halted' = "no" /\ k' = [k EXCEPT !.i = i + 1]
  BY <1>1, <1>5, Zenon DEF Do
<1>7. k' \in KType /\ k'.op = "reset" /\ k'.i = i + 1 /\ k'.frame = 0
  <2>1. i + 1 \in Nat
    BY <1>4
  <2> QED
    BY <1>1, <1>2, <1>3, <1>6, <2>1, Zenon DEF KType
<1> HIDE DEF r
<1>8. /\ DOMAIN mem'.dirs = DOMAIN mem.dirs /\ DOMAIN mem'.transient = {}
      /\ \A c \in DOMAIN mem.dirs : c # MyDir => SameUser(mem, mem', c)
      /\ mem'.dirs[MyDir][i] = 0
      /\ \A j \in UserPdes : j # i =>
            /\ mem'.dirs[MyDir][j] = mem.dirs[MyDir][j]
            /\ mem.dirs[MyDir][j] # 0 => mem'.tables[mem.dirs[MyDir][j]] = mem.tables[mem.dirs[MyDir][j]]
  BY <1>2, <1>5, <1>6, Zenon DEF EmptiesAt
<1>9. MyStep(task[current])
  BY <1>1, <1>3, <1>4, <1>6, <1>7, <1>8, OpFacts, Zenon DEF MyStep, OnlyMine
<1>10. Stacked(mem', MyDir)
  <2>1. va_info_ex(mem', MyDir, KERNEL_STACK) = va_info_ex(mem, MyDir, KERNEL_STACK)
    BY <1>4, <1>8, LayoutFacts, Zenon DEF va_info_ex
  <2> QED
    BY <1>3, <2>1, Zenon DEF Stacked, vmm_get_flags, Present
<1>11. PhaseAt(mem', task[current], "reset")
  BY <1>3, <1>4, <1>10, OpFacts, Zenon DEF PhaseAt
<1>12. OpOk'
  <2>1. \A j \in ResetPdes : j < k.i => mem.dirs[MyDir][j] = 0
    BY <1>1, Zenon DEF RunningOk, OpOk
  <2>2. ASSUME NEW j \in ResetPdes, j < i + 1
        PROVE  mem'.dirs[MyDir][j] = 0
    <3>0. j \in UserPdes /\ j \in Nat
      BY LayoutFacts DEF UserPdes
    <3>1. CASE j = i
      BY <1>8, <3>1, Zenon
    <3>2. CASE j # i
      <4>1. j < i
        BY <1>4, <2>2, <3>0, <3>2
      <4>2. j < k.i \/ k.i <= j
        BY <1>4, <3>0
      <4>3. mem.dirs[MyDir][j] = 0
        BY <1>4, <2>1, <4>1, <4>2, Zenon
      <4> QED
        BY <1>8, <3>0, <3>2, <4>3, Zenon
    <3> QED
      BY <3>1, <3>2, Zenon
  <2>3. MyDir' = MyDir
    BY <1>1, Zenon DEF MyDir
  <2> QED
    BY <1>7, <2>2, <2>3, OpFacts, Zenon DEF OpOk
<1>13. Good(mem', {}, {}, HeldFrames', {})
  <2>1. HeldFrames' = HeldFrames
    BY <1>1, Zenon DEF HeldFrames
  <2> QED
    BY <1>5, <1>6, <2>1, Zenon
<1> QED
  BY <1>o, <1>7, <1>9, <1>11, <1>12, <1>13, MyStepFacts, Zenon

(* What the mapping of a page leaves alone. *)
LEMMA MapsKeeps ==
    ASSUME NEW m, NEW after, NEW d, NEW page, NEW entry, MapsAt(m, after, d, page, entry),
           NEW q \in Nat, Dir(q) \in UserPdes, q # page
    PROVE  vmm_get_flags(after, d, q) = vmm_get_flags(m, d, q) /\ (Present(after, d, q) <=> Present(m, d, q))
<1>1. va_info_ex(after, d, q) = va_info_ex(m, d, q)
  BY Zenon DEF MapsAt
<1> QED
  BY <1>1, Zenon DEF vmm_get_flags, Present

LEMMA MapsFlags ==
    ASSUME NEW m, NEW after, NEW d, NEW page, NEW frame, NEW flags, "P" \in flags,
           MapsAt(m, after, d, page, Pte(frame, flags))
    PROVE  vmm_get_flags(after, d, page) = flags /\ Present(after, d, page)
BY DEF MapsAt, Pte, vmm_get_flags, Present

LEMMA JumpMapStep ==
    ASSUME RunningOk, jump_to_usermode_map
    PROVE  MemoryInv'
<1> DEFINE held == task[current].held
           flags == {"P", "W", "U"}
           r == vmm_map(mem, MyDir, USER_STACK, held, flags)
           mine == [task[current] EXCEPT !.held = 0, !.phase = "user"]
<1>1. /\ k.op = "none" /\ task[current].phase = "stack" /\ held # 0 /\ current' = current /\ next_pid' = next_pid
      /\ halted = "no"
      /\ r.err # "no" => halted' = r.err /\ mem' = mem /\ task' = task
      /\ r.err = "no" => /\ mem' = r.mem /\ k' = k /\ halted' = "no"
                         /\ task' = [task EXCEPT ![current].held = 0, ![current].phase = "user"]
  BY Zenon DEF jump_to_usermode_map, Running, me, EnterUser, Halt
<1>o. k.op \notin CloneOps /\ k.op # "boot"
  BY <1>1, OpFacts, Zenon
<1>2. Good(mem, {}, {}, HeldFrames, {}) /\ DOMAIN mem.transient = {} /\ k.frame = 0
  BY <1>o, PlainHand, Zenon
<1>3. /\ current \in DOMAIN task /\ MyDir = task[current].dir /\ MyDir \in DOMAIN mem.dirs
      /\ task[current] \in TaskType /\ PhaseAt(mem, task[current], "none") /\ k \in KType
      /\ Stacked(mem, MyDir)
  BY <1>1, <1>o, NotBoot, Zenon
<1>4. held \in HeldFrames /\ held \in Nat /\ flags \in SUBSET {"P", "W", "U"} /\ ~Present(mem, MyDir, USER_STACK)
      /\ task[current].load = NoLoad
  BY <1>1, <1>3, OpFacts, Zenon DEF HeldFrames, TaskType, PhaseAt, NoUserStack
<1>m. /\ mine \in TaskType /\ mine.dir = task[current].dir /\ mine.phase = "user" /\ mine.held = 0 /\ mine.load = NoLoad
  BY <1>3, <1>4, Zenon DEF TaskType
<1>t. r.err = "no" => OnlyMine(mine)
  BY <1>1, <1>3, Zenon DEF OnlyMine
<1>r. r = vmm_map(mem, MyDir, USER_STACK, held, flags) /\ held = task[current].held /\ "P" \in flags
  BY Zenon
<1> HIDE DEF r, mine, held, flags
<1>5. \/ /\ r.err = "no" /\ Good(r.mem, {}, {}, Without(HeldFrames, held), {})
         /\ MapsAt(mem, r.mem, MyDir, USER_STACK, Pte(held, flags))
      \/ r.mem = mem /\ HaltCause(r.err, mem)
  BY <1>2, <1>3, <1>4, <1>r, LayoutFacts, VmmMapFacts
<1>6. CASE r.mem = mem /\ HaltCause(r.err, mem)
  <2>1. r.err # "no"
    BY <1>6, Zenon DEF HaltCause
  <2> QED
    BY <1>1, <1>6, <2>1, HaltStep, SameUserSelf, Zenon
<1>7. CASE /\ r.err = "no" /\ Good(r.mem, {}, {}, Without(HeldFrames, held), {})
           /\ MapsAt(mem, r.mem, MyDir, USER_STACK, Pte(held, flags))
  <2>1. mem' = r.mem /\ k' = k /\ halted' = "no" /\ OnlyMine(mine)
    BY <1>1, <1>7, <1>t, Zenon
  <2>2. Good(mem', {}, {}, HeldFrames', {})
    <3>1. HeldFrames' = Without(HeldFrames, held)
      BY <1>1, <1>3, <1>m, <1>r, <2>1, HeldLess, Zenon
    <3> QED
      BY <1>7, <2>1, <3>1, Zenon
  <2>3. MyStep(mine)
    <3>1. /\ DOMAIN mem'.dirs = DOMAIN mem.dirs /\ DOMAIN mem'.transient = {}
          /\ \A c \in DOMAIN mem.dirs : c # MyDir => SameUser(mem, mem', c)
      BY <1>2, <1>7, <2>1, Zenon DEF MapsAt
    <3> QED
      BY <1>1, <1>2, <1>3, <1>m, <2>1, <3>1, OpFacts, Zenon DEF MyStep
  <2>4. PhaseAt(mem', mine, k'.op)
    <3>1. Stacked(mem', MyDir)
      BY <1>3, <1>7, <2>1, LayoutFacts, MapsKeeps DEF Stacked
    <3> QED
      BY <1>1, <1>3, <1>m, <2>1, <3>1, OpFacts, Zenon DEF PhaseAt
  <2>5. OpOk'
    BY <1>1, <2>1, OpFacts, Zenon DEF OpOk
  <2> QED
    BY <1>o, <2>2, <2>3, <2>4, <2>5, MyStepFacts, Zenon
<1> QED
  BY <1>5, <1>6, <1>7, Zenon

(* What is known while mmap runs. *)
LEMMA MmapFacts ==
    ASSUME RunningOk, k.op = "mmap"
    PROVE  /\ k.first \in Nat /\ k.last \in Nat /\ k.i \in k.first .. k.last /\ k.i \in Nat
           /\ k.flags \in SUBSET {"P", "W", "U"} /\ "P" \in k.flags
           /\ \A p \in k.first .. k.last :
                /\ p \in Nat /\ Dir(p) \in UserPdes /\ p # KERNEL_STACK
                /\ p < k.i => vmm_get_flags(mem, MyDir, p) = k.flags
                /\ p >= k.i => vmm_get_flags(mem, MyDir, p) = {}
           /\ task[current].phase = "user" /\ task[current].held = 0
<1>1. MmapAt(mem, k, MyDir) /\ k \in KType
  BY Zenon DEF RunningOk, OpOk, TypesOk
<1>2. k.first \in Nat /\ k.last \in Nat /\ k.i \in k.first .. k.last /\ k.i \in Nat
  BY <1>1, Zenon DEF MmapAt, KType
<1>3. ASSUME NEW p \in k.first .. k.last
      PROVE  /\ p \in Nat /\ Dir(p) \in UserPdes /\ p # KERNEL_STACK
             /\ p < k.i => vmm_get_flags(mem, MyDir, p) = k.flags
             /\ p >= k.i => vmm_get_flags(mem, MyDir, p) = {}
  <2>1. p \in Nat /\ p # KERNEL_STACK /\ p \in UserPages
    BY <1>1, <1>2 DEF MmapAt
  <2>2. p < (USER_PDE_END + 1) * TableSize
    BY <2>1, ProgramAssumption, VmmAssumption DEF UserPages
  <2>3. Dir(p) \in Nat /\ Dir(p) < USER_PDE_END + 1
    BY <2>1, <2>2, DirBound, PageFacts, VmmAssumption
  <2>4. Dir(p) \in UserPdes
    BY <2>3, VmmAssumption DEF UserPdes
  <2>5. vmm_get_flags(mem, MyDir, p) = IF p < k.i THEN k.flags ELSE {}
    BY <1>1, Zenon DEF MmapAt
  <2>6. p >= k.i => ~(p < k.i)
    BY <1>2, <2>1
  <2> QED
    BY <2>1, <2>4, <2>5, <2>6, Zenon
<1>4. task[current].phase = "user"
  BY Zenon DEF RunningOk, CurrentOk
<1>5. task[current].held = 0
  BY <1>4, NotBoot, OpFacts, Zenon DEF PhaseAt
<1> QED
  BY <1>1, <1>2, <1>3, <1>4, <1>5, Zenon DEF MmapAt, KType

(* The roll back. *)
LEMMA MmapBackStep ==
    ASSUME RunningOk, k.op = "mmap", mem' = mmap_rollback(mem, k.first, k.i), k' = Idle, halted' = "no",
           task' = task, current' = current, next_pid' = next_pid
    PROVE  MemoryInv' /\ \A p \in k.first .. k.last : ~Present(mem', MyDir, p)
<1> DEFINE pages == k.first .. k.i - 1
<1>o. k.op \notin CloneOps /\ k.op # "boot"
  BY OpFacts, Zenon
<1>2. Good(mem, {}, {}, HeldFrames, {}) /\ DOMAIN mem.transient = {} /\ k.frame = 0
  BY <1>o, PlainHand, Zenon
<1>3. /\ current \in DOMAIN task /\ MyDir = task[current].dir /\ MyDir \in DOMAIN mem.dirs
      /\ task[current] \in TaskType /\ PhaseAt(mem, task[current], "mmap") /\ Stacked(mem, MyDir)
      /\ task[current].phase = "user"
  BY <1>o, NotBoot, MmapFacts, Zenon
<1>4. \A p \in pages : p \in k.first .. k.last /\ p < k.i
  BY MmapFacts
<1>5. MappedPages(mem, MyDir, pages)
  <2>1. \A p \in pages : p \in Nat /\ Dir(p) \in UserPdes /\ vmm_get_flags(mem, MyDir, p) = k.flags /\ "P" \in k.flags
    BY <1>4, MmapFacts, Zenon
  <2>2. \A p \in pages : Present(mem, MyDir, p)
    BY <2>1, Zenon DEF vmm_get_flags
  <2> HIDE DEF pages
  <2> QED
    BY <2>1, <2>2, Zenon DEF MappedPages
<1>6. mem' = vmm_unmap(mem, MyDir, pages)
  BY Zenon DEF mmap_rollback
<1>p. \A p \in k.first .. k.last : p \notin pages => p >= k.i
  BY MmapFacts
<1>s. KERNEL_STACK \notin pages
  BY <1>4, MmapFacts, Zenon
<1> HIDE DEF pages
<1>7. /\ Good(mem', {}, {}, HeldFrames, {}) /\ ReflagsAt(mem, mem', MyDir, pages)
      /\ \A p \in pages : ~Present(mem', MyDir, p)
  BY <1>2, <1>3, <1>5, <1>6, UnmapFacts, Zenon
<1>8. \A q \in Nat : Dir(q) \in UserPdes /\ q \notin pages => va_info_ex(mem', MyDir, q) = va_info_ex(mem, MyDir, q)
  BY <1>7, Zenon DEF ReflagsAt
<1>9. Stacked(mem', MyDir)
  BY <1>3, <1>8, <1>s, LayoutFacts, Zenon DEF Stacked, vmm_get_flags, Present
<1>10. \A p \in k.first .. k.last : ~Present(mem', MyDir, p)
  <2> SUFFICES ASSUME NEW p \in k.first .. k.last, p \notin pages
               PROVE  ~Present(mem', MyDir, p)
    BY <1>7, Zenon
  <2>1. p \in Nat /\ Dir(p) \in UserPdes /\ vmm_get_flags(mem, MyDir, p) = {}
    BY <1>p, MmapFacts, Zenon
  <2>2. ~Present(mem, MyDir, p)
    BY <2>1, Zenon DEF vmm_get_flags, Present
  <2> QED
    BY <1>8, <2>1, <2>2, Zenon DEF Present
<1>11. k' \in KType /\ k'.op = "none" /\ k'.frame = 0
  BY Zenon DEF Idle, KType, Ops
<1>12. MyStep(task[current])
  <2>1. /\ DOMAIN mem'.dirs = DOMAIN mem.dirs /\ DOMAIN mem'.transient = {}
        /\ \A c \in DOMAIN mem.dirs : c # MyDir => SameUser(mem, mem', c)
    BY <1>2, <1>7, Zenon DEF ReflagsAt
  <2> QED
    BY <1>3, <1>11, <2>1, OpFacts, Zenon DEF MyStep, OnlyMine
<1>13. PhaseAt(mem', task[current], "none")
  BY <1>3, <1>9, OpFacts, Zenon DEF PhaseAt
<1>14. OpOk'
  BY <1>11, OpFacts, Zenon DEF OpOk
<1>15. Good(mem', {}, {}, HeldFrames', {})
  <2>1. HeldFrames' = HeldFrames
    BY Zenon DEF HeldFrames
  <2> QED
    BY <1>7, <2>1, Zenon
<1>16. MemoryInv'
  BY <1>o, <1>11, <1>12, <1>13, <1>14, <1>15, MyStepFacts, Zenon
<1> QED
  BY <1>10, <1>16, Zenon

(* One more page. *)
NextMmap == IF k.i = k.last THEN Idle ELSE [k EXCEPT !.i = k.i + 1]

LEMMA MmapMoreStep ==
    ASSUME RunningOk, k.op = "mmap", NEW a, AllocGives(mem.regions, a), NEW r,
           r = vmm_map(WithRegions(mem, a.regions), MyDir, k.i, a.frame, k.flags),
           mem' = r.mem, halted' = r.err, r.err = "no" => k' = NextMmap,
           task' = task, current' = current, next_pid' = next_pid
    PROVE  /\ MemoryInv'
           /\ halted' = "no" /\ k'.op = "none" => \A p \in k.first .. k.last : vmm_get_flags(mem', MyDir, p) = k.flags
<1> DEFINE m == WithRegions(mem, a.regions)
<1>o. k.op \notin CloneOps /\ k.op # "boot"
  BY OpFacts, Zenon
<1>2. Good(mem, {}, {}, HeldFrames, {}) /\ DOMAIN mem.transient = {} /\ k.frame = 0
  BY <1>o, PlainHand, Zenon
<1>3. /\ current \in DOMAIN task /\ MyDir = task[current].dir /\ MyDir \in DOMAIN mem.dirs
      /\ task[current] \in TaskType /\ PhaseAt(mem, task[current], "mmap") /\ Stacked(mem, MyDir)
      /\ task[current].phase = "user" /\ k \in KType
  BY <1>o, NotBoot, MmapFacts, Zenon
<1>r. m = WithRegions(mem, a.regions) /\ r = vmm_map(m, MyDir, k.i, a.frame, k.flags)
  BY Zenon
<1> HIDE DEF m
<1>4. /\ Good(m, {}, {}, With(HeldFrames, a.frame), {}) /\ SameUserHalf(mem, m)
      /\ m.transient = mem.transient /\ a.frame \notin HeldFrames /\ a.frame \in Nat
  BY <1>2, <1>r, GoodAlloc
<1>5. /\ \A c \in DOMAIN mem.dirs : SameUser(mem, m, c)
      /\ m.dirs = mem.dirs /\ MyDir \in DOMAIN m.dirs /\ a.frame \in With(HeldFrames, a.frame)
  BY <1>2, <1>3, <1>4, SameHalfSameUser, Zenon DEF SameUserHalf, With
<1>6. \A q : Dir(q) \in UserPdes => vmm_get_flags(m, MyDir, q) = vmm_get_flags(mem, MyDir, q)
  BY <1>3, <1>5, SameUserView
<1>7. k.i \in Nat /\ Dir(k.i) \in UserPdes /\ ~Present(m, MyDir, k.i) /\ k.flags \in SUBSET {"P", "W", "U"}
      /\ k.i # KERNEL_STACK /\ "P" \in k.flags
  <2>1. k.i \in Nat /\ Dir(k.i) \in UserPdes /\ k.flags \in SUBSET {"P", "W", "U"} /\ vmm_get_flags(mem, MyDir, k.i) = {}
        /\ k.i # KERNEL_STACK /\ "P" \in k.flags
    BY MmapFacts
  <2>2. vmm_get_flags(m, MyDir, k.i) = {}
    BY <1>6, <2>1, Zenon
  <2> QED
    BY <2>1, <2>2, Zenon DEF vmm_get_flags, Present
<1>8. \/ /\ r.err = "no" /\ Good(r.mem, {}, {}, Without(With(HeldFrames, a.frame), a.frame), {})
         /\ MapsAt(m, r.mem, MyDir, k.i, Pte(a.frame, k.flags))
      \/ r.mem = m /\ HaltCause(r.err, m)
  BY <1>4, <1>5, <1>7, <1>r, VmmMapFacts
<1>9. CASE r.mem = m /\ HaltCause(r.err, m)
  <2>1. HaltCause(halted', mem') /\ SameUser(mem, mem', MyDir) /\ halted' # "no"
    BY <1>3, <1>5, <1>9, Zenon DEF HaltCause
  <2> QED
    BY <2>1, HaltStep, Zenon
<1>10. CASE /\ r.err = "no" /\ Good(r.mem, {}, {}, Without(With(HeldFrames, a.frame), a.frame), {})
            /\ MapsAt(m, r.mem, MyDir, k.i, Pte(a.frame, k.flags))
  <2>1. halted' = "no" /\ k' = NextMmap /\ MapsAt(m, mem', MyDir, k.i, Pte(a.frame, k.flags))
    BY <1>10, Zenon
  <2>2. Good(mem', {}, {}, HeldFrames', {})
    <3>1. HeldFrames' = HeldFrames
      BY Zenon DEF HeldFrames
    <3>2. Without(With(HeldFrames, a.frame), a.frame) = HeldFrames
      BY <1>4, Zenon DEF With, Without
    <3> QED
      BY <1>10, <3>1, <3>2, Zenon
  <2>3. /\ DOMAIN mem'.dirs = DOMAIN mem.dirs /\ DOMAIN mem'.transient = {}
        /\ \A c \in DOMAIN mem.dirs : c # MyDir => SameUser(m, mem', c)
    BY <1>2, <1>4, <1>5, <2>1, Zenon DEF MapsAt
  <2>4. \A c \in DOMAIN mem.dirs : c # MyDir => SameUser(mem, mem', c)
    BY <1>5, <2>3, SameUserTwice, Zenon
  <2>5. /\ vmm_get_flags(mem', MyDir, k.i) = k.flags
        /\ \A q \in Nat : Dir(q) \in UserPdes /\ q # k.i => vmm_get_flags(mem', MyDir, q) = vmm_get_flags(mem, MyDir, q)
    BY <1>6, <1>7, <2>1, MapsFlags, MapsKeeps
  <2>6. Stacked(mem', MyDir)
    BY <1>3, <1>7, <2>5, LayoutFacts, Zenon DEF Stacked
  <2>7. /\ k.i # k.last => k' = [k EXCEPT !.i = k.i + 1]
        /\ k.i = k.last => k' = Idle
    BY <2>1, Zenon DEF NextMmap
  <2>8. /\ k' \in KType /\ k'.frame = 0 /\ k'.op \in {"none", "mmap"}
        /\ k.i = k.last => k'.op = "none"
        /\ k.i # k.last => /\ k'.op = "mmap" /\ k'.i = k.i + 1 /\ k'.first = k.first /\ k'.last = k.last
                           /\ k'.flags = k.flags
    <3>1. CASE k.i = k.last
      BY <2>7, <3>1 DEF Idle, KType, Ops
    <3>2. CASE k.i # k.last
      <4>1. k.i + 1 \in Nat
        BY <1>7
      <4> QED
        BY <1>2, <1>3, <2>7, <3>2, <4>1, Zenon DEF KType
    <3> QED
      BY <3>1, <3>2, Zenon
  <2>9. MyStep(task[current])
    BY <1>3, <2>1, <2>3, <2>4, <2>8, OpFacts, Zenon DEF MyStep, OnlyMine
  <2>10. PhaseAt(mem', task[current], k'.op)
    BY <1>3, <2>6, <2>8, OpFacts, Zenon DEF PhaseAt
  <2>11. ASSUME NEW p \in k.first .. k.last
         PROVE  /\ p \in UserPages /\ p \in Nat /\ p # KERNEL_STACK
                /\ p < k.i + 1 => vmm_get_flags(mem', MyDir, p) = k.flags
                /\ p >= k.i + 1 => vmm_get_flags(mem', MyDir, p) = {}
    <3>1. /\ p \in Nat /\ Dir(p) \in UserPdes /\ p # KERNEL_STACK
          /\ p < k.i => vmm_get_flags(mem, MyDir, p) = k.flags
          /\ p >= k.i => vmm_get_flags(mem, MyDir, p) = {}
      BY MmapFacts, Zenon
    <3>2. p \in UserPages
      BY Zenon DEF RunningOk, OpOk, MmapAt
    <3>3. p < k.i + 1 /\ p # k.i => p < k.i
      BY <1>7, <3>1
    <3>4. p >= k.i + 1 => p >= k.i /\ p # k.i
      BY <1>7, <3>1
    <3>5. p # k.i => vmm_get_flags(mem', MyDir, p) = vmm_get_flags(mem, MyDir, p)
      BY <2>5, <3>1, Zenon
    <3>6. p < k.i + 1 => vmm_get_flags(mem', MyDir, p) = k.flags
      BY <2>5, <3>1, <3>3, <3>5, Zenon
    <3>7. p >= k.i + 1 => vmm_get_flags(mem', MyDir, p) = {}
      BY <3>1, <3>4, <3>5, Zenon
    <3> QED
      BY <3>1, <3>2, <3>6, <3>7, Zenon
  <2>12. OpOk'
    <3>0. MyDir' = MyDir
      BY Zenon DEF MyDir
    <3>1. CASE k.i = k.last
      BY <2>8, <3>1, OpFacts, Zenon DEF OpOk
    <3>2. CASE k.i # k.last
      <4>1. /\ k'.op = "mmap" /\ k'.i = k.i + 1 /\ k'.first = k.first /\ k'.last = k.last
            /\ k'.flags = k.flags
        BY <2>8, <3>2, Zenon
      <4>2. k.i + 1 \in k.first .. k.last
        BY <3>2, MmapFacts
      <4>3. \A p \in k.first .. k.last : ~(p < k.i + 1) => p >= k.i + 1
        BY <1>7, <2>11
      <4>4. \A p \in k.first .. k.last :
              p \in UserPages /\ vmm_get_flags(mem', MyDir, p) = IF p < k.i + 1 THEN k.flags ELSE {}
        BY <2>11, <4>3, Zenon
      <4>5. KERNEL_STACK \notin k.first .. k.last
        BY <2>11, Zenon
      <4>6. MmapAt(mem', k', MyDir)
        BY <1>7, <4>1, <4>2, <4>4, <4>5, Zenon DEF MmapAt
      <4> QED
        BY <3>0, <4>1, <4>6, OpFacts, Zenon DEF OpOk
    <3> QED
      BY <3>1, <3>2, Zenon
  <2>13. MemoryInv'
    BY <1>o, <2>2, <2>9, <2>10, <2>12, MyStepFacts, Zenon
  <2>14. ASSUME k'.op = "none", NEW p \in k.first .. k.last
         PROVE  vmm_get_flags(mem', MyDir, p) = k.flags
    <3>1. k.i = k.last
      BY <2>8, <2>14, Zenon
    <3>2. p < k.i + 1
      BY <3>1, MmapFacts
    <3> QED
      BY <2>11, <3>2, Zenon
  <2> QED
    BY <2>13, <2>14, Zenon
<1> QED
  BY <1>8, <1>9, <1>10, Zenon

LEMMA MmapPageStep ==
    ASSUME RunningOk, mmap_page
    PROVE  /\ MemoryInv'
           /\ halted' = "no" /\ k'.op = "none" =>
                \/ \A p \in k.first .. k.last : vmm_get_flags(mem', MyDir, p) = k.flags
                \/ \A p \in k.first .. k.last : ~Present(mem', MyDir, p)
<1> DEFINE a == pmm_alloc(mem.regions)
           r == vmm_map(WithRegions(mem, a.regions), MyDir, k.i, a.frame, k.flags)
<1>1. /\ k.op = "mmap" /\ halted = "no" /\ current' = current /\ next_pid' = next_pid /\ task' = task
  BY Zenon DEF mmap_page, Busy
<1>2. \/ a.frame = INVALID_FRAME /\ mem' = mmap_rollback(mem, k.first, k.i) /\ k' = Idle /\ halted' = "no"
      \/ a.frame = FRAME_ASSERT /\ halted' = "bitset" /\ mem' = mem
      \/ GotFrame(a) /\ mem' = r.mem /\ halted' = r.err /\ (r.err = "no" => k' = NextMmap)
  BY <1>1, Zenon DEF mmap_page, MmapPage, Do, Halt, NextMmap
<1>3. Good(mem, {}, {}, HeldFrames, {})
  BY <1>1, OpFacts, PlainHand, Zenon
<1>a. AllocGives(mem.regions, a) \/ AllocFails(mem.regions, a)
  BY <1>3, AllocFacts, Zenon DEF Good
<1>r. r = vmm_map(WithRegions(mem, a.regions), MyDir, k.i, a.frame, k.flags)
  BY Zenon
<1> HIDE DEF a, r
<1>4. CASE a.frame = INVALID_FRAME /\ mem' = mmap_rollback(mem, k.first, k.i) /\ k' = Idle /\ halted' = "no"
  BY <1>1, <1>4, MmapBackStep, Zenon
<1>5. CASE a.frame = FRAME_ASSERT /\ halted' = "bitset" /\ mem' = mem
  <2>1. AllocFails(mem.regions, a)
    BY <1>a, <1>5, Zenon DEF AllocGives, GotFrame
  <2>2. HaltCause(halted', mem')
    BY <1>5, <2>1, AllocHalt, Zenon DEF NoFrame, INVALID_FRAME, FRAME_ASSERT
  <2> QED
    BY <1>1, <1>5, <2>2, HaltStep, SameUserSelf, Zenon
<1>6. CASE GotFrame(a) /\ mem' = r.mem /\ halted' = r.err /\ (r.err = "no" => k' = NextMmap)
  <2>1. AllocGives(mem.regions, a)
    BY <1>a, <1>6, Zenon DEF AllocFails
  <2> QED
    BY <1>1, <1>6, <1>r, <2>1, MmapMoreStep, Zenon
<1> QED
  BY <1>2, <1>4, <1>5, <1>6, Zenon

-----------------------------------------------------------------------------
(* The loader. *)

SegPages(load, s) == load.img[s].first .. load.img[s].last

LEMMA LoadOkFacts ==
    ASSUME NEW load, LoadOk(load)
    PROVE  /\ load.seg \in Nat /\ load.seg >= 1 /\ load.seg <= Len(load.img) /\ Len(load.img) \in Nat
           /\ \A s \in 1 .. Len(load.img) : load.img[s] \in SegmentType
           /\ \A s \in 1 .. Len(load.img) : \A p \in SegPages(load, s) : p \in LowPages
           /\ \A s, t \in 1 .. Len(load.img) : \A p \in SegPages(load, s) : p \in SegPages(load, t) => s = t
           /\ load.page \in SegPages(load, load.seg) /\ load.page \in Nat
           /\ \A s \in 1 .. Len(load.img) : load.img[s].first <= load.img[s].last
<1>1. ImageOk(load.img) /\ load.seg \in 1 .. Len(load.img) /\ load.page \in SegPages(load, load.seg)
  BY Zenon DEF LoadOk, SegPages
<1>2. load.img \in Seq(SegmentType) /\ Len(load.img) \in Nat
  BY <1>1 DEF ImageOk
<1>3. \A s \in 1 .. Len(load.img) : load.img[s] \in SegmentType
  BY <1>2
<1>4. \A s \in 1 .. Len(load.img) : load.img[s].first \in Nat /\ load.img[s].last \in Nat
  BY <1>3, Zenon DEF SegmentType
<1>5. ASSUME NEW s \in 1 .. Len(load.img), NEW p \in SegPages(load, s)
      PROVE  p \in LowPages /\ p \in Nat
  <2>1. p \in Nat
    BY <1>4 DEF SegPages
  <2>2. Dir(p) < USER_PDE_END
    BY <1>1, Zenon DEF ImageOk, SegPages
  <2>3. p < USER_PDE_END * TableSize
    BY <2>1, <2>2, DirBound, VmmAssumption, Zenon
  <2>4. USER_PDE_END * TableSize \in Nat
    BY VmmAssumption
  <2> QED
    BY <2>1, <2>3, <2>4 DEF LowPages
<1>6. \A s, t \in 1 .. Len(load.img) : \A p \in SegPages(load, s) : p \in SegPages(load, t) => s = t
  BY <1>1, Zenon DEF ImageOk, SegPages
<1>7. \A s \in 1 .. Len(load.img) : load.img[s].first <= load.img[s].last
  BY <1>1, Zenon DEF ImageOk
<1>8. load.seg \in Nat /\ load.seg >= 1 /\ load.seg <= Len(load.img)
  BY <1>1, <1>2
<1> QED
  BY <1>1, <1>2, <1>3, <1>5, <1>6, <1>7, <1>8, Zenon

(* The three kinds of pages. *)
FlagsAre(load, p, flags) ==
    /\ \A s \in 1 .. load.seg - 1 : p \in SegPages(load, s) => flags = SegmentFlags(load.img[s])
    /\ p \in load.img[load.seg].first .. load.page - 1 => flags = {"P", "W"}
    /\ /\ \A s \in 1 .. load.seg - 1 : p \notin SegPages(load, s)
       /\ p \notin load.img[load.seg].first .. load.page - 1
       => flags = {}

LEMMA FlagsAreLoadFlags ==
    ASSUME NEW load, LoadOk(load), NEW p \in LowPages
    PROVE  FlagsAre(load, p, LoadFlags(load, p))
<1>0. load.seg \in 1 .. Len(load.img) /\ \A s \in 1 .. load.seg - 1 : s \in 1 .. Len(load.img) /\ s # load.seg
  BY LoadOkFacts
<1>n. load.img[load.seg].first .. load.page - 1 \subseteq SegPages(load, load.seg)
  <2>1. load.img[load.seg].first \in Nat /\ load.img[load.seg].last \in Nat
    BY <1>0, LoadOkFacts, Zenon DEF SegmentType
  <2>2. load.page \in Nat /\ load.page <= load.img[load.seg].last
    BY <2>1, LoadOkFacts DEF SegPages
  <2> QED
    BY <2>1, <2>2 DEF SegPages
<1>1. \A s \in 1 .. Len(load.img) : \A t \in 1 .. Len(load.img) :
        p \in SegPages(load, s) /\ p \in SegPages(load, t) => s = t
  BY LoadOkFacts, Zenon
<1>2. ASSUME NEW s \in 1 .. load.seg - 1, p \in SegPages(load, s)
      PROVE  LoadFlags(load, p) = SegmentFlags(load.img[s])
  <2>1. DoneSegments(load, p) = {s}
    BY <1>0, <1>1, <1>2, Zenon DEF DoneSegments, SegPages
  <2>2. p \notin load.img[load.seg].first .. load.page - 1
    BY <1>0, <1>1, <1>n, <1>2, Zenon
  <2> QED
    BY <2>1, <2>2, Zenon DEF LoadFlags
<1>3. ASSUME p \in load.img[load.seg].first .. load.page - 1
      PROVE  LoadFlags(load, p) = {"P", "W"}
  BY <1>3, Zenon DEF LoadFlags
<1>4. ASSUME \A s \in 1 .. load.seg - 1 : p \notin SegPages(load, s),
             p \notin load.img[load.seg].first .. load.page - 1
      PROVE  LoadFlags(load, p) = {}
  <2>1. DoneSegments(load, p) = {}
    BY <1>4, Zenon DEF DoneSegments, SegPages
  <2> QED
    BY <1>4, <2>1, Zenon DEF LoadFlags
<1> QED
  BY <1>2, <1>3, <1>4, Zenon DEF FlagsAre

LEMMA FlagsAreUnique ==
    ASSUME NEW load, NEW p, NEW f, NEW g, FlagsAre(load, p, f), FlagsAre(load, p, g)
    PROVE  f = g
<1>1. CASE \E s \in 1 .. load.seg - 1 : p \in SegPages(load, s)
  BY <1>1 DEF FlagsAre
<1>2. CASE p \in load.img[load.seg].first .. load.page - 1
  BY <1>2, Zenon DEF FlagsAre
<1> QED
  BY <1>1, <1>2, Zenon DEF FlagsAre

(* What is mapped after one more page, and after the last of a segment. *)
LoadsAt(m, m2, d, load) ==
    /\ DOMAIN m2.dirs = DOMAIN m.dirs /\ m2.transient = m.transient
    /\ \A c \in DOMAIN m.dirs : c # d => SameUser(m, m2, c)
    /\ \A q \in Nat : Dir(q) = USER_PDE_END => va_info_ex(m2, d, q) = va_info_ex(m, d, q)
    /\ load.page # load.img[load.seg].last => vmm_get_flags(m2, d, load.page) = {"P", "W"}
    /\ load.page = load.img[load.seg].last =>
        \A p \in SegPages(load, load.seg) : vmm_get_flags(m2, d, p) = SegmentFlags(load.img[load.seg])
    /\ \A p \in LowPages :
        p # load.page /\ (load.page = load.img[load.seg].last => p \notin SegPages(load, load.seg))
            => vmm_get_flags(m2, d, p) = vmm_get_flags(m, d, p)

LoadedPage(m, d, load) ==
    IF load.page = load.img[load.seg].last
    THEN vmm_remap(m, d, SegPages(load, load.seg), SegmentFlags(load.img[load.seg])) ELSE m

LEMMA SegmentFlagsFacts ==
    ASSUME NEW seg
    PROVE  SegmentFlags(seg) \in SUBSET {"P", "W", "U"} /\ "P" \in SegmentFlags(seg)
BY Zenon DEF SegmentFlags

LEMMA LoadPageFacts ==
    ASSUME NEW load, LoadOk(load), NEW m, NEW H, Good(m, {}, {}, H, {}), NEW d \in DOMAIN m.dirs,
           Loaded(m, d, load), NEW frame \in H, frame \in Nat,
           NEW r, r = vmm_map(m, d, load.page, frame, {"P", "W"}), NEW m2, m2 = LoadedPage(r.mem, d, load)
    PROVE  \/ r.err = "no" /\ Good(m2, {}, {}, Without(H, frame), {}) /\ LoadsAt(m, m2, d, load)
           \/ r.mem = m /\ HaltCause(r.err, m)
<1> DEFINE page == load.page
           flags == {"P", "W"}
           pages == SegPages(load, load.seg)
           last == load.img[load.seg].last
<1>0. /\ page \in LowPages /\ page \in Nat /\ Dir(page) \in UserPdes /\ Dir(page) # USER_PDE_END
      /\ flags \in SUBSET {"P", "W", "U"} /\ "P" \in flags
  BY LoadOkFacts, LowPageFacts, LayoutFacts
<1>1. /\ \A p \in pages : p \in LowPages /\ p \in Nat /\ Dir(p) \in UserPdes /\ Dir(p) # USER_PDE_END
      /\ page \in pages
  BY LoadOkFacts, LowPageFacts, LayoutFacts
<1>e. ~Present(m, d, page)
  <2>1. /\ load.seg \in 1 .. Len(load.img) /\ \A s \in 1 .. load.seg - 1 : s \in 1 .. Len(load.img) /\ s # load.seg
        /\ page \in SegPages(load, load.seg)
    BY LoadOkFacts
  <2>2. \A s \in 1 .. load.seg - 1 : page \notin SegPages(load, s)
    BY <2>1, LoadOkFacts, Zenon
  <2>3. page \notin load.img[load.seg].first .. page - 1
    BY <1>0
  <2>4. FlagsAre(load, page, LoadFlags(load, page))
    BY <1>0, FlagsAreLoadFlags, Zenon
  <2>5. LoadFlags(load, page) = {}
    BY <2>2, <2>3, <2>4, Zenon DEF FlagsAre
  <2>6. vmm_get_flags(m, d, page) = {}
    BY <1>0, <2>5, Zenon DEF Loaded
  <2> QED
    BY <2>6, Zenon DEF vmm_get_flags, Present
<1>r. r = vmm_map(m, d, page, frame, flags)
  BY Zenon
<1>b. page = last => \A p \in pages : p # page => p \in load.img[load.seg].first .. page - 1
  <2>1. load.img[load.seg].first \in Nat /\ last \in Nat
    BY LoadOkFacts DEF SegmentType
  <2> QED
    BY <1>0, <2>1 DEF SegPages
<1>m. /\ page = last => m2 = vmm_remap(r.mem, d, pages, SegmentFlags(load.img[load.seg]))
      /\ page # last => m2 = r.mem
  BY Zenon DEF LoadedPage
<1>p. page = load.page /\ pages = SegPages(load, load.seg) /\ last = load.img[load.seg].last /\ flags = {"P", "W"}
  BY Zenon
<1> HIDE DEF page, pages, last, flags
<1>2. \/ /\ r.err = "no" /\ Good(r.mem, {}, {}, Without(H, frame), {})
         /\ MapsAt(m, r.mem, d, page, Pte(frame, flags))
      \/ r.mem = m /\ HaltCause(r.err, m)
  BY <1>0, <1>e, <1>r, VmmMapFacts
<1>3. ASSUME r.err = "no", Good(r.mem, {}, {}, Without(H, frame), {}), MapsAt(m, r.mem, d, page, Pte(frame, flags))
      PROVE  Good(m2, {}, {}, Without(H, frame), {}) /\ LoadsAt(m, m2, d, load)
  <2>1. /\ vmm_get_flags(r.mem, d, page) = flags
        /\ \A q \in Nat : Dir(q) \in UserPdes /\ q # page => vmm_get_flags(r.mem, d, q) = vmm_get_flags(m, d, q)
    BY <1>0, <1>3, MapsFlags, MapsKeeps
  <2>2. /\ DOMAIN r.mem.dirs = DOMAIN m.dirs /\ r.mem.transient = m.transient
        /\ \A c \in DOMAIN m.dirs : c # d => SameUser(m, r.mem, c)
        /\ \A q \in Nat : Dir(q) = USER_PDE_END => va_info_ex(r.mem, d, q) = va_info_ex(m, d, q)
    BY <1>0, <1>3, LayoutFacts, Zenon DEF MapsAt
  <2>l. \A p \in LowPages : p \in Nat /\ Dir(p) \in UserPdes
    BY LowPageFacts, Zenon
  <2>3. CASE page # last
    <3>1. m2 = r.mem
      BY <1>m, <2>3, Zenon
    <3>2. \A p \in LowPages : p # page => vmm_get_flags(m2, d, p) = vmm_get_flags(m, d, p)
      BY <2>1, <2>l, <3>1, Zenon
    <3> QED
      BY <1>3, <1>p, <2>1, <2>2, <2>3, <3>1, <3>2, Zenon DEF LoadsAt
  <2>4. CASE page = last
    <3> DEFINE sf == SegmentFlags(load.img[load.seg])
    <3>1. m2 = vmm_remap(r.mem, d, pages, sf) /\ sf \in SUBSET {"P", "W", "U"} /\ "P" \in sf
      BY <1>m, <2>4, SegmentFlagsFacts, Zenon
    <3>d. sf = SegmentFlags(load.img[load.seg])
      BY Zenon
    <3> HIDE DEF sf
    <3>2. MappedPages(r.mem, d, pages)
      <4>1. \A p \in pages : p # page => vmm_get_flags(m, d, p) = flags
        <5>1. \A p \in pages : p # page => LoadFlags(load, p) = {"P", "W"}
          BY <1>b, <1>p, <2>4, Zenon DEF LoadFlags
        <5> QED
          BY <1>1, <1>p, <5>1, Zenon DEF Loaded
      <4>2. \A p \in pages : vmm_get_flags(r.mem, d, p) = flags
        BY <1>1, <2>1, <4>1, Zenon
      <4>3. \A p \in pages : Present(r.mem, d, p)
        BY <1>0, <4>2, Zenon DEF vmm_get_flags
      <4> QED
        BY <1>1, <4>3, Zenon DEF MappedPages
    <3>3. /\ Good(m2, {}, {}, Without(H, frame), {}) /\ ReflagsAt(r.mem, m2, d, pages)
          /\ \A p \in pages : va_info_ex(m2, d, p).flags = sf
      <4>1. d \in DOMAIN r.mem.dirs
        BY <2>2, Zenon
      <4> QED
        BY <1>3, <3>1, <3>2, <4>1, RemapFacts
    <3>4. \A p \in pages : vmm_get_flags(m2, d, p) = sf
      BY <3>1, <3>3, Zenon DEF vmm_get_flags, Present
    <3>5. \A q \in Nat : Dir(q) \in UserPdes /\ q \notin pages => va_info_ex(m2, d, q) = va_info_ex(r.mem, d, q)
      BY <3>3, Zenon DEF ReflagsAt
    <3>6. \A q \in Nat : Dir(q) = USER_PDE_END => va_info_ex(m2, d, q) = va_info_ex(m, d, q)
      BY <1>1, <2>2, <3>5, LayoutFacts, Zenon
    <3>7. \A p \in LowPages : p # page /\ p \notin pages => vmm_get_flags(m2, d, p) = vmm_get_flags(m, d, p)
      BY <2>1, <2>l, <3>5, Zenon DEF vmm_get_flags, Present
    <3>8. /\ DOMAIN m2.dirs = DOMAIN m.dirs /\ m2.transient = m.transient
          /\ \A c \in DOMAIN m.dirs : c # d => SameUser(r.mem, m2, c)
      BY <2>2, <3>3, Zenon DEF ReflagsAt
    <3>9. \A c \in DOMAIN m.dirs : c # d => SameUser(m, m2, c)
      BY <2>2, <3>8, SameUserTwice, Zenon
    <3> QED
      BY <1>p, <2>4, <3>3, <3>4, <3>6, <3>7, <3>8, <3>9, <3>d, Zenon DEF LoadsAt
  <2> QED
    BY <2>3, <2>4, Zenon
<1> QED
  BY <1>2, <1>3, Zenon

(* The next page of the segment. *)
LEMMA LoadedMore ==
    ASSUME NEW load, LoadOk(load), load \in LoadType, NEW m, NEW d, Loaded(m, d, load), NEW m2, LoadsAt(m, m2, d, load),
           load.page # load.img[load.seg].last, NEW next, next = [load EXCEPT !.page = load.page + 1]
    PROVE  LoadOk(next) /\ next \in LoadType /\ next.img = load.img /\ Loaded(m2, d, next)
<1>0. next.img = load.img /\ next.seg = load.seg /\ next.page = load.page + 1 /\ next \in LoadType
  <2>1. load.page + 1 \in Nat
    BY LoadOkFacts
  <2> QED
    BY <2>1, Zenon DEF LoadType
<1>1. /\ load.img[load.seg].first \in Nat /\ load.img[load.seg].last \in Nat /\ load.page \in Nat
      /\ load.page >= load.img[load.seg].first /\ load.page <= load.img[load.seg].last
  <2>1. load.seg \in 1 .. Len(load.img)
    BY LoadOkFacts
  <2>2. load.img[load.seg].first \in Nat /\ load.img[load.seg].last \in Nat
    BY <2>1, LoadOkFacts, Zenon DEF SegmentType
  <2> QED
    BY <2>2, LoadOkFacts DEF SegPages
<1>2. LoadOk(next)
  <2>1. next.page \in load.img[load.seg].first .. load.img[load.seg].last
    BY <1>0, <1>1
  <2> QED
    BY <1>0, <2>1, Zenon DEF LoadOk
<1>3. ASSUME NEW p \in LowPages
      PROVE  vmm_get_flags(m2, d, p) = LoadFlags(next, p)
  <2>0. p \in Nat
    BY LowPageFacts, Zenon
  <2>1. p \in load.img[load.seg].first .. next.page - 1 <=> p = load.page \/ p \in load.img[load.seg].first .. load.page - 1
    BY <1>0, <1>1, <2>0
  <2>2. vmm_get_flags(m, d, p) = LoadFlags(load, p)
    BY Zenon DEF Loaded
  <2>3. DoneSegments(next, p) = DoneSegments(load, p)
    BY <1>0, Zenon DEF DoneSegments
  <2>4. CASE p = load.page
    <3>1. vmm_get_flags(m2, d, p) = {"P", "W"}
      BY <2>4, Zenon DEF LoadsAt
    <3>2. LoadFlags(next, p) = {"P", "W"}
      BY <1>0, <2>1, <2>4, Zenon DEF LoadFlags
    <3> QED
      BY <3>1, <3>2, Zenon
  <2>5. CASE p # load.page
    <3>1. vmm_get_flags(m2, d, p) = vmm_get_flags(m, d, p)
      BY <2>5, Zenon DEF LoadsAt
    <3>2. LoadFlags(next, p) = LoadFlags(load, p)
      BY <1>0, <2>1, <2>3, <2>5, Zenon DEF LoadFlags
    <3> QED
      BY <2>2, <3>1, <3>2, Zenon
  <2> QED
    BY <2>4, <2>5, Zenon
<1> QED
  BY <1>0, <1>2, <1>3, Zenon DEF Loaded

(* A whole segment. *)
WholeSegments(m, d, img, n) ==
    \A p \in LowPages :
        /\ \A s \in 1 .. n : p \in img[s].first .. img[s].last => vmm_get_flags(m, d, p) = SegmentFlags(img[s])
        /\ (\A s \in 1 .. n : p \notin img[s].first .. img[s].last) => vmm_get_flags(m, d, p) = {}

LEMMA LoadedSegment ==
    ASSUME NEW load, LoadOk(load), NEW m, NEW d, Loaded(m, d, load), NEW m2, LoadsAt(m, m2, d, load),
           load.page = load.img[load.seg].last
    PROVE  WholeSegments(m2, d, load.img, load.seg)
<1>0. /\ load.seg \in 1 .. Len(load.img) /\ load.seg \in Nat
      /\ \A s \in 1 .. load.seg : s \in 1 .. Len(load.img) /\ (s # load.seg => s \in 1 .. load.seg - 1)
      /\ \A s \in 1 .. load.seg - 1 : s \in 1 .. load.seg
  BY LoadOkFacts
<1>1. load.page \in SegPages(load, load.seg) /\ load.img[load.seg].first .. load.page - 1 \subseteq SegPages(load, load.seg)
  <2>1. load.img[load.seg].first \in Nat /\ load.page \in Nat
    BY <1>0, LoadOkFacts, Zenon DEF SegmentType
  <2> QED
    BY <2>1, LoadOkFacts DEF SegPages
<1>2. ASSUME NEW p \in LowPages, NEW s \in 1 .. load.seg, p \in SegPages(load, s)
      PROVE  vmm_get_flags(m2, d, p) = SegmentFlags(load.img[s])
  <2>1. CASE s = load.seg
    BY <1>2, <2>1, Zenon DEF LoadsAt
  <2>2. CASE s # load.seg
    <3>1. p \notin SegPages(load, load.seg) /\ p # load.page
      BY <1>0, <1>1, <1>2, <2>2, LoadOkFacts, Zenon
    <3>2. vmm_get_flags(m2, d, p) = LoadFlags(load, p)
      BY <3>1, Zenon DEF LoadsAt, Loaded
    <3>3. FlagsAre(load, p, LoadFlags(load, p))
      BY FlagsAreLoadFlags, Zenon
    <3> QED
      BY <1>0, <1>2, <2>2, <3>2, <3>3, Zenon DEF FlagsAre
  <2> QED
    BY <2>1, <2>2, Zenon
<1>3. ASSUME NEW p \in LowPages, \A s \in 1 .. load.seg : p \notin SegPages(load, s)
      PROVE  vmm_get_flags(m2, d, p) = {}
  <2>1. p \notin SegPages(load, load.seg) /\ p # load.page /\ p \notin load.img[load.seg].first .. load.page - 1
    BY <1>0, <1>1, <1>3
  <2>2. vmm_get_flags(m2, d, p) = LoadFlags(load, p)
    BY <2>1, Zenon DEF LoadsAt, Loaded
  <2>3. FlagsAre(load, p, LoadFlags(load, p))
    BY FlagsAreLoadFlags, Zenon
  <2> QED
    BY <1>0, <1>3, <2>1, <2>2, <2>3, Zenon DEF FlagsAre
<1> QED
  BY <1>2, <1>3, Zenon DEF WholeSegments, SegPages

LEMMA LoadedNext ==
    ASSUME NEW load, LoadOk(load), load \in LoadType, NEW m, NEW d, WholeSegments(m, d, load.img, load.seg),
           load.seg # Len(load.img), NEW next, next = [load EXCEPT !.seg = load.seg + 1, !.page = load.img[load.seg + 1].first]
    PROVE  LoadOk(next) /\ next \in LoadType /\ next.img = load.img /\ Loaded(m, d, next)
<1>1. load.seg + 1 \in 1 .. Len(load.img) /\ load.seg + 1 \in Nat
  BY LoadOkFacts
<1>2. /\ load.img[load.seg + 1].first \in Nat /\ load.img[load.seg + 1].last \in Nat
      /\ load.img[load.seg + 1].first <= load.img[load.seg + 1].last
  BY <1>1, LoadOkFacts, Zenon DEF SegmentType
<1>0. /\ next.img = load.img /\ next.seg = load.seg + 1 /\ next.page = load.img[load.seg + 1].first
      /\ next \in LoadType
  BY <1>1, <1>2, Zenon DEF LoadType
<1>3. LoadOk(next)
  <2>1. next.page \in next.img[next.seg].first .. next.img[next.seg].last
    BY <1>0, <1>2
  <2> QED
    BY <1>0, <1>1, <2>1, Zenon DEF LoadOk
<1>4. next.seg - 1 = load.seg /\ next.img[next.seg].first .. next.page - 1 = {}
  <2>1. next.seg - 1 = load.seg
    BY <1>0, LoadOkFacts
  <2> QED
    BY <1>0, <1>2, <2>1
<1>5. ASSUME NEW p \in LowPages
      PROVE  vmm_get_flags(m, d, p) = LoadFlags(next, p)
  <2>1. FlagsAre(next, p, vmm_get_flags(m, d, p))
    BY <1>0, <1>4, Zenon DEF FlagsAre, WholeSegments, SegPages
  <2>2. FlagsAre(next, p, LoadFlags(next, p))
    BY <1>3, FlagsAreLoadFlags, Zenon
  <2> QED
    BY <2>1, <2>2, FlagsAreUnique, Zenon
<1> QED
  BY <1>0, <1>3, <1>5, Zenon DEF Loaded

(* What load_map leaves of the task. *)
NewLoad(load, next) ==
    /\ load.page # load.img[load.seg].last => next = [load EXCEPT !.page = load.page + 1]
    /\ load.page = load.img[load.seg].last /\ load.seg # Len(load.img) =>
        next = [load EXCEPT !.seg = load.seg + 1, !.page = load.img[load.seg + 1].first]
    /\ load.page = load.img[load.seg].last /\ load.seg = Len(load.img) => next = NoLoad
LastLoad(load) == load.page = load.img[load.seg].last /\ load.seg = Len(load.img)

LEMMA NewLoadFacts ==
    ASSUME NEW load, LoadOk(load), load \in LoadType, NEW m, NEW d, Loaded(m, d, load), NEW m2, LoadsAt(m, m2, d, load),
           NEW next, NewLoad(load, next)
    PROVE  /\ next \in LoadType
           /\ LastLoad(load) => next = NoLoad /\ WholeSegments(m2, d, load.img, Len(load.img))
           /\ ~LastLoad(load) => LoadOk(next) /\ Loaded(m2, d, next) /\ next.img = load.img
<1>1. CASE load.page # load.img[load.seg].last
  <2>1. next = [load EXCEPT !.page = load.page + 1]
    BY <1>1, Zenon DEF NewLoad
  <2> QED
    BY <1>1, <2>1, LoadedMore, Zenon DEF LastLoad
<1>2. CASE load.page = load.img[load.seg].last
  <2>1. WholeSegments(m2, d, load.img, load.seg)
    BY <1>2, LoadedSegment, Zenon
  <2>2. CASE load.seg # Len(load.img)
    <3>1. next = [load EXCEPT !.seg = load.seg + 1, !.page = load.img[load.seg + 1].first]
      BY <1>2, <2>2, Zenon DEF NewLoad
    <3> QED
      BY <2>1, <2>2, <3>1, LoadedNext, Zenon DEF LastLoad
  <2>3. CASE load.seg = Len(load.img)
    <3>1. next = NoLoad
      BY <1>2, <2>3, Zenon DEF NewLoad
    <3> QED
      BY <1>2, <2>1, <2>3, <3>1, NoLoadType, Zenon DEF LastLoad
  <2> QED
    BY <2>2, <2>3, Zenon
<1> QED
  BY <1>1, <1>2, Zenon

LEMMA LoadMapStep ==
    ASSUME RunningOk, load_map
    PROVE  /\ MemoryInv'
           /\ k.op = "load" /\ k'.op = "none" /\ halted' = "no" =>
                \E img \in Images : WholeSegments(mem', MyDir, img, Len(img))
<1> DEFINE held == task[current].held
           load == task[current].load
           flags == {"P", "W"}
           r == vmm_map(mem, MyDir, load.page, held, flags)
           ph == IF LastLoad(load) /\ task[current].phase = "load" THEN "stack" ELSE task[current].phase
           mine == [task[current] EXCEPT !.held = 0, !.load = NextLoad, !.phase = ph]
<1>1. /\ k.op = "load" \/ (k.op = "none" /\ task[current].phase = "load")
      /\ held # 0 /\ current' = current /\ next_pid' = next_pid /\ halted = "no"
      /\ r.err # "no" => halted' = r.err /\ mem' = mem /\ task' = task
  BY Zenon DEF load_map, CanLoad, me, LoadPage, Halt
<1>l. NewLoad(load, NextLoad)
  BY Zenon DEF NextLoad, NewLoad, LastPage, LastOfImage, Segment, me
<1>o. k.op \notin CloneOps /\ k.op # "boot"
  BY <1>1, OpFacts, Zenon
<1>2. Good(mem, {}, {}, HeldFrames, {}) /\ DOMAIN mem.transient = {} /\ k.frame = 0
  BY <1>o, PlainHand, Zenon
<1>3. /\ current \in DOMAIN task /\ MyDir = task[current].dir /\ MyDir \in DOMAIN mem.dirs
      /\ task[current] \in TaskType /\ PhaseAt(mem, task[current], k.op) /\ k \in KType
      /\ Stacked(mem, MyDir)
  BY <1>o, NotBoot, Zenon
<1>u. k.op = "load" => task[current].phase = "user"
  BY Zenon DEF RunningOk, CurrentOk
<1>4. /\ LoadOk(load) /\ load \in LoadType /\ Loaded(mem, MyDir, load)
      /\ k.op = "load" => load.img \in Images
      /\ k.op = "none" => NoUserStack(mem, MyDir)
  BY <1>1, <1>3, OpFacts, Zenon DEF TaskType, PhaseAt
<1>h. held \in HeldFrames /\ held \in Nat
  BY <1>1, <1>3, Zenon DEF HeldFrames, TaskType
<1>5. r.err = "no" =>
        /\ mem' = LoadedPage(r.mem, MyDir, load) /\ halted' = "no" /\ OnlyMine(mine)
        /\ LastLoad(load) => k' = Idle
        /\ ~LastLoad(load) => k' = k
  <2>1. r.err = "no" =>
        /\ mem' = LoadedPage(r.mem, MyDir, load) /\ halted' = "no"
        /\ LastLoad(load) => k' = Idle
        /\ ~LastLoad(load) => k' = k
    BY <1>1, Zenon DEF load_map, LoadPage, me, LastPage, LastOfImage, Segment, LastLoad, LoadedPage, RemapSegment, SegPages
  <2>2. r.err = "no" =>
        task' = [task EXCEPT ![current].held = 0, ![current].load = NextLoad,
                             ![current].phase = IF LastLoad(load) /\ @ = "load" THEN "stack" ELSE @]
    BY Zenon DEF load_map, LoadPage, me, LastPage, LastOfImage, Segment, LastLoad
  <2>3. r.err = "no" => OnlyMine(mine)
    BY <1>3, <2>2, Zenon DEF OnlyMine
  <2> QED
    BY <2>1, <2>3, Zenon
<1>p. /\ LastLoad(load) /\ task[current].phase = "load" => ph = "stack"
      /\ ~LastLoad(load) \/ task[current].phase = "user" => ph = task[current].phase
  BY Zenon
<1>r. /\ r = vmm_map(mem, MyDir, load.page, held, flags) /\ held = task[current].held /\ load = task[current].load
      /\ flags = {"P", "W"}
  BY Zenon
<1>m. ASSUME NextLoad \in LoadType
      PROVE  /\ mine \in TaskType /\ mine.dir = task[current].dir /\ mine.phase = ph /\ mine.held = 0
             /\ mine.load = NextLoad
  <2>1. ph \in {"kernel", "load", "stack", "user", "exited"}
    BY <1>3, Zenon DEF TaskType
  <2> HIDE DEF ph
  <2> QED
    BY <1>3, <1>m, <2>1, Zenon DEF TaskType
<1> HIDE DEF r, mine, held, load, flags, ph
<1>6. \/ /\ r.err = "no" /\ Good(mem', {}, {}, Without(HeldFrames, held), {}) /\ LoadsAt(mem, mem', MyDir, load)
      \/ r.mem = mem /\ HaltCause(r.err, mem)
  BY <1>2, <1>3, <1>4, <1>h, <1>r, <1>5, LoadPageFacts
<1>7. CASE r.mem = mem /\ HaltCause(r.err, mem)
  <2>1. r.err # "no"
    BY <1>7, Zenon DEF HaltCause
  <2> QED
    BY <1>1, <1>7, <2>1, HaltStep, SameUserSelf, Zenon
<1>8. CASE r.err = "no" /\ Good(mem', {}, {}, Without(HeldFrames, held), {}) /\ LoadsAt(mem, mem', MyDir, load)
  <2>1. /\ halted' = "no" /\ OnlyMine(mine)
        /\ LastLoad(load) => k' = Idle
        /\ ~LastLoad(load) => k' = k
    BY <1>5, <1>8, Zenon
  <2>n. /\ NextLoad \in LoadType
        /\ LastLoad(load) => NextLoad = NoLoad /\ WholeSegments(mem', MyDir, load.img, Len(load.img))
        /\ ~LastLoad(load) => LoadOk(NextLoad) /\ Loaded(mem', MyDir, NextLoad) /\ NextLoad.img = load.img
    BY <1>4, <1>8, <1>l, NewLoadFacts, Zenon
  <2>m. /\ mine \in TaskType /\ mine.dir = task[current].dir /\ mine.phase = ph /\ mine.held = 0
        /\ mine.load = NextLoad
    BY <1>m, <2>n, Zenon
  <2>2. Good(mem', {}, {}, HeldFrames', {})
    <3>1. HeldFrames' = Without(HeldFrames, held)
      BY <1>1, <1>3, <1>r, <2>1, <2>m, HeldLess, Zenon
    <3> QED
      BY <1>8, <3>1, Zenon
  <2>k. /\ k' \in KType /\ k'.frame = 0 /\ k'.op \in {"none", "load"}
        /\ LastLoad(load) => k'.op = "none"
        /\ ~LastLoad(load) => k'.op = k.op
    <3>1. Idle \in KType /\ Idle.op = "none" /\ Idle.frame = 0
      BY Zenon DEF Idle, KType, Ops
    <3> QED
      BY <1>1, <1>2, <1>3, <2>1, <3>1, Zenon
  <2>3. MyStep(mine)
    <3>1. /\ DOMAIN mem'.dirs = DOMAIN mem.dirs /\ DOMAIN mem'.transient = {}
          /\ \A c \in DOMAIN mem.dirs : c # MyDir => SameUser(mem, mem', c)
      BY <1>2, <1>8, Zenon DEF LoadsAt
    <3>2. /\ mine.phase # "exited" /\ task[current].phase # "kernel"
          /\ k'.op \in {"reset", "load", "mmap"} => mine.phase = "user"
      BY <1>1, <1>u, <1>p, <2>k, <2>m, Zenon
    <3>3. k'.op \notin CloneOps /\ k'.op # "boot"
      BY <2>k, OpFacts, Zenon
    <3> QED
      BY <1>1, <2>1, <2>k, <2>m, <3>1, <3>2, <3>3, Zenon DEF MyStep
  <2>4. /\ Stacked(mem', MyDir)
        /\ NoUserStack(mem, MyDir) => NoUserStack(mem', MyDir)
    <3>1. va_info_ex(mem', MyDir, KERNEL_STACK) = va_info_ex(mem, MyDir, KERNEL_STACK)
      BY <1>8, LayoutFacts, Zenon DEF LoadsAt
    <3>2. va_info_ex(mem', MyDir, USER_STACK) = va_info_ex(mem, MyDir, USER_STACK)
      BY <1>8, LayoutFacts, Zenon DEF LoadsAt
    <3> QED
      BY <1>3, <3>1, <3>2, Zenon DEF Stacked, NoUserStack, vmm_get_flags, Present
  <2>5. PhaseAt(mem', mine, k'.op)
    <3>1. CASE k.op = "none" /\ LastLoad(load)
      <4>1. k'.op = "none" /\ mine.phase = "stack" /\ mine.load = NoLoad /\ mine.dir = MyDir
        BY <1>1, <1>3, <1>p, <2>k, <2>m, <2>n, <3>1, Zenon
      <4> QED
        BY <1>4, <2>4, <3>1, <4>1, OpFacts, Zenon DEF PhaseAt
    <3>2. CASE k.op = "none" /\ ~LastLoad(load)
      <4>1. k'.op = "none" /\ mine.phase = "load" /\ LoadOk(mine.load) /\ Loaded(mem', MyDir, mine.load) /\ mine.dir = MyDir
        BY <1>1, <1>3, <1>p, <2>k, <2>m, <2>n, <3>2, Zenon
      <4> QED
        BY <1>4, <2>4, <3>2, <4>1, OpFacts, Zenon DEF PhaseAt
    <3>3. CASE k.op = "load" /\ LastLoad(load)
      <4>1. k'.op = "none" /\ mine.phase = "user" /\ mine.load = NoLoad /\ mine.dir = MyDir /\ mine.held = 0
        BY <1>u, <1>3, <1>p, <2>k, <2>m, <2>n, <3>3, Zenon
      <4> QED
        BY <2>4, <4>1, OpFacts, Zenon DEF PhaseAt
    <3>4. CASE k.op = "load" /\ ~LastLoad(load)
      <4>1. /\ k'.op = "load" /\ mine.phase = "user" /\ LoadOk(mine.load) /\ Loaded(mem', MyDir, mine.load)
            /\ mine.load.img \in Images /\ mine.dir = MyDir
        BY <1>u, <1>3, <1>4, <1>p, <2>k, <2>m, <2>n, <3>4, Zenon
      <4> QED
        BY <2>4, <4>1, OpFacts, Zenon DEF PhaseAt
    <3> QED
      BY <1>1, <3>1, <3>2, <3>3, <3>4, Zenon
  <2>6. OpOk'
    BY <2>k, OpFacts, Zenon DEF OpOk
  <2>7. MemoryInv'
    BY <1>o, <2>2, <2>3, <2>5, <2>6, MyStepFacts, Zenon
  <2>8. k.op = "load" /\ k'.op = "none" => \E img \in Images : WholeSegments(mem', MyDir, img, Len(img))
    BY <1>4, <2>k, <2>n, Zenon
  <2> QED
    BY <2>7, <2>8, Zenon
<1> QED
  BY <1>6, <1>7, <1>8, Zenon
=============================================================================
