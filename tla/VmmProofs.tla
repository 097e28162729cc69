----------------------------- MODULE VmmProofs ------------------------------
EXTENDS MemoryInvariant, WellFoundedInduction, TLAPS

-----------------------------------------------------------------------------
(* The physical memory manager. *)

(* LeastOf names the least number of a set that has a bound. *)
LEMMA LeastFacts ==
    ASSUME NEW n \in Nat, NEW S \in SUBSET (0 .. n), S # {}
    PROVE  LeastOf(S) \in S /\ \A y \in S : LeastOf(S) <= y
<1> DEFINE R == OpToRel(<, Nat)
<1>1. IsWellFoundedOn(R, Nat)
  BY NatLessThanWellFounded, Zenon
<1>2. \A x, y \in Nat : y < x => <<y, x>> \in R
  BY Zenon DEF OpToRel
<1> HIDE DEF R
<1>0. S \subseteq Nat
  OBVIOUS
<1>3. PICK x \in S : \A y \in S : ~(<<y, x>> \in R)
  BY <1>0, <1>1, WFMin, Zenon
<1>4. ASSUME NEW y \in S
      PROVE  x <= y
  <2>1. x \in Nat /\ y \in Nat /\ ~(y < x)
    BY <1>0, <1>2, <1>3, Zenon
  <2> QED
    BY <2>1
<1> QED
  BY <1>4, Zenon DEF LeastOf

(* The elements of a bitset hold at least its size, and more only when the *)
(* size is not a multiple of an element.                                   *)
LEMMA ElementFacts ==
    ASSUME NEW size \in Nat
    PROVE  /\ element_count(size) * BIT_PER_ELEMENT \in Nat
           /\ element_count(size) * BIT_PER_ELEMENT >= size
           /\ size % BIT_PER_ELEMENT = 0 => element_count(size) * BIT_PER_ELEMENT = size
<1> DEFINE b == BIT_PER_ELEMENT
<1>b. b \in Nat /\ b > 0
  BY BitsetAssumption
<1>2. PICK q, r \in Nat : size = b * q + r /\ r < b /\ r = size % b
  BY <1>b
<1>3. CASE r = 0
  <2>1. size + b - 1 = b * q + (b - 1)
    BY <1>2, <1>3, <1>b
  <2>2. (size + b - 1) \div b = q
    BY <2>1, <1>b
  <2> QED
    BY <2>2, <1>2, <1>3, <1>b DEF element_count
<1>4. CASE r > 0
  <2>1. size + b - 1 = b * (q + 1) + (r - 1)
    BY <1>2, <1>4, <1>b
  <2>2. (size + b - 1) \div b = q + 1
    BY <2>1, <1>b, <1>2, <1>4
  <2> QED
    BY <2>2, <1>2, <1>4, <1>b DEF element_count
<1> QED
  BY <1>2, <1>3, <1>4

(* What the search for a free page of a region returns. *)
LEMMA FindFacts ==
    ASSUME NEW bitset \in [size : Nat, bits : SUBSET Nat], bitset.bits \subseteq 0 .. bitset.size - 1,
           NEW f, f = bitset_find(bitset, 0)
    PROVE  \/ f = BITSET_INVALID_INDEX /\ bitset.bits = 0 .. bitset.size - 1
           \/ f = BITSET_ASSERT /\ bitset.bits = 0 .. bitset.size - 1 /\ bitset.size % BIT_PER_ELEMENT # 0
           \/ f \in 0 .. bitset.size - 1 /\ f \notin bitset.bits
<1> DEFINE size == bitset.size
           n == element_count(size) * BIT_PER_ELEMENT
           match == (0 .. n - 1) \ bitset.bits
<1>1. size \in Nat /\ n \in Nat /\ n >= size /\ (size % BIT_PER_ELEMENT = 0 => n = size)
  BY ElementFacts, Zenon
<1>2. f = IF match = {} THEN BITSET_INVALID_INDEX
          ELSE IF LeastOf(match) < size THEN LeastOf(match) ELSE BITSET_ASSERT
  BY DEF bitset_find, Matching, AllBits
<1> HIDE DEF n
<1>m. match \in SUBSET (0 .. n) /\ \A y : y \in match <=> y \in 0 .. n - 1 /\ y \notin bitset.bits
  BY <1>1
<1> HIDE DEF match
<1>3. CASE match = {}
  <2>1. \A y \in 0 .. size - 1 : y \in 0 .. n - 1
    BY <1>1
  <2>2. bitset.bits = 0 .. size - 1
    BY <1>3, <1>m, <2>1, Zenon
  <2> QED
    BY <1>2, <1>3, <2>2, Zenon
<1>4. CASE match # {}
  <2>1. LeastOf(match) \in match /\ \A y \in match : LeastOf(match) <= y
    BY <1>1, <1>4, <1>m, LeastFacts, Zenon
  <2>2. CASE LeastOf(match) < size
    BY <1>1, <1>2, <1>4, <1>m, <2>1, <2>2
  <2>3. CASE ~(LeastOf(match) < size)
    <3>0. LeastOf(match) \in 0 .. n - 1 /\ LeastOf(match) >= size
      BY <1>1, <1>m, <2>1, <2>3
    <3>1. ASSUME NEW y \in 0 .. size - 1
          PROVE  y \in bitset.bits
      <4>1. y \notin match
        BY <1>1, <2>1, <3>0
      <4>2. y \in 0 .. n - 1
        BY <1>1
      <4> QED
        BY <4>1, <4>2, <1>m, Zenon
    <3>2. n # size
      BY <1>1, <3>0
    <3> QED
      BY <1>1, <1>2, <1>4, <2>3, <3>1, <3>2, Zenon
  <2> QED
    BY <2>2, <2>3, Zenon
<1> QED
  BY <1>3, <1>4, Zenon

(* In disjoint regions the bit of a page's region says whether it is taken. *)
LEMMA ReservedFacts ==
    ASSUME NEW regions, RegionsOk(regions), NEW p \in Managed(regions)
    PROVE  /\ pmm_exists(regions, p)
           /\ pmm_reserved(regions, p) <=> p \in Taken(regions)
<1> DEFINE S == {r \in Indexes(regions) : p \in Pages(regions[r])}
<1>1. PICK r \in Indexes(regions) : p \in Pages(regions[r])
  BY Zenon DEF Managed
<1>2. S = {r}
  BY <1>1, Zenon DEF RegionsOk
<1>3. LeastOf(S) = r
  <2>1. r <= r
    BY <1>1 DEF Indexes
  <2> QED
    BY <1>2, <2>1, Zenon DEF LeastOf
<1>4. RegionOf(regions, p) = r
  BY <1>3, Zenon DEF RegionOf
<1>5. pmm_exists(regions, p)
  BY <1>1, Zenon DEF pmm_exists
<1>6. pmm_reserved(regions, p) <=> p - regions[r].addr \in regions[r].bitmap.bits
  BY <1>4, <1>5, Zenon DEF pmm_reserved, bitset_test
<1>7. p \in Taken(regions) <=> p - regions[r].addr \in regions[r].bitmap.bits
  BY <1>1, Zenon DEF Taken, TakenIn, RegionsOk
<1> QED
  BY <1>5, <1>6, <1>7, Zenon

LEMMA FreeFramesFacts ==
    ASSUME NEW regions, RegionsOk(regions)
    PROVE  FreeFrames(regions) = Managed(regions) \ Taken(regions)
<1>1. FreeFrames(regions) = {p \in Managed(regions) : ~pmm_reserved(regions, p)}
  BY Zenon DEF FreeFrames, Managed
<1>2. \A p \in Managed(regions) : pmm_reserved(regions, p) <=> p \in Taken(regions)
  BY ReservedFacts, Zenon
<1> QED
  BY <1>1, <1>2, Zenon

(* Regions that differ in their bits only. *)
SameShape(regions, other) ==
    /\ other \in Seq(RegionType) /\ Len(other) = Len(regions)
    /\ \A r \in Indexes(regions) :
        /\ other[r].addr = regions[r].addr /\ other[r].len = regions[r].len
        /\ other[r].bitmap.size = regions[r].bitmap.size
        /\ other[r].bitmap.bits \subseteq 0 .. regions[r].len - 1

LEMMA ShapeFacts ==
    ASSUME NEW regions, RegionsOk(regions), NEW other, SameShape(regions, other)
    PROVE  RegionsOk(other) /\ Managed(other) = Managed(regions)
<1>1. Indexes(other) = Indexes(regions)
  BY Zenon DEF SameShape, Indexes
<1>2. \A r \in Indexes(regions) : Pages(other[r]) = Pages(regions[r])
  BY Zenon DEF SameShape, Pages
<1>3. RegionsOk(other)
  BY <1>1, <1>2, Zenon DEF RegionsOk, SameShape
<1>4. Managed(other) = Managed(regions)
  BY <1>1, <1>2, Zenon DEF Managed
<1> QED
  BY <1>3, <1>4, Zenon

(* pmm_alloc hands out a managed frame that was not taken and marks it, or *)
(* fails for one of two reasons.                                           *)
AllocGives(regions, a) ==
    /\ a.frame \in Managed(regions) \ Taken(regions)
    /\ RegionsOk(a.regions) /\ Managed(a.regions) = Managed(regions)
    /\ Taken(a.regions) = Taken(regions) \cup {a.frame}
    /\ GotFrame(a) /\ a.frame \in Nat

AllocFails(regions, a) ==
    /\ ~GotFrame(a)
    /\ NoFrame(a) = "frames" => FreeFrames(regions) = {} /\ a.frame = INVALID_FRAME
    /\ NoFrame(a) = "bitset" => FullPartialRegion(regions) /\ a.frame = FRAME_ASSERT
    /\ NoFrame(a) \in {"frames", "bitset"}

(* Taking one more bit of a region takes one more frame. *)
LEMMA MarkFacts ==
    ASSUME NEW regions, RegionsOk(regions), NEW r \in Indexes(regions),
           NEW b \in 0 .. regions[r].len - 1, b \notin regions[r].bitmap.bits,
           NEW other \in [1 .. Len(regions) -> RegionType],
           other[r].addr = regions[r].addr, other[r].len = regions[r].len,
           other[r].bitmap.size = regions[r].bitmap.size,
           other[r].bitmap.bits = regions[r].bitmap.bits \cup {b},
           \A s \in Indexes(regions) : s # r => other[s] = regions[s]
    PROVE  /\ RegionsOk(other) /\ Managed(other) = Managed(regions)
           /\ regions[r].addr + b \in Managed(regions) \ Taken(regions)
           /\ Taken(other) = Taken(regions) \cup {regions[r].addr + b}
           /\ regions[r].addr + b \in Nat
<1> DEFINE f == regions[r].addr + b
<1>1. \A s \in Indexes(regions) : regions[s] \in RegionType
  BY DEF RegionsOk, Indexes
<1>2. ASSUME NEW s \in Indexes(regions)
      PROVE  /\ other[s].addr = regions[s].addr /\ other[s].len = regions[s].len
             /\ other[s].bitmap.size = regions[s].bitmap.size
             /\ other[s].bitmap.bits = IF s = r THEN regions[s].bitmap.bits \cup {b} ELSE regions[s].bitmap.bits
             /\ other[s] \in RegionType
  <2>1. other[s] \in RegionType
    BY Zenon DEF Indexes
  <2>2. CASE s = r
    BY <2>1, <2>2, Zenon
  <2>3. CASE s # r
    BY <2>1, <2>3, Zenon
  <2> QED
    BY <2>2, <2>3, Zenon
<1>o. other \in Seq(RegionType) /\ Len(other) = Len(regions)
  <2>1. Len(regions) \in Nat
    BY DEF RegionsOk
  <2> QED
    BY <2>1
<1>3. SameShape(regions, other)
  BY <1>2, <1>o DEF SameShape, RegionsOk, Indexes
<1>4. RegionsOk(other) /\ Managed(other) = Managed(regions)
  BY <1>3, ShapeFacts, Zenon
<1>5. f \in Nat /\ f \in Pages(regions[r]) /\ f - regions[r].addr = b
  BY <1>1 DEF Pages, RegionType
<1>6. f \in Managed(regions)
  BY <1>5, Zenon DEF Managed
<1>7. \A s \in Indexes(regions) : f \in Pages(regions[s]) => s = r
  BY <1>5, Zenon DEF RegionsOk
<1>8. f \notin Taken(regions)
  BY <1>5, <1>7, Zenon DEF Taken, TakenIn
<1>9. ASSUME NEW p \in Managed(regions)
      PROVE  p \in Taken(other) <=> p \in Taken(regions) \/ p = f
  <2>1. PICK s \in Indexes(regions) : p \in Pages(regions[s])
    BY Zenon DEF Managed
  <2>2. p \in Taken(regions) <=> p - regions[s].addr \in regions[s].bitmap.bits
    BY <2>1, Zenon DEF Taken, TakenIn, RegionsOk
  <2>3. s \in Indexes(other) /\ p \in Pages(other[s]) /\ p \in Managed(other)
    BY <2>1, <1>2, <1>4, <1>o, Zenon DEF Indexes, Pages
  <2>4. p \in Taken(other) <=> p - other[s].addr \in other[s].bitmap.bits
    BY <2>3, <1>4, Zenon DEF Taken, TakenIn, RegionsOk
  <2>5. p - regions[s].addr = b /\ s = r <=> p = f
    <3>1. regions[s].addr \in Nat /\ p \in Int
      BY <2>1, <1>1 DEF Pages, RegionType
    <3>2. p = f => s = r
      BY <2>1, <1>7, Zenon
    <3>3. s = r => (p - regions[s].addr = b <=> p = f)
      BY <3>1, <1>5
    <3> QED
      BY <3>2, <3>3, <1>5, Zenon
  <2>6. CASE s = r
    BY <2>2, <2>4, <2>5, <2>6, <1>2, Zenon
  <2>7. CASE s # r
    BY <2>2, <2>4, <2>5, <2>7, <1>2, Zenon
  <2> QED
    BY <2>6, <2>7, Zenon
<1>10. Taken(other) \subseteq Managed(regions) /\ Taken(regions) \subseteq Managed(regions)
  BY <1>4, Zenon DEF Taken
<1>11. Taken(other) = Taken(regions) \cup {f}
  BY <1>6, <1>9, <1>10, Zenon
<1> QED
  BY <1>4, <1>5, <1>6, <1>8, <1>11, Zenon

LEMMA MarkedRegions ==
    ASSUME NEW regions, RegionsOk(regions), NEW r \in Indexes(regions), NEW b \in Nat,
           NEW other, other = Marked(regions, r, b)
    PROVE  /\ other \in [1 .. Len(regions) -> RegionType]
           /\ other[r].addr = regions[r].addr /\ other[r].len = regions[r].len
           /\ other[r].bitmap.size = regions[r].bitmap.size
           /\ other[r].bitmap.bits = regions[r].bitmap.bits \cup {b}
           /\ \A s \in Indexes(regions) : s # r => other[s] = regions[s]
<1>0. DOMAIN regions = 1 .. Len(regions) /\ Len(regions) \in Nat
  BY DEF RegionsOk
<1>1. \A s \in Indexes(regions) : regions[s] \in RegionType
  BY DEF RegionsOk, Indexes
<1>a. /\ other[r].addr = regions[r].addr /\ other[r].len = regions[r].len
      /\ other[r].bitmap.size = regions[r].bitmap.size
      /\ other[r].bitmap.bits = regions[r].bitmap.bits \cup {b}
      /\ other[r] \in RegionType
  <2> DEFINE bitmap == [regions[r].bitmap EXCEPT !.bits = @ \cup {b}]
  <2>1. other[r] = [regions[r] EXCEPT !.bitmap = bitmap]
    BY <1>0, Zenon DEF Indexes, bitset_set, Marked
  <2>2. regions[r] \in RegionType /\ b \in Nat /\ regions[r].bitmap \in [size : Nat, bits : SUBSET Nat]
    <3>1. regions[r] \in RegionType
      BY <1>1, Zenon
    <3>2. regions[r].len \in Nat
      BY <3>1, Zenon DEF RegionType
    <3> QED
      BY <3>1, <3>2, Zenon DEF RegionType
  <2>3. /\ bitmap.size = regions[r].bitmap.size /\ bitmap.bits = regions[r].bitmap.bits \cup {b}
        /\ bitmap \in [size : Nat, bits : SUBSET Nat]
    BY <2>2, Zenon
  <2> HIDE DEF bitmap
  <2>4. other[r].addr = regions[r].addr /\ other[r].len = regions[r].len /\ other[r].bitmap = bitmap
    BY <2>1, <2>2, Zenon DEF RegionType
  <2>5. other[r] \in RegionType
    BY <2>1, <2>2, <2>3, Zenon DEF RegionType
  <2> QED
    BY <2>3, <2>4, <2>5, Zenon
<1>b. \A s \in Indexes(regions) : s # r => other[s] = regions[s]
  BY <1>0, Zenon DEF Indexes, Marked
<1>2. other \in [1 .. Len(regions) -> RegionType]
  <2>1. \A s \in 1 .. Len(regions) : other[s] \in RegionType
    BY <1>1, <1>a, <1>b, Zenon DEF Indexes
  <2> QED
    BY <2>1, <1>0, Zenon DEF Marked
<1> QED
  BY <1>a, <1>b, <1>2, Zenon

LEMMA AllocFacts ==
    ASSUME NEW regions, RegionsOk(regions), NEW a, a = pmm_alloc(regions)
    PROVE  AllocGives(regions, a) \/ AllocFails(regions, a)
<1> DEFINE find(r) == bitset_find(regions[r].bitmap, 0)
           found == {r \in Indexes(regions) : find(r) # BITSET_INVALID_INDEX}
<1>1. a = IF found = {} THEN [frame |-> INVALID_FRAME, regions |-> regions]
          ELSE alloc_in(regions, LeastOf(found), find(LeastOf(found)))
  BY Zenon DEF pmm_alloc
<1>2. ASSUME NEW r \in Indexes(regions)
      PROVE  /\ regions[r] \in RegionType /\ regions[r].bitmap.size = regions[r].len
             /\ regions[r].bitmap \in [size : Nat, bits : SUBSET Nat]
             /\ regions[r].bitmap.bits \subseteq 0 .. regions[r].len - 1
  <2>1. regions[r] \in RegionType
    BY DEF RegionsOk, Indexes
  <2>2. regions[r].bitmap.size = regions[r].len /\ regions[r].bitmap.bits \subseteq 0 .. regions[r].len - 1
    BY Zenon DEF RegionsOk
  <2> QED
    BY <2>1, <2>2, Zenon DEF RegionType
<1>3. ASSUME NEW r \in Indexes(regions)
      PROVE  \/ find(r) = BITSET_INVALID_INDEX /\ regions[r].bitmap.bits = 0 .. regions[r].len - 1
             \/ /\ find(r) = BITSET_ASSERT /\ regions[r].bitmap.bits = 0 .. regions[r].len - 1
                /\ regions[r].len % BIT_PER_ELEMENT # 0
             \/ find(r) \in 0 .. regions[r].len - 1 /\ find(r) \notin regions[r].bitmap.bits
  BY <1>2, FindFacts, Zenon
<1> HIDE DEF find
<1>4. CASE found = {}
  <2>1. \A r \in Indexes(regions) : regions[r].bitmap.bits = 0 .. regions[r].len - 1
    BY <1>3, <1>4 DEF BITSET_INVALID_INDEX, BITSET_ASSERT
  <2>2. \A r \in Indexes(regions) : \A p \in Pages(regions[r]) : p - regions[r].addr \in 0 .. regions[r].len - 1
    BY <1>2 DEF Pages, RegionType
  <2>3. ASSUME NEW p \in Managed(regions)
        PROVE  p \in Taken(regions)
    <3>1. PICK r \in Indexes(regions) : p \in Pages(regions[r])
      BY Zenon DEF Managed
    <3>2. p - regions[r].addr \in regions[r].bitmap.bits
      BY <2>1, <2>2, <3>1, Zenon
    <3> QED
      BY <3>1, <3>2, Zenon DEF Taken, TakenIn
  <2>4. a.frame = INVALID_FRAME
    BY <1>1, <1>4
  <2>5. FreeFrames(regions) = {}
    BY <2>3, FreeFramesFacts, Zenon
  <2> QED
    BY <2>4, <2>5 DEF AllocFails, GotFrame, NoFrame, INVALID_FRAME, FRAME_ASSERT
<1>5. CASE found # {}
  <2> DEFINE r == LeastOf(found)
  <2>1. r \in found
    <3>1. Len(regions) \in Nat /\ found \in SUBSET (0 .. Len(regions))
      BY DEF RegionsOk, Indexes
    <3> HIDE DEF found
    <3> QED
      BY <3>1, <1>5, LeastFacts, Zenon
  <2>2. r \in Indexes(regions) /\ find(r) # BITSET_INVALID_INDEX /\ a = alloc_in(regions, r, find(r))
    BY <1>1, <1>5, <2>1, Zenon
  <2> HIDE DEF r
  <2>3. CASE find(r) = BITSET_ASSERT
    <3>1. regions[r].bitmap.bits = 0 .. regions[r].len - 1 /\ regions[r].len % BIT_PER_ELEMENT # 0
      BY <1>3, <2>2, <2>3 DEF BITSET_INVALID_INDEX, BITSET_ASSERT
    <3>2. FullPartialRegion(regions)
      BY <2>2, <3>1, Zenon DEF FullPartialRegion
    <3>3. a.frame = FRAME_ASSERT
      BY <2>2, <2>3 DEF alloc_in
    <3> QED
      BY <3>2, <3>3, Zenon DEF AllocFails, GotFrame, NoFrame, INVALID_FRAME, FRAME_ASSERT
  <2>4. CASE find(r) # BITSET_ASSERT
    <3>1. find(r) \in 0 .. regions[r].len - 1 /\ find(r) \notin regions[r].bitmap.bits
      BY <1>3, <2>2, <2>4, Zenon
    <3>2. a.frame = regions[r].addr + find(r) /\ a.regions = Marked(regions, r, find(r))
      BY <2>2, <2>4 DEF alloc_in
    <3> DEFINE b == find(r)
               other == a.regions
    <3> HIDE DEF b, other
    <3>b. b \in 0 .. regions[r].len - 1 /\ b \notin regions[r].bitmap.bits /\ a.frame = regions[r].addr + b
      BY <3>1, <3>2, Zenon DEF b
    <3>c. other = Marked(regions, r, b)
      BY <3>2, Zenon DEF b, other
    <3>d. /\ RegionsOk(other) /\ Managed(other) = Managed(regions)
          /\ a.frame \in Managed(regions) \ Taken(regions)
          /\ Taken(other) = Taken(regions) \cup {a.frame}
          /\ a.frame \in Nat
      <4>0. b \in Nat
        BY <3>b, <2>2, <1>2 DEF RegionType
      <4>1. /\ other \in [1 .. Len(regions) -> RegionType]
            /\ other[r].addr = regions[r].addr /\ other[r].len = regions[r].len
            /\ other[r].bitmap.size = regions[r].bitmap.size
            /\ other[r].bitmap.bits = regions[r].bitmap.bits \cup {b}
            /\ \A s \in Indexes(regions) : s # r => other[s] = regions[s]
        BY <2>2, <3>c, <4>0, MarkedRegions
      <4> QED
        BY <2>2, <3>b, <4>1, MarkFacts
    <3>3. /\ RegionsOk(a.regions) /\ Managed(a.regions) = Managed(regions)
          /\ a.frame \in Managed(regions) \ Taken(regions)
          /\ Taken(a.regions) = Taken(regions) \cup {a.frame}
          /\ a.frame \in Nat
      BY <3>d, Zenon DEF other
    <3> QED
      BY <3>3 DEF AllocGives, GotFrame, INVALID_FRAME, FRAME_ASSERT
  <2> QED
    BY <2>3, <2>4, Zenon
<1> QED
  BY <1>4, <1>5, Zenon

(* Freeing frames takes them out of those that are taken. *)
LEMMA FreeAllFacts ==
    ASSUME NEW regions, RegionsOk(regions), NEW frames
    PROVE  /\ RegionsOk(FreeAll(regions, frames))
           /\ Managed(FreeAll(regions, frames)) = Managed(regions)
           /\ Taken(FreeAll(regions, frames)) = Taken(regions) \ frames
<1> DEFINE other == FreeAll(regions, frames)
           gone(r) == {f - regions[r].addr : f \in frames \cap Pages(regions[r])}
<1>1. \A s \in Indexes(regions) : regions[s] \in RegionType /\ s \in DOMAIN regions
  BY DEF RegionsOk, Indexes
<1>2. /\ DOMAIN other = DOMAIN regions
      /\ \A s \in Indexes(regions) :
          /\ other[s].addr = regions[s].addr /\ other[s].len = regions[s].len
          /\ other[s].bitmap.size = regions[s].bitmap.size
          /\ other[s].bitmap.bits = regions[s].bitmap.bits \ gone(s)
          /\ other[s] \in RegionType
  BY <1>1, Zenon DEF FreeAll, RegionType
<1>o. other \in Seq(RegionType) /\ Len(other) = Len(regions)
  <2>1. DOMAIN regions = 1 .. Len(regions) /\ Len(regions) \in Nat
    BY DEF RegionsOk
  <2>2. other \in [1 .. Len(regions) -> RegionType]
    BY <1>2, <2>1, Zenon DEF FreeAll, Indexes
  <2> QED
    BY <2>1, <2>2
<1> HIDE DEF other
<1>3. SameShape(regions, other)
  BY <1>2, <1>o, Zenon DEF SameShape, RegionsOk, Indexes
<1>4. RegionsOk(other) /\ Managed(other) = Managed(regions)
  BY <1>3, ShapeFacts, Zenon
<1>5. ASSUME NEW p \in Managed(regions)
      PROVE  p \in Taken(other) <=> p \in Taken(regions) /\ p \notin frames
  <2>1. PICK s \in Indexes(regions) : p \in Pages(regions[s])
    BY Zenon DEF Managed
  <2>2. p \in Taken(regions) <=> p - regions[s].addr \in regions[s].bitmap.bits
    BY <2>1, Zenon DEF Taken, TakenIn, RegionsOk
  <2>3. s \in Indexes(other) /\ p \in Pages(other[s]) /\ p \in Managed(other)
    BY <2>1, <1>2, <1>o, <1>4, Zenon DEF Indexes, Pages
  <2>4. p \in Taken(other) <=> p - other[s].addr \in other[s].bitmap.bits
    BY <2>3, <1>4, Zenon DEF Taken, TakenIn, RegionsOk
  <2>5. p - regions[s].addr \in gone(s) <=> p \in frames
    <3>1. \A f \in Pages(regions[s]) : f - regions[s].addr = p - regions[s].addr => f = p
      BY <2>1, <1>1 DEF Pages, RegionType
    <3> QED
      BY <2>1, <3>1, Zenon
  <2> QED
    BY <2>2, <2>4, <2>5, <1>2, Zenon
<1>6. Taken(other) \subseteq Managed(regions) /\ Taken(regions) \subseteq Managed(regions)
  BY <1>4, Zenon DEF Taken
<1> QED
  BY <1>4, <1>5, <1>6, Zenon DEF other

-----------------------------------------------------------------------------
(* Pages, and the record. *)

LEMMA PageFacts ==
    ASSUME NEW p \in Nat
    PROVE  Dir(p) \in Nat /\ Idx(p) \in Ptes /\ p = TableSize * Dir(p) + Idx(p)
BY VmmAssumption DEF Dir, Idx, Ptes

LEMMA SamePage ==
    ASSUME NEW p \in Nat, NEW q \in Nat, Dir(p) = Dir(q), Idx(p) = Idx(q)
    PROVE  p = q
BY PageFacts, Zenon

LEMMA DirBound ==
    ASSUME NEW p \in Nat, NEW n \in Nat
    PROVE  p < n * TableSize <=> Dir(p) < n
<1> DEFINE t == TableSize
           q == Dir(p)
           r == Idx(p)
<1>1. q \in Nat /\ r \in 0 .. t - 1 /\ p = t * q + r /\ t \in Nat /\ t > 0
  BY PageFacts, VmmAssumption DEF Ptes
<1> HIDE DEF t, q, r
<1>2. CASE q < n
  <2>1. PICK e \in Nat : n = q + 1 + e
    <3>1. n - q - 1 \in Nat /\ n = q + 1 + (n - q - 1)
      BY <1>1, <1>2
    <3> QED
      BY <3>1, Zenon
  <2>2. n * t = t * q + t + t * e
    BY <1>1, <2>1
  <2>3. t * e \in Nat /\ t * q \in Nat
    BY <1>1, <2>1
  <2>4. p < n * t
    <3> DEFINE x == t * e
               y == t * q
               z == n * t
    <3>1. x \in Nat /\ y \in Nat /\ z = y + t + x /\ p = y + r
      BY <2>2, <2>3, <1>1, Zenon
    <3> HIDE DEF x, y, z
    <3>2. p < z
      BY <3>1, <1>1
    <3> QED
      BY <3>2, Zenon DEF z
  <2> QED
    BY <1>2, <2>4, Zenon DEF q, t
<1>3. CASE q >= n
  <2>1. PICK e \in Nat : q = n + e
    <3>1. q - n \in Nat /\ q = n + (q - n)
      BY <1>1, <1>3
    <3> QED
      BY <3>1, Zenon
  <2>2. t * q = n * t + t * e
    BY <1>1, <2>1
  <2>3. t * e \in Nat /\ n * t \in Nat
    BY <1>1, <2>1
  <2>4. ~(p < n * t)
    <3> DEFINE x == t * e
               y == t * q
               z == n * t
    <3>1. x \in Nat /\ z \in Nat /\ y = z + x /\ p = y + r
      BY <2>2, <2>3, <1>1, Zenon
    <3> HIDE DEF x, y, z
    <3>2. ~(p < z)
      BY <3>1, <1>1
    <3> QED
      BY <3>2, Zenon DEF z
  <2> QED
    BY <1>1, <1>3, <2>4 DEF q, t
<1> QED
  BY <1>1, <1>2, <1>3

LEMMA KernelTableFacts ==
    KernelTable \in KernelFrames /\ KernelTable \in Nat \ {0} /\ KernelEntry(USER_PDE_END + 1) = KernelTable
      /\ USER_PDE_END + 1 \in KernelPdes /\ 0 \in KernelFrames
<1>1. KernelTable \in KernelFrames \ {0}
  BY KernelAssumption DEF KernelTable
<1>2. KernelTable \in Nat
  BY <1>1, KernelAssumption, Zenon
<1>3. USER_PDE_END + 1 \in KernelPdes
  BY VmmAssumption DEF KernelPdes
<1> QED
  BY <1>1, <1>2, <1>3, KernelAssumption, Zenon DEF KernelEntry

LEMMA RegionsFields ==
    ASSUME NEW m, MemType(m), NEW regions, NEW m2, m2 = WithRegions(m, regions)
    PROVE  /\ MemType(m2) /\ m2.regions = regions /\ m2.dirs = m.dirs /\ m2.tables = m.tables
           /\ m2.heap = m.heap /\ m2.transient = m.transient
BY Zenon DEF MemType, WithRegions

(* The tables with one entry replaced. *)
SetIn(tables, t, i, entry) == [tables EXCEPT ![t][i] = entry]

LEMMA SetEntryFields ==
    ASSUME NEW m, MemType(m), NEW d, NEW page, NEW entry, NEW m2, m2 = SetEntry(m, d, page, entry)
    PROVE  /\ MemType(m2) /\ m2.regions = m.regions /\ m2.dirs = m.dirs
           /\ m2.tables = SetIn(m.tables, m.dirs[d][Dir(page)], Idx(page), entry)
           /\ m2.heap = m.heap /\ m2.transient = m.transient
BY Zenon DEF MemType, SetEntry, SetIn

LEMMA SetInFacts ==
    ASSUME NEW dirs, NEW tables, TablesOk(dirs, tables),
           NEW t \in DOMAIN tables, NEW i \in Ptes, NEW entry \in EntryType
    PROVE  /\ TablesOk(dirs, SetIn(tables, t, i, entry))
           /\ DOMAIN SetIn(tables, t, i, entry) = DOMAIN tables
           /\ \A u \in DOMAIN tables : \A j \in Ptes :
                SetIn(tables, t, i, entry)[u][j] = IF u = t /\ j = i THEN entry ELSE tables[u][j]
           /\ \A u \in DOMAIN tables : u # t => SetIn(tables, t, i, entry)[u] = tables[u]
<1>1. tables[t] \in [Ptes -> EntryType]
  BY Zenon DEF TablesOk
<1>2. [tables[t] EXCEPT ![i] = entry] \in [Ptes -> EntryType]
  BY <1>1, Zenon
<1>3. /\ DOMAIN SetIn(tables, t, i, entry) = DOMAIN tables
      /\ SetIn(tables, t, i, entry)[t] = [tables[t] EXCEPT ![i] = entry]
      /\ \A u \in DOMAIN tables : u # t => SetIn(tables, t, i, entry)[u] = tables[u]
  BY Zenon DEF SetIn
<1>4. TablesOk(dirs, SetIn(tables, t, i, entry))
  BY <1>2, <1>3, Zenon DEF TablesOk
<1>5. \A u \in DOMAIN tables : \A j \in Ptes :
        SetIn(tables, t, i, entry)[u][j] = IF u = t /\ j = i THEN entry ELSE tables[u][j]
  BY <1>1, <1>3, Zenon
<1> QED
  BY <1>3, <1>4, <1>5, Zenon

(* Which tables there are decides about the directories, not their entries. *)
LEMMA DirsSameTables ==
    ASSUME NEW dirs, NEW tables, NEW other, DOMAIN other = DOMAIN tables, NEW N, NEW C,
           DirsOk(dirs, tables, N, C)
    PROVE  DirsOk(dirs, other, N, C)
BY Zenon DEF DirsOk, UserTabs

-----------------------------------------------------------------------------
(* The uses of frames. *)

With(S, x) == S \cup {x}
Without(S, x) == S \ {x}

(* A frame that was just allocated has no use yet. *)
LEMMA FramesAlloc ==
    ASSUME NEW regions, NEW tables, NEW heapFrames, NEW H,
           FramesOk(regions, tables, heapFrames, H), NEW a, AllocGives(regions, a)
    PROVE  /\ FramesOk(a.regions, tables, heapFrames, With(H, a.frame))
           /\ a.frame \notin H \cup UserTabs(tables) \cup heapFrames \cup KernelFrames
<1> DEFINE f == a.frame
<1>1. f \in Managed(regions) /\ f \notin Taken(regions) /\ Managed(a.regions) = Managed(regions)
      /\ Taken(a.regions) = Taken(regions) \cup {f}
  BY Zenon DEF AllocGives
<1>2. f \notin H \cup UserTabs(tables) \cup heapFrames \cup KernelFrames
  BY <1>1, Zenon DEF FramesOk, With, Without
<1>3. \A t \in UserTabs(tables) : \A i \in Ptes : "P" \in tables[t][i].flags => tables[t][i].frame # f
  BY <1>1, Zenon DEF FramesOk, With, Without
<1>4. FramesOk(a.regions, tables, heapFrames, With(H, f))
  BY <1>1, <1>2, <1>3, Zenon DEF FramesOk, With, Without
<1> QED
  BY <1>2, <1>4, Zenon

(* Mapping a frame in hand in a user table. *)
LEMMA FramesMap ==
    ASSUME NEW regions, NEW tables, NEW heapFrames, NEW H, NEW dirs,
           TablesOk(dirs, tables), FramesOk(regions, tables, heapFrames, H),
           NEW t \in UserTabs(tables), NEW i \in Ptes, NEW entry \in EntryType, entry.frame \in H
    PROVE  FramesOk(regions, SetIn(tables, t, i, entry), heapFrames, Without(H, entry.frame))
<1> DEFINE other == SetIn(tables, t, i, entry)
           f == entry.frame
<1>1. t \in DOMAIN tables
  BY Zenon DEF UserTabs
<1>2. /\ DOMAIN other = DOMAIN tables
      /\ \A u \in DOMAIN tables : \A j \in Ptes : other[u][j] = IF u = t /\ j = i THEN entry ELSE tables[u][j]
  BY <1>1, SetInFacts
<1>3. UserTabs(other) = UserTabs(tables) /\ UserTabs(tables) \subseteq DOMAIN tables
  BY <1>2, Zenon DEF UserTabs
<1> HIDE DEF other
<1>4. \A u \in UserTabs(other) : \A j \in Ptes :
        \/ u = t /\ j = i /\ other[u][j].frame = f
        \/ other[u][j] = tables[u][j] /\ ("P" \in other[u][j].flags => other[u][j].frame \notin H)
  BY <1>2, <1>3 DEF FramesOk, With, Without
<1>5. \A u, v \in UserTabs(other) : \A j, l \in Ptes :
        "P" \in other[u][j].flags /\ "P" \in other[v][l].flags /\ other[u][j].frame = other[v][l].frame
            => u = v /\ j = l
  BY <1>3, <1>4 DEF FramesOk, With, Without
<1>6. \A u \in UserTabs(other) : \A j \in Ptes :
        "P" \in other[u][j].flags =>
            /\ other[u][j].frame \in Taken(regions)
            /\ other[u][j].frame \notin UserTabs(other) \cup heapFrames \cup KernelFrames \cup Without(H, f)
  <2> SUFFICES ASSUME NEW u \in UserTabs(other), NEW j \in Ptes, "P" \in other[u][j].flags
               PROVE  /\ other[u][j].frame \in Taken(regions)
                      /\ other[u][j].frame \notin UserTabs(other) \cup heapFrames \cup KernelFrames \cup Without(H, f)
    BY Zenon
  <2>1. CASE other[u][j].frame = f
    BY <1>3, <2>1, Zenon DEF FramesOk, With, Without
  <2>2. CASE other[u][j] = tables[u][j]
    BY <1>3, <2>2, Zenon DEF FramesOk, With, Without
  <2> QED
    BY <1>4, <2>1, <2>2, Zenon
<1> QED
  BY <1>3, <1>5, <1>6, Zenon DEF FramesOk, other, With, Without

(* A frame in hand becomes an empty page table. *)
LEMMA FramesTable ==
    ASSUME NEW regions, NEW tables, NEW heapFrames, NEW H, NEW dirs,
           TablesOk(dirs, tables), FramesOk(regions, tables, heapFrames, H), NEW f \in H, f \in Nat
    PROVE  /\ FramesOk(regions, Put(tables, f, EmptyTable), heapFrames, Without(H, f))
           /\ TablesOk(dirs, Put(tables, f, EmptyTable))
           /\ f # KernelTable /\ f # 0 /\ f \notin DOMAIN tables
<1> DEFINE other == Put(tables, f, EmptyTable)
<1>1. KernelTable \in KernelFrames /\ 0 \in KernelFrames
  BY KernelTableFacts, Zenon
<1>2. f # KernelTable /\ f # 0 /\ f \notin DOMAIN tables
  BY <1>1, Zenon DEF FramesOk, UserTabs, With, Without
<1>3. /\ DOMAIN other = DOMAIN tables \cup {f} /\ other[f] = EmptyTable
      /\ \A u \in DOMAIN tables : other[u] = tables[u]
  BY <1>2, Zenon DEF Put
<1>4. \A j \in Ptes : other[f][j] = NoEntry
  BY <1>3, Zenon DEF EmptyTable
<1>5. EmptyTable \in [Ptes -> EntryType] /\ "P" \notin NoEntry.flags
  BY Zenon DEF EmptyTable, NoEntry, EntryType
<1> HIDE DEF other
<1>6. TablesOk(dirs, other)
  BY <1>2, <1>3, <1>5, Zenon DEF TablesOk
<1>7. UserTabs(other) = UserTabs(tables) \cup {f}
  BY <1>2, <1>3, Zenon DEF UserTabs
<1>8. \A u \in UserTabs(other) : \A j \in Ptes :
        "P" \in other[u][j].flags => u \in UserTabs(tables) /\ other[u][j] = tables[u][j]
  BY <1>3, <1>4, <1>5, <1>7, Zenon DEF UserTabs
<1>9. \A u, v \in UserTabs(other) : \A j, l \in Ptes :
        "P" \in other[u][j].flags /\ "P" \in other[v][l].flags /\ other[u][j].frame = other[v][l].frame
            => u = v /\ j = l
  BY <1>8 DEF FramesOk, With, Without
<1>10. \A u \in UserTabs(other) : \A j \in Ptes :
        "P" \in other[u][j].flags =>
            /\ other[u][j].frame \in Taken(regions)
            /\ other[u][j].frame \notin UserTabs(other) \cup heapFrames \cup KernelFrames \cup Without(H, f)
  BY <1>7, <1>8 DEF FramesOk, With, Without
<1>11. UserTabs(other) \cup Without(H, f) \subseteq Taken(regions)
       /\ \A t \in UserTabs(other) : t \notin heapFrames \cup KernelFrames \cup Without(H, f)
  BY <1>7, Zenon DEF FramesOk, With, Without
<1>12. FramesOk(regions, other, heapFrames, Without(H, f))
  BY <1>9, <1>10, <1>11, Zenon DEF FramesOk, With, Without
<1> QED
  BY <1>2, <1>6, <1>12, Zenon DEF other

(* The kernel's table maps pages of the heap: its entries do not count. *)
LEMMA FramesKernel ==
    ASSUME NEW regions, NEW tables, NEW heapFrames, NEW H, FramesOk(regions, tables, heapFrames, H),
           NEW other, UserTabs(other) = UserTabs(tables),
           \A t \in UserTabs(tables) : other[t] = tables[t]
    PROVE  FramesOk(regions, other, heapFrames, H)
BY DEF FramesOk, With, Without

(* A frame in hand becomes a page of the heap. *)
LEMMA FramesHeap ==
    ASSUME NEW regions, NEW tables, NEW heapFrames, NEW H, FramesOk(regions, tables, heapFrames, H), NEW f \in H
    PROVE  FramesOk(regions, tables, With(heapFrames, f), Without(H, f))
BY DEF FramesOk, With, Without

(* The directories and their tables are as before; there may be a new table. *)
SameUserHalf(m, other) ==
    /\ other.dirs = m.dirs /\ UserTabs(m.tables) \subseteq UserTabs(other.tables)
    /\ \A t \in UserTabs(m.tables) : other.tables[t] = m.tables[t]

LEMMA HeapPageFacts ==
    ASSUME NEW i \in 0 .. HeapMax - 1
    PROVE  /\ HeapStart + i \in Nat /\ Dir(HeapStart + i) = USER_PDE_END + 1
           /\ Idx(HeapStart + i) \in Ptes
           /\ \A j \in 0 .. HeapMax - 1 : Idx(HeapStart + i) = Idx(HeapStart + j) => i = j
<1>1. \A j \in 0 .. HeapMax - 1 : HeapStart + j \in Nat /\ Dir(HeapStart + j) = USER_PDE_END + 1
  BY HeapPagesAssumption, VmmAssumption
<1>2. Idx(HeapStart + i) \in Ptes
  BY <1>1, PageFacts, Zenon
<1>3. ASSUME NEW j \in 0 .. HeapMax - 1, Idx(HeapStart + i) = Idx(HeapStart + j)
      PROVE  i = j
  <2>1. HeapStart + i = HeapStart + j
    BY <1>1, <1>3, SamePage, Zenon
  <2> QED
    BY <2>1, VmmAssumption
<1> QED
  BY <1>1, <1>2, <1>3, Zenon

(* A complete directory sees the kernel's table. *)
LEMMA HeapEntryFacts ==
    ASSUME NEW dirs, NEW tables, NEW N, NEW C, TablesOk(dirs, tables), DirsOk(dirs, tables, N, C),
           NEW d \in DOMAIN dirs, d \notin N, NEW i \in 0 .. HeapMax - 1
    PROVE  dirs[d][Dir(HeapStart + i)] = KernelTable
BY HeapPageFacts, KernelTableFacts, Zenon DEF DirsOk, With, Without

(* Taking a page of the heap that is free. *)
LEMMA HeapTake ==
    ASSUME NEW dirs, NEW tables, NEW heap, NEW transient, HeapOk(dirs, tables, heap, transient, {}),
           NEW page \in 0 .. heap.size - 1, page \notin heap.used,
           NEW after, after \in HeapType, after.size = heap.size, after.frame = heap.frame,
           after.used = heap.used \cup {page}
    PROVE  HeapOk(dirs, tables, after, transient, {page})
BY DEF HeapOk

(* A new page at the end of the heap. *)
LEMMA HeapAppend ==
    ASSUME NEW dirs, NEW tables, NEW heap, NEW transient, HeapOk(dirs, tables, heap, transient, {}),
           heap.size < HeapMax, NEW f \in Nat, NEW other,
           \A i \in Ptes : i # Idx(HeapStart + heap.size) => other[KernelTable][i] = tables[KernelTable][i],
           other[KernelTable][Idx(HeapStart + heap.size)] = [frame |-> f, flags |-> {"P", "W"}],
           NEW after, after \in HeapType, after.size = heap.size + 1, after.frame = Append(heap.frame, f),
           after.used = heap.used \cup {heap.size}
    PROVE  HeapOk(dirs, other, after, transient, {heap.size})
<1> DEFINE n == heap.size
<1>1. n \in Nat /\ n \in 0 .. HeapMax - 1 /\ heap.frame \in Seq(Nat) /\ Len(heap.frame) = n /\ n >= 2
  BY VmmAssumption DEF HeapOk, HeapType
<1>2. Len(after.frame) = n + 1 /\ after.frame[n + 1] = f /\ \A i \in 1 .. n : after.frame[i] = heap.frame[i]
  BY <1>1
<1>3. /\ heap.used = DOMAIN dirs \cup {1} \cup DOMAIN transient /\ heap.used \subseteq 0 .. n - 1
      /\ 1 \notin DOMAIN dirs \cup DOMAIN transient
      /\ \A page \in DOMAIN dirs : page \notin DOMAIN transient
  BY Zenon DEF HeapOk
<1>4. n \notin heap.used
  BY <1>1, <1>3
<1>5. after.used = DOMAIN dirs \cup {1} \cup DOMAIN transient \cup {n} /\ after.used \subseteq 0 .. n
  BY <1>1, <1>3
<1>6. 1 \notin DOMAIN dirs \cup DOMAIN transient \cup {n} /\ n \notin DOMAIN dirs \cup DOMAIN transient
  BY <1>1, <1>3, <1>4, Zenon
<1>7. ASSUME NEW i \in 0 .. n
      PROVE  LET entry == other[KernelTable][Idx(HeapStart + i)]
             IN  /\ "P" \in entry.flags
                 /\ after.frame[i + 1] = IF i \in DOMAIN transient THEN transient[i] ELSE entry.frame
  <2>1. CASE i = n
    BY <1>2, <1>6, <2>1
  <2>2. CASE i \in 0 .. n - 1
    <3>0. n < HeapMax /\ n \in Nat /\ HeapMax \in Nat
      BY <1>1, VmmAssumption, Zenon
    <3>1. i \in 0 .. HeapMax - 1 /\ i # n
      BY <3>0, <2>2
    <3>2. Idx(HeapStart + i) \in Ptes /\ Idx(HeapStart + i) # Idx(HeapStart + n)
      BY <1>1, <3>1, HeapPageFacts, Zenon
    <3>3. other[KernelTable][Idx(HeapStart + i)] = tables[KernelTable][Idx(HeapStart + i)]
      BY <3>2, Zenon
    <3>4. after.frame[i + 1] = heap.frame[i + 1]
      BY <1>1, <1>2, <2>2, SMTT(20)
    <3> QED
      BY <2>2, <3>3, <3>4, Zenon DEF HeapOk
  <2> QED
    BY <1>1, <2>1, <2>2
<1>8. ASSUME NEW i \in n + 1 .. HeapMax - 1
      PROVE  "P" \notin other[KernelTable][Idx(HeapStart + i)].flags
  <2>1. i \in 0 .. HeapMax - 1 /\ i # n /\ i \in n .. HeapMax - 1
    BY <1>1
  <2>2. Idx(HeapStart + i) \in Ptes /\ Idx(HeapStart + i) # Idx(HeapStart + n)
    BY <1>1, <2>1, HeapPageFacts, Zenon
  <2> QED
    BY <2>1, <2>2, Zenon DEF HeapOk
<1>9. after.size = n + 1 /\ (n + 1) - 1 = n
  BY <1>1
<1> HIDE DEF n
<1>10. \A i \in 0 .. after.size - 1 :
        LET entry == other[KernelTable][Idx(HeapStart + i)]
        IN  /\ "P" \in entry.flags
            /\ after.frame[i + 1] = IF i \in DOMAIN transient THEN transient[i] ELSE entry.frame
  BY <1>7, <1>9, Zenon
<1>11. \A i \in after.size .. HeapMax - 1 : "P" \notin other[KernelTable][Idx(HeapStart + i)].flags
  BY <1>8, <1>9, Zenon
<1>12. Len(after.frame) = after.size /\ after.used \subseteq 0 .. after.size - 1
  BY <1>2, <1>5, <1>9, Zenon
<1>13. HeapOk(dirs, other, after, transient, {n})
  BY <1>3, <1>5, <1>6, <1>10, <1>11, <1>12 DEF HeapOk
<1> QED
  BY <1>13, Zenon DEF n

(* heap_grow maps a new frame at the end of the heap, and the page is      *)
(* taken; a failure changes nothing.                                       *)
TookPage(m, after, page, N, C, H) ==
    /\ Good(after, N, C, H, {page})
    /\ SameUserHalf(m, after) /\ after.transient = m.transient

LEMMA GrowFacts ==
    ASSUME NEW m, NEW N, NEW C, NEW H, Good(m, N, C, H, {}), NEW d \in DOMAIN m.dirs, d \notin N,
           NEW r, r = heap_grow(m, d)
    PROVE  \/ r.err = "no" /\ TookPage(m, r.mem, m.heap.size, N, C, H)
           \/ r.mem = m /\ HaltCause(r.err, m)
<1> DEFINE n == m.heap.size
           page == HeapStart + n
           a == pmm_alloc(m.regions)
<1>1. /\ MemType(m) /\ RegionsOk(m.regions) /\ TablesOk(m.dirs, m.tables) /\ DirsOk(m.dirs, m.tables, N, C)
      /\ FramesOk(m.regions, m.tables, Range(m.heap.frame), H)
      /\ HeapOk(m.dirs, m.tables, m.heap, m.transient, {})
  BY Zenon DEF Good
<1>2. m.heap \in HeapType /\ Len(m.heap.frame) = n /\ n \in 2 .. HeapMax
  BY <1>1, Zenon DEF HeapOk, HeapType
<1>3. CASE n >= HeapMax
  <2>1. n = HeapMax
    BY <1>2, <1>3, VmmAssumption
  <2>2. r = Fail(m, "heap")
    BY <1>3, Zenon DEF heap_grow
  <2> QED
    BY <2>1, <2>2 DEF Fail, HaltCause
<1>4. CASE n < HeapMax
  <2> DEFINE r1 == MapNewFrame(m, d, page, {"P", "W"}, a)
  <2>1. r = GrownHeap(m, d, r1)
    BY <1>2, <1>4, VmmAssumption DEF heap_grow
  <2>2. n \in 0 .. HeapMax - 1 /\ n \in Nat
    BY <1>2, <1>4, VmmAssumption
  <2>3. AllocGives(m.regions, a) \/ AllocFails(m.regions, a)
    BY <1>1, AllocFacts, Zenon
  <2> HIDE DEF a
  <2>4. CASE AllocFails(m.regions, a)
    <3>1. r1 = Fail(m, NoFrame(a))
      BY <2>4, SMTT(20) DEF MapNewFrame, AllocFails
    <3>2. r = IF NoFrame(a) = "frames" THEN Fail(m, "heap") ELSE Fail(m, "bitset")
      BY <2>1, <2>4, <3>1 DEF GrownHeap, Fail, AllocFails
    <3> QED
      BY <2>4, <3>2 DEF AllocFails, HaltCause, Fail
  <2>5. CASE AllocGives(m.regions, a)
    <3> DEFINE m1 == WithRegions(m, a.regions)
               entry == [frame |-> a.frame, flags |-> {"P", "W"}]
               m2 == SetEntry(m1, d, page, entry)
    <3>1. /\ MemType(m1) /\ m1.regions = a.regions /\ m1.dirs = m.dirs /\ m1.tables = m.tables
          /\ m1.heap = m.heap /\ m1.transient = m.transient
      BY <1>1, RegionsFields
    <3> HIDE DEF m1
    <3>2. m1.dirs[d][Dir(page)] = KernelTable /\ KernelTable # 0 /\ KernelTable \in DOMAIN m.tables
      <4>1. m.dirs[d][Dir(page)] = KernelTable
        BY <1>1, <2>2, HeapEntryFacts, Zenon
      <4>2. KernelTable # 0 /\ KernelTable \in DOMAIN m.tables
        BY <1>1, KernelTableFacts, Zenon DEF TablesOk
      <4> QED
        BY <3>1, <4>1, <4>2, Zenon
    <3>3. ~Present(m1, d, page)
      <4>1. "P" \notin m.tables[KernelTable][Idx(page)].flags
        BY <1>1, <1>2, <2>2 DEF HeapOk
      <4> QED
        BY <3>1, <3>2, <4>1, Zenon DEF Present, va_info_ex
    <3>4. GotFrame(a) /\ a.frame \in Nat
      BY <2>5, Zenon DEF AllocGives
    <3>5. r1 = Ok(m2)
      BY <3>2, <3>3, <3>4, Zenon DEF MapNewFrame, vmm_map, m1
    <3>6. /\ MemType(m2) /\ m2.regions = a.regions /\ m2.dirs = m.dirs
          /\ m2.tables = SetIn(m.tables, KernelTable, Idx(page), entry)
          /\ m2.heap = m.heap /\ m2.transient = m.transient
      BY <3>1, <3>2, SetEntryFields
    <3> HIDE DEF m2, r1
    <3>7. entry \in EntryType /\ Idx(page) \in Ptes /\ entry.frame = a.frame /\ "P" \in entry.flags
      BY <2>2, <3>4, HeapPageFacts, Zenon DEF EntryType
    <3>e. entry = [frame |-> a.frame, flags |-> {"P", "W"}]
      BY Zenon
    <3>p. page = HeapStart + n
      BY Zenon
    <3> HIDE DEF entry
    <3>8. /\ TablesOk(m.dirs, m2.tables) /\ DOMAIN m2.tables = DOMAIN m.tables
          /\ \A u \in DOMAIN m.tables : \A j \in Ptes :
                m2.tables[u][j] = IF u = KernelTable /\ j = Idx(page) THEN entry ELSE m.tables[u][j]
          /\ \A u \in DOMAIN m.tables : u # KernelTable => m2.tables[u] = m.tables[u]
      <4> HIDE DEF page
      <4> QED
        BY <1>1, <3>2, <3>6, <3>7, SetInFacts
    <3>9. vmm_get_physical(m2, d, page) = a.frame
      <4> HIDE DEF page
      <4>0. m2.tables[KernelTable][Idx(page)] = entry /\ m2.dirs[d][Dir(page)] = KernelTable
        BY <3>1, <3>2, <3>6, <3>7, <3>8, Zenon
      <4>1. va_info_ex(m2, d, page) = entry
        BY <3>2, <4>0, Zenon DEF va_info_ex
      <4> QED
        BY <3>7, <4>1, Zenon DEF vmm_get_physical, Present
    <3> DEFINE m3 == [m2 EXCEPT !.heap = [size |-> @.size + 1, used |-> @.used \cup {n},
                                          frame |-> Append(@.frame, vmm_get_physical(m2, d, page))]]
    <3>10. r = Ok(m3)
      <4>1. r1.err = "no" /\ r1.mem = m2
        BY <3>5, Zenon DEF Ok
      <4> QED
        BY <2>1, <4>1, Zenon DEF GrownHeap
    <3>11. /\ MemType(m3) /\ m3.regions = a.regions /\ m3.dirs = m.dirs /\ m3.tables = m2.tables
           /\ m3.transient = m.transient
           /\ m3.heap = [size |-> n + 1, used |-> m.heap.used \cup {n}, frame |-> Append(m.heap.frame, a.frame)]
      <4> DEFINE h == [size |-> m2.heap.size + 1, used |-> m2.heap.used \cup {n},
                       frame |-> Append(m2.heap.frame, vmm_get_physical(m2, d, page))]
      <4>1. m3 = [m2 EXCEPT !.heap = h]
        BY Zenon
      <4>2. h = [size |-> n + 1, used |-> m.heap.used \cup {n}, frame |-> Append(m.heap.frame, a.frame)]
        BY <3>6, <3>9, Zenon
      <4> HIDE DEF m3, h
      <4>3. /\ MemType(m3) /\ m3.regions = m2.regions /\ m3.dirs = m2.dirs /\ m3.tables = m2.tables
            /\ m3.transient = m2.transient /\ m3.heap = h
        BY <3>6, <4>1, Zenon DEF MemType
      <4> QED
        BY <3>6, <4>2, <4>3, Zenon
    <3> HIDE DEF m3
    <3>12. /\ m3.heap.size = n + 1 /\ m3.heap.used = m.heap.used \cup {n}
           /\ m3.heap.frame = Append(m.heap.frame, a.frame)
      BY <1>2, <3>11 DEF HeapType
    <3>13. m3.heap \in HeapType
      <4>1. n + 1 \in 2 .. HeapMax /\ m.heap.used \cup {n} \in SUBSET Nat /\ Append(m.heap.frame, a.frame) \in Seq(Nat)
        BY <1>2, <1>4, <2>2, <3>4, VmmAssumption, SMTT(20) DEF HeapType
      <4> QED
        BY <1>2, <3>11, <4>1 DEF HeapType
    <3>14. HeapOk(m.dirs, m3.tables, m3.heap, m.transient, {n})
      <4>1. \A i \in Ptes : i # Idx(page) => m3.tables[KernelTable][i] = m.tables[KernelTable][i]
        BY <3>2, <3>8, <3>11
      <4>2. m3.tables[KernelTable][Idx(page)] = [frame |-> a.frame, flags |-> {"P", "W"}]
        BY <3>2, <3>7, <3>8, <3>11, <3>e, Zenon
      <4> HIDE DEF page
      <4>3. /\ \A i \in Ptes : i # Idx(HeapStart + m.heap.size) => m3.tables[KernelTable][i] = m.tables[KernelTable][i]
            /\ m3.tables[KernelTable][Idx(HeapStart + m.heap.size)] = [frame |-> a.frame, flags |-> {"P", "W"}]
        BY <3>p, <4>1, <4>2, Zenon
      <4>4. m3.heap.size = m.heap.size + 1 /\ m.heap.size < HeapMax
        BY <3>12, <1>4, Zenon
      <4> QED
        BY <1>1, <4>3, <4>4, <3>4, <3>12, <3>13, HeapAppend, SMTT(20)
    <3>15. Range(m3.heap.frame) = Range(m.heap.frame) \cup {a.frame}
      <4>1. m.heap.frame \in Seq(Nat)
        BY <1>2, Zenon DEF HeapType
      <4> DEFINE s == m.heap.frame
                 f == a.frame
      <4>2. s \in Seq(Nat) /\ f \in Nat /\ m3.heap.frame = Append(s, f)
        BY <3>4, <3>12, <4>1, Zenon
      <4> HIDE DEF s, f
      <4>3. DOMAIN Append(s, f) = DOMAIN s \cup {Len(s) + 1} /\ Append(s, f)[Len(s) + 1] = f
            /\ \A i \in DOMAIN s : Append(s, f)[i] = s[i]
        BY <4>2
      <4>4. Range(Append(s, f)) = Range(s) \cup {f}
        BY <4>3, Zenon DEF Range
      <4> QED
        BY <4>2, <4>4, Zenon DEF s, f
    <3>16. UserTabs(m3.tables) = UserTabs(m.tables) /\ \A t \in UserTabs(m.tables) : m3.tables[t] = m.tables[t]
      BY <3>8, <3>11, Zenon DEF UserTabs
    <3>17. FramesOk(m3.regions, m3.tables, Range(m3.heap.frame), H)
      <4>1. /\ FramesOk(a.regions, m.tables, Range(m.heap.frame), With(H, a.frame))
            /\ a.frame \notin H
        BY <1>1, <2>5, FramesAlloc, Zenon
      <4>2. FramesOk(a.regions, m.tables, With(Range(m.heap.frame), a.frame), Without(With(H, a.frame), a.frame))
        <5>1. a.frame \in With(H, a.frame)
          BY Zenon DEF With
        <5> QED
          BY <4>1, <5>1, FramesHeap, Zenon
      <4>3. Without(With(H, a.frame), a.frame) = H
        BY <4>1, Zenon DEF With, Without
      <4>4. FramesOk(a.regions, m.tables, With(Range(m.heap.frame), a.frame), H)
        BY <4>2, <4>3, Zenon
      <4> QED
        BY <3>11, <3>15, <3>16, <4>4, FramesKernel, Zenon DEF With
    <3>18. DirsOk(m3.dirs, m3.tables, N, C)
      BY <1>1, <3>8, <3>11, DirsSameTables, SMTT(20)
    <3>19. RegionsOk(m3.regions)
      BY <2>5, <3>11, SMTT(20) DEF AllocGives
    <3>20. Good(m3, N, C, H, {n})
      BY <3>8, <3>11, <3>14, <3>17, <3>18, <3>19, Zenon DEF Good
    <3> QED
      BY <3>10, <3>11, <3>16, <3>20 DEF Ok, SameUserHalf, TookPage
  <2> QED
    BY <2>3, <2>4, <2>5, Zenon
<1> QED
  BY <1>2, <1>3, <1>4, VmmAssumption

(* kmalloc_a of a page. *)
LEMMA KmallocFacts ==
    ASSUME NEW m, NEW N, NEW C, NEW H, Good(m, N, C, H, {}), NEW d \in DOMAIN m.dirs, d \notin N,
           NEW r, r = kmalloc_a(m, d), NEW page, page = kmalloc_page(m)
    PROVE  \/ r.err = "no" /\ TookPage(m, r.mem, page, N, C, H)
           \/ r.mem = m /\ HaltCause(r.err, m)
<1>1. HeapOk(m.dirs, m.tables, m.heap, m.transient, {}) /\ MemType(m)
  BY Zenon DEF Good
<1>2. m.heap \in HeapType /\ m.heap.size \in Nat
  BY <1>1, VmmAssumption DEF HeapOk, HeapType
<1>3. CASE FreeHeapPages(m) = {}
  BY <1>3, GrowFacts DEF kmalloc_a, kmalloc_page
<1>4. CASE FreeHeapPages(m) # {}
  <2> DEFINE m2 == [m EXCEPT !.heap.used = @ \cup {LeastOf(FreeHeapPages(m))}]
  <2>1. r = Ok(m2) /\ page = LeastOf(FreeHeapPages(m))
    BY <1>4, Zenon DEF kmalloc_a, kmalloc_page
  <2>2. page \in FreeHeapPages(m)
    <3>1. FreeHeapPages(m) \in SUBSET (0 .. m.heap.size)
      BY <1>2 DEF FreeHeapPages
    <3> QED
      BY <1>2, <1>4, <2>1, <3>1, LeastFacts, Zenon
  <2>3. page \in 0 .. m.heap.size - 1 /\ page \notin m.heap.used
    BY <2>2, Zenon DEF FreeHeapPages
  <2>4. /\ MemType(m2) /\ m2.regions = m.regions /\ m2.dirs = m.dirs /\ m2.tables = m.tables
        /\ m2.transient = m.transient /\ m2.heap = [m.heap EXCEPT !.used = @ \cup {page}]
    BY <1>1, <2>1 DEF MemType
  <2> HIDE DEF m2
  <2>5. /\ m2.heap \in HeapType /\ m2.heap.size = m.heap.size /\ m2.heap.frame = m.heap.frame
        /\ m2.heap.used = m.heap.used \cup {page}
    BY <1>2, <2>3, <2>4 DEF HeapType
  <2>6. HeapOk(m.dirs, m.tables, m2.heap, m.transient, {page})
    BY <1>1, <2>3, <2>5, HeapTake, Zenon
  <2>7. Good(m2, N, C, H, {page})
    BY <2>4, <2>5, <2>6, Zenon DEF Good
  <2> QED
    BY <2>1, <2>4, <2>7 DEF Ok, SameUserHalf, TookPage
<1> QED
  BY <1>3, <1>4, Zenon

(* An entry of the kernel's table is replaced. *)
KernelSetAt(m, m2, i, entry, N, C, H) ==
    /\ MemType(m2) /\ RegionsOk(m2.regions) /\ TablesOk(m2.dirs, m2.tables)
    /\ DirsOk(m2.dirs, m2.tables, N, C) /\ FramesOk(m2.regions, m2.tables, Range(m2.heap.frame), H)
    /\ m2.heap = m.heap /\ m2.transient = m.transient /\ m2.regions = m.regions /\ m2.dirs = m.dirs
    /\ SameUserHalf(m, m2)
    /\ m2.tables[KernelTable][Idx(HeapStart + i)] = entry
    /\ \A j \in Ptes : j # Idx(HeapStart + i) => m2.tables[KernelTable][j] = m.tables[KernelTable][j]

LEMMA KernelSet ==
    ASSUME NEW m, NEW N, NEW C, NEW H, NEW E, Good(m, N, C, H, E), NEW d \in DOMAIN m.dirs, d \notin N,
           NEW i \in 0 .. HeapMax - 1, NEW entry \in EntryType,
           NEW m2, m2 = SetEntry(m, d, HeapStart + i, entry)
    PROVE  KernelSetAt(m, m2, i, entry, N, C, H)
<1> DEFINE x == Idx(HeapStart + i)
<1>1. /\ MemType(m) /\ RegionsOk(m.regions) /\ TablesOk(m.dirs, m.tables) /\ DirsOk(m.dirs, m.tables, N, C)
      /\ FramesOk(m.regions, m.tables, Range(m.heap.frame), H)
  BY Zenon DEF Good
<1>2. m.dirs[d][Dir(HeapStart + i)] = KernelTable
  BY <1>1, HeapEntryFacts, Zenon
<1>3. KernelTable \in DOMAIN m.tables /\ x \in Ptes
  BY <1>1, HeapPageFacts, SMTT(20) DEF TablesOk
<1>4. /\ MemType(m2) /\ m2.regions = m.regions /\ m2.dirs = m.dirs
      /\ m2.tables = SetIn(m.tables, KernelTable, x, entry)
      /\ m2.heap = m.heap /\ m2.transient = m.transient
  BY <1>1, <1>2, SetEntryFields
<1> HIDE DEF x
<1>5. /\ TablesOk(m.dirs, m2.tables) /\ DOMAIN m2.tables = DOMAIN m.tables
      /\ \A u \in DOMAIN m.tables : \A j \in Ptes :
            m2.tables[u][j] = IF u = KernelTable /\ j = x THEN entry ELSE m.tables[u][j]
      /\ \A u \in DOMAIN m.tables : u # KernelTable => m2.tables[u] = m.tables[u]
  BY <1>1, <1>3, <1>4, SetInFacts, SMTT(20)
<1>6. UserTabs(m2.tables) = UserTabs(m.tables) /\ \A t \in UserTabs(m.tables) : m2.tables[t] = m.tables[t]
  BY <1>5, Zenon DEF UserTabs
<1>7. DirsOk(m2.dirs, m2.tables, N, C)
  BY <1>1, <1>4, <1>5, DirsSameTables, Zenon
<1>8. FramesOk(m2.regions, m2.tables, Range(m2.heap.frame), H)
  BY <1>1, <1>4, <1>6, FramesKernel, Zenon
<1>9. /\ m2.tables[KernelTable][x] = entry
      /\ \A j \in Ptes : j # x => m2.tables[KernelTable][j] = m.tables[KernelTable][j]
  BY <1>3, <1>5, Zenon
<1> QED
  BY <1>1, <1>4, <1>5, <1>6, <1>7, <1>8, <1>9, Zenon DEF KernelSetAt, SameUserHalf, x

(* The page of an entry shows another frame, and its own is remembered. *)
LEMMA HeapShow ==
    ASSUME NEW dirs, NEW tables, NEW heap, NEW transient, NEW page, HeapOk(dirs, tables, heap, transient, {page}),
           NEW other, "P" \in other[KernelTable][Idx(HeapStart + page)].flags,
           \A j \in Ptes : j # Idx(HeapStart + page) => other[KernelTable][j] = tables[KernelTable][j]
    PROVE  HeapOk(dirs, other, heap, Put(transient, page, tables[KernelTable][Idx(HeapStart + page)].frame), {})
<1> DEFINE own == tables[KernelTable][Idx(HeapStart + page)].frame
           after == Put(transient, page, own)
<1>1. /\ heap.size \in 2 .. HeapMax /\ HeapMax \in Nat /\ page \in 0 .. heap.size - 1 /\ page # 1
      /\ page \notin DOMAIN transient /\ page \notin DOMAIN dirs
  BY VmmAssumption, Zenon DEF HeapOk, HeapType
<1>2. page \in 0 .. HeapMax - 1 /\ heap.frame[page + 1] = own
  BY <1>1 DEF HeapOk
<1>3. /\ DOMAIN after = DOMAIN transient \cup {page} /\ after[page] = own
      /\ \A i \in DOMAIN transient : after[i] = transient[i]
  BY <1>1, Zenon DEF Put
<1> HIDE DEF after, own
<1>4. ASSUME NEW i \in 0 .. HeapMax - 1, i # page
      PROVE  other[KernelTable][Idx(HeapStart + i)] = tables[KernelTable][Idx(HeapStart + i)]
  BY <1>2, <1>4, HeapPageFacts, Zenon
<1>5. ASSUME NEW i \in 0 .. heap.size - 1
      PROVE  LET entry == other[KernelTable][Idx(HeapStart + i)]
             IN  /\ "P" \in entry.flags
                 /\ heap.frame[i + 1] = IF i \in DOMAIN after THEN after[i] ELSE entry.frame
  <2>1. CASE i = page
    BY <1>2, <1>3, <2>1, Zenon
  <2>2. CASE i # page
    <3>1. i \in 0 .. HeapMax - 1
      BY <1>1
    <3>2. other[KernelTable][Idx(HeapStart + i)] = tables[KernelTable][Idx(HeapStart + i)]
      BY <1>4, <2>2, <3>1, Zenon
    <3> QED
      BY <1>3, <2>2, <3>2, Zenon DEF HeapOk
  <2> QED
    BY <2>1, <2>2, Zenon
<1>6. ASSUME NEW i \in heap.size .. HeapMax - 1
      PROVE  "P" \notin other[KernelTable][Idx(HeapStart + i)].flags
  <2>1. i \in 0 .. HeapMax - 1 /\ i # page
    BY <1>1
  <2> QED
    BY <1>4, <2>1, Zenon DEF HeapOk
<1>7. HeapOk(dirs, other, heap, after, {})
  BY <1>1, <1>3, <1>5, <1>6, Zenon DEF HeapOk
<1> QED
  BY <1>7, Zenon DEF after, own

(* ... and it shows its own again, and is free. *)
LEMMA HeapHide ==
    ASSUME NEW dirs, NEW tables, NEW heap, NEW transient, HeapOk(dirs, tables, heap, transient, {}),
           NEW page \in DOMAIN transient,
           NEW other, "P" \in other[KernelTable][Idx(HeapStart + page)].flags,
           other[KernelTable][Idx(HeapStart + page)].frame = transient[page],
           \A j \in Ptes : j # Idx(HeapStart + page) => other[KernelTable][j] = tables[KernelTable][j],
           NEW after, after \in HeapType, after.size = heap.size, after.frame = heap.frame,
           after.used = heap.used \ {page}
    PROVE  HeapOk(dirs, other, after, Restrict(transient, DOMAIN transient \ {page}), {})
<1> DEFINE left == Restrict(transient, DOMAIN transient \ {page})
<1>1. /\ heap.size \in 2 .. HeapMax /\ HeapMax \in Nat /\ page \in 0 .. heap.size - 1 /\ page # 1
      /\ page \notin DOMAIN dirs
  BY VmmAssumption, Zenon DEF HeapOk, HeapType
<1>2. page \in 0 .. HeapMax - 1 /\ heap.frame[page + 1] = transient[page]
  BY <1>1 DEF HeapOk
<1>3. /\ DOMAIN left = DOMAIN transient \ {page}
      /\ \A i \in DOMAIN left : left[i] = transient[i]
  BY Zenon DEF Restrict
<1> HIDE DEF left
<1>4. ASSUME NEW i \in 0 .. HeapMax - 1, i # page
      PROVE  other[KernelTable][Idx(HeapStart + i)] = tables[KernelTable][Idx(HeapStart + i)]
  BY <1>2, <1>4, HeapPageFacts, Zenon
<1>5. ASSUME NEW i \in 0 .. heap.size - 1
      PROVE  LET entry == other[KernelTable][Idx(HeapStart + i)]
             IN  /\ "P" \in entry.flags
                 /\ after.frame[i + 1] = IF i \in DOMAIN left THEN left[i] ELSE entry.frame
  <2>1. CASE i = page
    BY <1>2, <1>3, <2>1, Zenon
  <2>2. CASE i # page
    <3>1. i \in 0 .. HeapMax - 1
      BY <1>1
    <3>2. other[KernelTable][Idx(HeapStart + i)] = tables[KernelTable][Idx(HeapStart + i)]
      BY <1>4, <2>2, <3>1, Zenon
    <3> QED
      BY <1>3, <2>2, <3>2, Zenon DEF HeapOk
  <2> QED
    BY <2>1, <2>2, Zenon
<1>6. ASSUME NEW i \in heap.size .. HeapMax - 1
      PROVE  "P" \notin other[KernelTable][Idx(HeapStart + i)].flags
  <2>1. i \in 0 .. HeapMax - 1 /\ i # page
    BY <1>1
  <2> QED
    BY <1>4, <2>1, Zenon DEF HeapOk
<1>7. after.used = DOMAIN dirs \cup {1} \cup DOMAIN left \cup {} /\ after.used \subseteq 0 .. heap.size - 1
  BY <1>1, <1>3 DEF HeapOk
<1>8. HeapOk(dirs, other, after, left, {})
  BY <1>3, <1>5, <1>6, <1>7, Zenon DEF HeapOk
<1> QED
  BY <1>8, Zenon DEF left

(* vmm_transient_map: on success the frame shows at a page that was free. *)
ShowsAt(m, after, page, N, C, H) ==
    /\ Good(after, N, C, H, {}) /\ SameUserHalf(m, after)
    /\ DOMAIN after.transient = DOMAIN m.transient \cup {page}
    /\ page \notin DOMAIN m.transient /\ page \in Nat

LEMMA TransientMapFacts ==
    ASSUME NEW m, NEW N, NEW C, NEW H, Good(m, N, C, H, {}), NEW d \in DOMAIN m.dirs, d \notin N,
           NEW frame \in Nat, NEW r, r = vmm_transient_map(m, d, frame), NEW page, page = kmalloc_page(m)
    PROVE  \/ r.err = "no" /\ ShowsAt(m, r.mem, page, N, C, H)
           \/ r.mem = m /\ HaltCause(r.err, m)
<1> DEFINE r1 == kmalloc_a(m, d)
<1>1. r = ShowFrame(r1, d, page, frame)
  BY Zenon DEF vmm_transient_map
<1>2. \/ r1.err = "no" /\ TookPage(m, r1.mem, page, N, C, H)
      \/ r1.mem = m /\ HaltCause(r1.err, m)
  BY KmallocFacts, Zenon
<1> HIDE DEF r1
<1>3. CASE r1.mem = m /\ HaltCause(r1.err, m)
  <2>1. r = r1
    BY <1>1, <1>3, Zenon DEF ShowFrame, HaltCause
  <2> QED
    BY <1>3, <2>1, Zenon
<1>4. CASE r1.err = "no" /\ TookPage(m, r1.mem, page, N, C, H)
  <2> DEFINE m1 == r1.mem
             entry == [frame |-> frame, flags |-> {"P", "W"}]
             own == vmm_get_physical(m1, d, HeapStart + page)
             m2 == SetEntry(m1, d, HeapStart + page, entry)
             m3 == [m2 EXCEPT !.transient = Put(@, page, own)]
  <2>1. r = Ok(m3)
    BY <1>1, <1>4, Zenon DEF ShowFrame
  <2>2. Good(m1, N, C, H, {page}) /\ SameUserHalf(m, m1) /\ m1.transient = m.transient /\ m1.dirs = m.dirs
    BY <1>4, SMTT(20) DEF TookPage, SameUserHalf
  <2>3. HeapOk(m1.dirs, m1.tables, m1.heap, m1.transient, {page})
    BY <2>2, Zenon DEF Good
  <2>4. page \in 0 .. m1.heap.size - 1 /\ page \in 0 .. HeapMax - 1 /\ page \notin DOMAIN m1.transient
    BY <2>3, VmmAssumption, SMTT(20) DEF HeapOk, HeapType
  <2>5. entry \in EntryType /\ "P" \in entry.flags
    BY Zenon DEF EntryType
  <2> HIDE DEF entry, m1
  <2>k. KernelSetAt(m1, m2, page, entry, N, C, H)
    BY <2>2, <2>4, <2>5, KernelSet, Zenon
  <2>6. /\ MemType(m2) /\ m2.heap = m1.heap /\ m2.transient = m1.transient /\ m2.regions = m1.regions
        /\ m2.dirs = m1.dirs /\ SameUserHalf(m1, m2)
    BY <2>k, Zenon DEF KernelSetAt
  <2>7. own = m1.tables[KernelTable][Idx(HeapStart + page)].frame
    <3>1. m1.dirs[d][Dir(HeapStart + page)] = KernelTable /\ KernelTable # 0
      BY <2>2, <2>4, HeapEntryFacts, KernelTableFacts DEF Good
    <3>2. "P" \in m1.tables[KernelTable][Idx(HeapStart + page)].flags
      BY <2>3, <2>4, Zenon DEF HeapOk
    <3> QED
      BY <3>1, <3>2, SMTT(20) DEF vmm_get_physical, Present, va_info_ex
  <2> HIDE DEF m2, own
  <2>8. /\ MemType(m3) /\ m3.regions = m2.regions /\ m3.dirs = m2.dirs /\ m3.tables = m2.tables
        /\ m3.heap = m2.heap /\ m3.transient = Put(m2.transient, page, own)
    BY <2>6, SMTT(20) DEF MemType
  <2> HIDE DEF m3
  <2>9. HeapOk(m1.dirs, m2.tables, m1.heap, Put(m1.transient, page, own), {})
    <3>1. /\ "P" \in m2.tables[KernelTable][Idx(HeapStart + page)].flags
          /\ \A j \in Ptes : j # Idx(HeapStart + page) => m2.tables[KernelTable][j] = m1.tables[KernelTable][j]
      BY <2>k, <2>5, Zenon DEF KernelSetAt
    <3> QED
      BY <2>3, <2>7, <3>1, HeapShow, Zenon
  <2>11. Good(m3, N, C, H, {})
    BY <2>k, <2>6, <2>8, <2>9, Zenon DEF Good, KernelSetAt
  <2>12. SameUserHalf(m, m3)
    BY <2>2, <2>6, <2>8, SMTT(20) DEF SameUserHalf
  <2>13. DOMAIN m3.transient = DOMAIN m.transient \cup {page}
    BY <2>2, <2>6, <2>8, Zenon DEF Put
  <2> QED
    BY <2>1, <2>2, <2>4, <2>11, <2>12, <2>13, VmmAssumption DEF ShowsAt, Ok
<1> QED
  BY <1>2, <1>3, <1>4, Zenon

(* vmm_transient_unmap undoes it. *)
LEMMA TransientUnmapFacts ==
    ASSUME NEW m, NEW N, NEW C, NEW H, Good(m, N, C, H, {}), NEW d \in DOMAIN m.dirs, d \notin N,
           NEW page \in DOMAIN m.transient, NEW m4, m4 = vmm_transient_unmap(m, d, page)
    PROVE  /\ Good(m4, N, C, H, {}) /\ SameUserHalf(m, m4) /\ m4.regions = m.regions
           /\ DOMAIN m4.transient = DOMAIN m.transient \ {page}
<1> DEFINE entry == [frame |-> m.transient[page], flags |-> {"P", "W"}]
           m2 == SetEntry(m, d, HeapStart + page, entry)
           m3 == [m2 EXCEPT !.transient = Restrict(@, DOMAIN @ \ {page})]
<1>1. HeapOk(m.dirs, m.tables, m.heap, m.transient, {})
  BY Zenon DEF Good
<1>2. page \in 0 .. m.heap.size - 1 /\ page \in 0 .. HeapMax - 1 /\ m.heap \in HeapType
  BY <1>1, VmmAssumption, SMTT(20) DEF HeapOk, HeapType
<1>3. m.transient[page] \in Nat
  <2>1. m.heap.frame \in Seq(Nat) /\ Len(m.heap.frame) = m.heap.size /\ m.heap.size \in Nat
    BY <1>1, VmmAssumption DEF HeapOk, HeapType
  <2>2. m.transient[page] = m.heap.frame[page + 1]
    BY <1>1, <1>2, Zenon DEF HeapOk
  <2>3. page + 1 \in 1 .. m.heap.size
    BY <1>2, <2>1
  <2> QED
    BY <2>1, <2>2, <2>3
<1>4. entry \in EntryType /\ "P" \in entry.flags /\ entry.frame = m.transient[page]
  BY <1>3, Zenon DEF EntryType
<1>5. m4 = [m3 EXCEPT !.heap.used = @ \ {page}]
  BY SMTT(20) DEF vmm_transient_unmap, kfree
<1> HIDE DEF entry
<1>k. KernelSetAt(m, m2, page, entry, N, C, H)
  BY <1>2, <1>4, KernelSet, Zenon
<1>6. /\ MemType(m2) /\ m2.heap = m.heap /\ m2.transient = m.transient /\ m2.regions = m.regions
      /\ m2.dirs = m.dirs /\ SameUserHalf(m, m2)
  BY <1>k, Zenon DEF KernelSetAt
<1> HIDE DEF m2
<1>7. /\ MemType(m3) /\ m3.regions = m2.regions /\ m3.dirs = m2.dirs /\ m3.tables = m2.tables
      /\ m3.heap = m2.heap /\ m3.transient = Restrict(m2.transient, DOMAIN m2.transient \ {page})
  BY <1>6 DEF MemType
<1> HIDE DEF m3
<1>8. /\ MemType(m4) /\ m4.regions = m3.regions /\ m4.dirs = m3.dirs /\ m4.tables = m3.tables
      /\ m4.heap = [m3.heap EXCEPT !.used = @ \ {page}] /\ m4.transient = m3.transient
  BY <1>5, <1>7, SMTT(20) DEF MemType
<1>9. /\ m4.heap \in HeapType /\ m4.heap.size = m.heap.size /\ m4.heap.frame = m.heap.frame
      /\ m4.heap.used = m.heap.used \ {page}
  BY <1>2, <1>6, <1>7, <1>8 DEF HeapType
<1>10. HeapOk(m.dirs, m2.tables, m4.heap, Restrict(m.transient, DOMAIN m.transient \ {page}), {})
  <2>1. /\ "P" \in m2.tables[KernelTable][Idx(HeapStart + page)].flags
        /\ m2.tables[KernelTable][Idx(HeapStart + page)].frame = m.transient[page]
        /\ \A j \in Ptes : j # Idx(HeapStart + page) => m2.tables[KernelTable][j] = m.tables[KernelTable][j]
    BY <1>k, <1>4, Zenon DEF KernelSetAt
  <2> QED
    BY <1>1, <1>9, <2>1, HeapHide
<1>12. Good(m4, N, C, H, {})
  BY <1>k, <1>6, <1>7, <1>8, <1>9, <1>10, Zenon DEF Good, KernelSetAt
<1>13. SameUserHalf(m, m4)
  BY <1>6, <1>7, <1>8 DEF SameUserHalf
<1>14. DOMAIN m4.transient = DOMAIN m.transient \ {page}
  BY <1>6, <1>7, <1>8, Zenon DEF Restrict
<1> QED
  BY <1>6, <1>7, <1>8, <1>12, <1>13, <1>14, Zenon

(* The user half. *)

LEMMA HeapSame ==
    ASSUME NEW dirs, NEW tables, NEW heap, NEW transient, NEW E, HeapOk(dirs, tables, heap, transient, E),
           NEW dirs2, DOMAIN dirs2 = DOMAIN dirs, NEW tables2, tables2[KernelTable] = tables[KernelTable]
    PROVE  HeapOk(dirs2, tables2, heap, transient, E)
BY Zenon DEF HeapOk

(* pmm_alloc: one more frame in hand. *)
LEMMA GoodAlloc ==
    ASSUME NEW m, NEW N, NEW C, NEW H, NEW E, Good(m, N, C, H, E), NEW a, AllocGives(m.regions, a),
           NEW m2, m2 = WithRegions(m, a.regions)
    PROVE  /\ Good(m2, N, C, With(H, a.frame), E) /\ SameUserHalf(m, m2)
           /\ m2.transient = m.transient /\ m2.heap = m.heap /\ m2.tables = m.tables
           /\ a.frame \notin H /\ a.frame # 0 /\ a.frame \in Nat /\ GotFrame(a) /\ a.frame \notin DOMAIN m.tables
<1>1. /\ MemType(m2) /\ m2.regions = a.regions /\ m2.dirs = m.dirs /\ m2.tables = m.tables
      /\ m2.heap = m.heap /\ m2.transient = m.transient
  BY RegionsFields DEF Good
<1>2. /\ FramesOk(a.regions, m.tables, Range(m.heap.frame), With(H, a.frame))
      /\ a.frame \notin H \cup UserTabs(m.tables) \cup Range(m.heap.frame) \cup KernelFrames
  BY FramesAlloc, Zenon DEF Good
<1>3. RegionsOk(a.regions) /\ a.frame \in Nat /\ GotFrame(a)
  BY Zenon DEF AllocGives
<1>4. a.frame # 0 /\ a.frame \notin DOMAIN m.tables
  BY <1>2, KernelTableFacts, Zenon DEF UserTabs
<1>5. Good(m2, N, C, With(H, a.frame), E)
  BY <1>1, <1>2, <1>3, Zenon DEF Good
<1> QED
  BY <1>1, <1>2, <1>3, <1>4, <1>5, Zenon DEF SameUserHalf

(* A record that differs in its tables, or in its directories. *)
NewTablesOf(m, m2, tables) ==
    /\ MemType(m2) /\ m2.regions = m.regions /\ m2.dirs = m.dirs /\ m2.heap = m.heap
    /\ m2.transient = m.transient /\ m2.tables = tables

NewDirsOf(m, m2, dirs) ==
    /\ MemType(m2) /\ m2.regions = m.regions /\ m2.tables = m.tables /\ m2.heap = m.heap
    /\ m2.transient = m.transient /\ m2.dirs = dirs

(* The tables differ in entry i of table t. *)
SetTo(tables, new, t, i, entry) ==
    /\ DOMAIN new = DOMAIN tables
    /\ \A u \in DOMAIN tables : u # t => new[u] = tables[u]
    /\ \A j \in Ptes : new[t][j] = IF j = i THEN entry ELSE tables[t][j]

(* A frame in hand is mapped in a user table. *)
LEMMA GoodMap ==
    ASSUME NEW m, NEW N, NEW C, NEW H, NEW E, Good(m, N, C, H, E),
           NEW t \in UserTabs(m.tables), NEW i \in Ptes, NEW entry \in EntryType, entry.frame \in H,
           NEW m2, NewTablesOf(m, m2, SetIn(m.tables, t, i, entry))
    PROVE  Good(m2, N, C, Without(H, entry.frame), E) /\ SetTo(m.tables, m2.tables, t, i, entry)
<1>0. /\ MemType(m2) /\ m2.regions = m.regions /\ m2.dirs = m.dirs /\ m2.heap = m.heap
      /\ m2.transient = m.transient /\ m2.tables = SetIn(m.tables, t, i, entry)
  BY Zenon DEF NewTablesOf
<1>1. /\ RegionsOk(m.regions) /\ TablesOk(m.dirs, m.tables) /\ DirsOk(m.dirs, m.tables, N, C)
      /\ FramesOk(m.regions, m.tables, Range(m.heap.frame), H)
      /\ HeapOk(m.dirs, m.tables, m.heap, m.transient, E)
  BY Zenon DEF Good
<1>2. t \in DOMAIN m.tables /\ t # KernelTable /\ KernelTable \in DOMAIN m.tables
  BY <1>1, Zenon DEF UserTabs, TablesOk
<1>3. /\ TablesOk(m.dirs, m2.tables) /\ DOMAIN m2.tables = DOMAIN m.tables
      /\ \A u \in DOMAIN m.tables : \A j \in Ptes :
            m2.tables[u][j] = IF u = t /\ j = i THEN entry ELSE m.tables[u][j]
      /\ \A u \in DOMAIN m.tables : u # t => m2.tables[u] = m.tables[u]
  BY <1>0, <1>1, <1>2, SetInFacts
<1>4. FramesOk(m.regions, m2.tables, Range(m.heap.frame), Without(H, entry.frame))
  BY <1>0, <1>1, FramesMap, Zenon
<1>5. DirsOk(m.dirs, m2.tables, N, C)
  BY <1>0, <1>1, <1>3, DirsSameTables, Zenon
<1>6. HeapOk(m.dirs, m2.tables, m.heap, m.transient, E)
  BY <1>0, <1>1, <1>2, <1>3, HeapSame
<1>7. Good(m2, N, C, Without(H, entry.frame), E)
  BY <1>0, <1>1, <1>3, <1>4, <1>5, <1>6, Zenon DEF Good
<1> QED
  BY <1>2, <1>3, <1>7, Zenon DEF SetTo

(* A frame in hand becomes an empty table that no directory has yet. *)
LEMMA GoodTable ==
    ASSUME NEW m, NEW N, NEW C, NEW H, NEW E, Good(m, N, C, H, E), NEW f \in H, f \in Nat,
           NEW m2, NewTablesOf(m, m2, Put(m.tables, f, EmptyTable))
    PROVE  /\ Good(m2, N, With(C, f), Without(H, f), E)
           /\ f \notin DOMAIN m.tables /\ DOMAIN m2.tables = DOMAIN m.tables \cup {f}
           /\ m2.tables[f] = EmptyTable /\ f # KernelTable
           /\ \A t \in DOMAIN m.tables : m2.tables[t] = m.tables[t]
<1>0. /\ MemType(m2) /\ m2.regions = m.regions /\ m2.dirs = m.dirs /\ m2.heap = m.heap
      /\ m2.transient = m.transient /\ m2.tables = Put(m.tables, f, EmptyTable)
  BY Zenon DEF NewTablesOf
<1>1. /\ RegionsOk(m.regions) /\ TablesOk(m.dirs, m.tables) /\ DirsOk(m.dirs, m.tables, N, C)
      /\ FramesOk(m.regions, m.tables, Range(m.heap.frame), H)
      /\ HeapOk(m.dirs, m.tables, m.heap, m.transient, E)
  BY Zenon DEF Good
<1>2. /\ FramesOk(m.regions, m2.tables, Range(m.heap.frame), Without(H, f))
      /\ TablesOk(m.dirs, m2.tables)
      /\ f # KernelTable /\ f # 0 /\ f \notin DOMAIN m.tables
  BY <1>0, <1>1, FramesTable
<1>3. /\ DOMAIN m2.tables = DOMAIN m.tables \cup {f} /\ m2.tables[f] = EmptyTable
      /\ \A t \in DOMAIN m.tables : m2.tables[t] = m.tables[t]
  BY <1>0, <1>2, Zenon DEF Put
<1>4. UserTabs(m2.tables) = UserTabs(m.tables) \cup {f} /\ f \notin UserTabs(m.tables)
  BY <1>2, <1>3, Zenon DEF UserTabs
<1>5. DirsOk(m.dirs, m2.tables, N, With(C, f))
  BY <1>0, <1>1, <1>4 DEF DirsOk, With, Without
<1>6. HeapOk(m.dirs, m2.tables, m.heap, m.transient, E)
  BY <1>0, <1>1, <1>3, HeapSame, Zenon DEF TablesOk
<1>7. Good(m2, N, With(C, f), Without(H, f), E)
  BY <1>0, <1>1, <1>2, <1>5, <1>6, Zenon DEF Good
<1> QED
  BY <1>2, <1>3, <1>7, Zenon

(* A directory gets such a table. *)
Linked(dirs, d, i, t) == [dirs EXCEPT ![d][i] = t]

LinkedTo(dirs, new, d, i, t) ==
    /\ DOMAIN new = DOMAIN dirs
    /\ \A c \in DOMAIN dirs : \A j \in UserPdes \cup KernelPdes :
        new[c][j] = IF c = d /\ j = i THEN t ELSE dirs[c][j]
    /\ \A c \in DOMAIN dirs : c # d => new[c] = dirs[c]

LEMMA LinkedFacts ==
    ASSUME NEW dirs, NEW tables, TablesOk(dirs, tables), NEW d \in DOMAIN dirs, NEW i \in UserPdes, NEW t \in Nat
    PROVE  TablesOk(Linked(dirs, d, i, t), tables) /\ LinkedTo(dirs, Linked(dirs, d, i, t), d, i, t)
<1>1. dirs[d] \in [UserPdes \cup KernelPdes -> Nat]
  BY Zenon DEF TablesOk
<1>2. [dirs[d] EXCEPT ![i] = t] \in [UserPdes \cup KernelPdes -> Nat]
  BY <1>1, Zenon
<1>3. /\ DOMAIN Linked(dirs, d, i, t) = DOMAIN dirs
      /\ Linked(dirs, d, i, t)[d] = [dirs[d] EXCEPT ![i] = t]
      /\ \A c \in DOMAIN dirs : c # d => Linked(dirs, d, i, t)[c] = dirs[c]
  BY Zenon DEF Linked
<1>4. TablesOk(Linked(dirs, d, i, t), tables)
  BY <1>2, <1>3, Zenon DEF TablesOk
<1>5. \A c \in DOMAIN dirs : \A j \in UserPdes \cup KernelPdes :
        Linked(dirs, d, i, t)[c][j] = IF c = d /\ j = i THEN t ELSE dirs[c][j]
  BY <1>1, <1>3, Zenon
<1> QED
  BY <1>3, <1>4, <1>5, Zenon DEF LinkedTo

LEMMA UserKernelApart == \A i \in UserPdes : i \notin KernelPdes
BY VmmAssumption DEF UserPdes, KernelPdes

(* No table is in two places. *)
LEMMA DirsOnce ==
    ASSUME NEW dirs, NEW tables, NEW N, NEW C, DirsOk(dirs, tables, N, C),
           NEW c \in DOMAIN dirs, NEW d \in DOMAIN dirs, NEW i \in UserPdes, NEW j \in UserPdes,
           dirs[c][i] = dirs[d][j], dirs[c][i] # 0
    PROVE  c = d /\ i = j
BY DEF DirsOk

LEMMA GoodLink ==
    ASSUME NEW m, NEW N, NEW C, NEW H, NEW E, Good(m, N, C, H, E),
           NEW d \in DOMAIN m.dirs, NEW i \in UserPdes, m.dirs[d][i] = 0, NEW t \in C,
           NEW m2, NewDirsOf(m, m2, Linked(m.dirs, d, i, t))
    PROVE  Good(m2, N, Without(C, t), H, E) /\ LinkedTo(m.dirs, m2.dirs, d, i, t)
<1>0. /\ MemType(m2) /\ m2.regions = m.regions /\ m2.tables = m.tables /\ m2.heap = m.heap
      /\ m2.transient = m.transient /\ m2.dirs = Linked(m.dirs, d, i, t)
  BY Zenon DEF NewDirsOf
<1>1. /\ RegionsOk(m.regions) /\ TablesOk(m.dirs, m.tables) /\ DirsOk(m.dirs, m.tables, N, C)
      /\ FramesOk(m.regions, m.tables, Range(m.heap.frame), H)
      /\ HeapOk(m.dirs, m.tables, m.heap, m.transient, E)
  BY Zenon DEF Good
<1>2. t \in UserTabs(m.tables) /\ t \in Nat /\ t # 0
  BY <1>1, Zenon DEF DirsOk, UserTabs, TablesOk, With, Without
<1>l. TablesOk(m2.dirs, m.tables) /\ LinkedTo(m.dirs, m2.dirs, d, i, t)
  BY <1>0, <1>1, <1>2, LinkedFacts, Zenon
<1>3. /\ TablesOk(m2.dirs, m.tables) /\ DOMAIN m2.dirs = DOMAIN m.dirs
      /\ \A c \in DOMAIN m.dirs : \A j \in UserPdes \cup KernelPdes :
            m2.dirs[c][j] = IF c = d /\ j = i THEN t ELSE m.dirs[c][j]
  BY <1>l, Zenon DEF LinkedTo
<1> DEFINE dirs == m2.dirs
<1>4. \A c \in DOMAIN dirs : \A j \in UserPdes : dirs[c][j] # 0 => dirs[c][j] \in UserTabs(m.tables) \ Without(C, t)
  BY <1>0, <1>1, <1>2, <1>3 DEF DirsOk, With, Without
<1>5. \A c, e \in DOMAIN dirs : \A j, l \in UserPdes :
        dirs[c][j] = dirs[e][l] /\ dirs[c][j] # 0 => c = e /\ j = l
  <2> SUFFICES ASSUME NEW c \in DOMAIN m.dirs, NEW e \in DOMAIN m.dirs, NEW j \in UserPdes, NEW l \in UserPdes,
                      dirs[c][j] = dirs[e][l], dirs[c][j] # 0
               PROVE  c = e /\ j = l
    BY <1>3
  <2>0. dirs[c][j] = (IF c = d /\ j = i THEN t ELSE m.dirs[c][j]) /\ dirs[e][l] = (IF e = d /\ l = i THEN t ELSE m.dirs[e][l])
    BY <1>3, Zenon
  <2>1. m.dirs[c][j] # t /\ m.dirs[e][l] # t
    <3>1. \A a \in DOMAIN m.dirs : \A h \in UserPdes : m.dirs[a][h] # 0 => m.dirs[a][h] \notin C
      BY <1>1, Zenon DEF DirsOk
    <3> QED
      BY <1>2, <3>1, Zenon
  <2>2. CASE (c = d /\ j = i) \/ (e = d /\ l = i)
    BY <2>0, <2>1, <2>2, Zenon
  <2>3. CASE ~(c = d /\ j = i) /\ ~(e = d /\ l = i)
    <3>1. m.dirs[c][j] = m.dirs[e][l] /\ m.dirs[c][j] # 0
      BY <2>0, <2>3, Zenon
    <3> QED
      BY <1>1, <3>1, DirsOnce
  <2> QED
    BY <2>2, <2>3, Zenon
<1>6. ASSUME NEW u \in UserTabs(m.tables) \ Without(C, t)
      PROVE  \E c \in DOMAIN dirs : \E j \in UserPdes : dirs[c][j] = u
  <2>1. CASE u = t
    BY <1>3, <2>1, Zenon
  <2>2. CASE u # t
    <3>1. PICK c \in DOMAIN m.dirs, j \in UserPdes : m.dirs[c][j] = u
      BY <1>0, <1>1, <2>2, Zenon DEF DirsOk, With, Without
    <3>2. u # 0
      BY <1>1, Zenon DEF UserTabs, TablesOk
    <3>3. ~(c = d /\ j = i)
      BY <3>1, <3>2, Zenon
    <3> QED
      BY <1>3, <3>1, <3>3, Zenon
  <2> QED
    BY <2>1, <2>2, Zenon
<1>7. \A c \in DOMAIN dirs : \A j \in KernelPdes : dirs[c][j] = IF c \in N THEN 0 ELSE KernelEntry(j)
  <2> SUFFICES ASSUME NEW c \in DOMAIN m.dirs, NEW j \in KernelPdes
               PROVE  dirs[c][j] = IF c \in N THEN 0 ELSE KernelEntry(j)
    BY <1>3, Zenon
  <2>1. j # i
    BY UserKernelApart, Zenon
  <2>2. m.dirs[c][j] = IF c \in N THEN 0 ELSE KernelEntry(j)
    BY <1>1, Zenon DEF DirsOk
  <2>3. dirs[c][j] = m.dirs[c][j]
    BY <1>3, <2>1, Zenon
  <2> QED
    BY <2>2, <2>3, Zenon
<1> HIDE DEF dirs
<1>8. DirsOk(dirs, m.tables, N, Without(C, t))
  BY <1>0, <1>1, <1>4, <1>5, <1>6, <1>7, Zenon DEF DirsOk, With, Without
<1>9. HeapOk(dirs, m.tables, m.heap, m.transient, E)
  BY <1>0, <1>1, <1>3, HeapSame, Zenon DEF dirs
<1>10. Good(m2, N, Without(C, t), H, E)
  BY <1>0, <1>1, <1>3, <1>8, <1>9, Zenon DEF Good, dirs
<1> QED
  BY <1>l, <1>10, Zenon

(* What directory d maps in its user half is the same in both. *)
SameUser(m, other, d) ==
    \A i \in UserPdes :
        /\ other.dirs[d][i] = m.dirs[d][i]
        /\ m.dirs[d][i] # 0 => other.tables[m.dirs[d][i]] = m.tables[m.dirs[d][i]]

LEMMA SameHalfSameUser ==
    ASSUME NEW m, NEW N, NEW C, NEW H, NEW E, Good(m, N, C, H, E), NEW other, SameUserHalf(m, other),
           NEW d \in DOMAIN m.dirs
    PROVE  SameUser(m, other, d) /\ d \in DOMAIN other.dirs
BY Zenon DEF Good, DirsOk, SameUserHalf, SameUser, With, Without

LEMMA SameUserView ==
    ASSUME NEW m, NEW other, NEW d, SameUser(m, other, d), NEW p, Dir(p) \in UserPdes
    PROVE  /\ va_info_ex(other, d, p) = va_info_ex(m, d, p)
           /\ Present(other, d, p) <=> Present(m, d, p)
           /\ vmm_get_flags(other, d, p) = vmm_get_flags(m, d, p)
<1>1. va_info_ex(other, d, p) = va_info_ex(m, d, p)
  BY Zenon DEF SameUser, va_info_ex
<1> QED
  BY <1>1, Zenon DEF Present, vmm_get_flags

LEMMA SameUserTwice ==
    ASSUME NEW m, NEW m1, NEW m2, NEW d, SameUser(m, m1, d), SameUser(m1, m2, d)
    PROVE  SameUser(m, m2, d)
BY DEF SameUser

Pte(frame, flags) == [frame |-> frame, flags |-> flags]

(* What vmm_map changes in directory d, and that it changes no other. *)
MapsAt(m, after, d, page, entry) ==
    /\ va_info_ex(after, d, page) = entry
    /\ \A q \in Nat : Dir(q) \in UserPdes /\ q # page => va_info_ex(after, d, q) = va_info_ex(m, d, q)
    /\ DOMAIN after.dirs = DOMAIN m.dirs
    /\ \A c \in DOMAIN m.dirs : c # d => SameUser(m, after, c)
    /\ \A i \in UserPdes : i # Dir(page) => after.dirs[d][i] = m.dirs[d][i]
    /\ after.transient = m.transient

(* The table is there. *)
LEMMA MapInTable ==
    ASSUME NEW m, NEW N, NEW C, NEW H, NEW E, Good(m, N, C, H, E), NEW d \in DOMAIN m.dirs,
           NEW page \in Nat, Dir(page) \in UserPdes, m.dirs[d][Dir(page)] # 0,
           NEW entry \in EntryType, entry.frame \in H, NEW m2, m2 = SetEntry(m, d, page, entry)
    PROVE  Good(m2, N, C, Without(H, entry.frame), E) /\ MapsAt(m, m2, d, page, entry)
<1> DEFINE t == m.dirs[d][Dir(page)]
           x == Idx(page)
<1>1. MemType(m) /\ DirsOk(m.dirs, m.tables, N, C)
  BY Zenon DEF Good
<1>2. t \in UserTabs(m.tables) /\ x \in Ptes
  BY <1>1, PageFacts, Zenon DEF DirsOk, With, Without
<1>3. /\ MemType(m2) /\ m2.regions = m.regions /\ m2.dirs = m.dirs
      /\ m2.tables = SetIn(m.tables, t, x, entry)
      /\ m2.heap = m.heap /\ m2.transient = m.transient
  BY <1>1, SetEntryFields
<1>t. t = m.dirs[d][Dir(page)] /\ x = Idx(page)
  BY Zenon
<1> HIDE DEF t, x
<1>4. /\ Good(m2, N, C, Without(H, entry.frame), E)
      /\ DOMAIN m2.tables = DOMAIN m.tables
      /\ \A u \in DOMAIN m.tables : u # t => m2.tables[u] = m.tables[u]
      /\ \A j \in Ptes : m2.tables[t][j] = IF j = x THEN entry ELSE m.tables[t][j]
  <2>1. NewTablesOf(m, m2, SetIn(m.tables, t, x, entry))
    BY <1>3, Zenon DEF NewTablesOf
  <2>2. Good(m2, N, C, Without(H, entry.frame), E) /\ SetTo(m.tables, m2.tables, t, x, entry)
    BY <1>2, <2>1, GoodMap
  <2> QED
    BY <2>2, Zenon DEF SetTo
<1>5. va_info_ex(m2, d, page) = entry
  BY <1>2, <1>3, <1>4, <1>t, Zenon DEF va_info_ex
<1>6. ASSUME NEW q \in Nat, Dir(q) \in UserPdes, q # page
      PROVE  va_info_ex(m2, d, q) = va_info_ex(m, d, q)
  <2>1. CASE m.dirs[d][Dir(q)] = t
    <3>1. Dir(q) = Dir(page)
      BY <1>1, <1>6, <1>t, <2>1 DEF DirsOk, With, Without
    <3>2. Idx(q) # x /\ Idx(q) \in Ptes
      BY <1>6, <1>t, <3>1, SamePage, PageFacts, Zenon
    <3> QED
      BY <1>3, <1>4, <2>1, <3>2, Zenon DEF va_info_ex
  <2>2. CASE m.dirs[d][Dir(q)] # t
    <3>1. m.dirs[d][Dir(q)] # 0 => m.dirs[d][Dir(q)] \in DOMAIN m.tables
      BY <1>1, <1>6, Zenon DEF DirsOk, UserTabs, With, Without
    <3> QED
      BY <1>3, <1>4, <2>2, <3>1, Zenon DEF va_info_ex
  <2> QED
    BY <2>1, <2>2, Zenon
<1>7. ASSUME NEW c \in DOMAIN m.dirs, c # d
      PROVE  SameUser(m, m2, c)
  <2>1. \A i \in UserPdes : m.dirs[c][i] # 0 => m.dirs[c][i] # t /\ m.dirs[c][i] \in DOMAIN m.tables
    BY <1>1, <1>7, <1>t DEF DirsOk, UserTabs, With, Without
  <2> QED
    BY <1>3, <1>4, <2>1, Zenon DEF SameUser
<1> QED
  BY <1>3, <1>4, <1>5, <1>6, <1>7, Zenon DEF MapsAt

(* It is not, and a frame in hand becomes the table. *)
LEMMA MapInNewTable ==
    ASSUME NEW m, NEW N, NEW C, NEW H, NEW E, Good(m, N, C, H, E), NEW d \in DOMAIN m.dirs,
           NEW page \in Nat, Dir(page) \in UserPdes, m.dirs[d][Dir(page)] = 0,
           NEW entry \in EntryType, entry.frame \in H, NEW a, AllocGives(m.regions, a),
           NEW r, r = AddTable(m, d, page, entry, a)
    PROVE  r.err = "no" /\ Good(r.mem, N, C, Without(H, entry.frame), E) /\ MapsAt(m, r.mem, d, page, entry)
<1> DEFINE f == a.frame
           i == Dir(page)
           x == Idx(page)
           table == [EmptyTable EXCEPT ![x] = entry]
           m1 == WithRegions(m, a.regions)
           m2 == [regions |-> m1.regions, dirs |-> m1.dirs, tables |-> Put(m1.tables, f, EmptyTable),
                  heap |-> m1.heap, transient |-> m1.transient]
           m3 == [regions |-> m2.regions, dirs |-> Linked(m2.dirs, d, i, f), tables |-> m2.tables,
                  heap |-> m2.heap, transient |-> m2.transient]
           m4 == r.mem
<1>0. MemType(m) /\ x \in Ptes /\ DirsOk(m.dirs, m.tables, N, C)
  BY PageFacts, Zenon DEF Good
<1>1. /\ Good(m1, N, C, With(H, f), E) /\ m1.dirs = m.dirs /\ m1.heap = m.heap
      /\ m1.transient = m.transient /\ m1.tables = m.tables
      /\ f \notin H /\ f # 0 /\ f \in Nat /\ GotFrame(a) /\ f \notin DOMAIN m.tables
  <2>1. /\ Good(m1, N, C, With(H, a.frame), E) /\ SameUserHalf(m, m1)
        /\ m1.transient = m.transient /\ m1.heap = m.heap /\ m1.tables = m.tables
        /\ a.frame \notin H /\ a.frame # 0 /\ a.frame \in Nat /\ GotFrame(a) /\ a.frame \notin DOMAIN m.tables
    BY GoodAlloc
  <2> HIDE DEF m1
  <2> QED
    BY <2>1, Zenon DEF SameUserHalf
<1>r. m1.regions = a.regions
  BY <1>0, RegionsFields
<1>2. /\ r.err = "no" /\ MemType(m4) /\ m4.regions = a.regions /\ m4.heap = m.heap /\ m4.transient = m.transient
      /\ m4.dirs = Linked(m.dirs, d, i, f) /\ m4.tables = Put(m.tables, f, table)
  <2>1. r = Ok([m EXCEPT !.regions = a.regions, !.dirs[d][i] = f, !.tables = Put(@, f, table)])
    BY <1>1, Zenon DEF AddTable
  <2> HIDE DEF table, f, i
  <2>2. r.err = "no" /\ r.mem = [m EXCEPT !.regions = a.regions, !.dirs[d][i] = f, !.tables = Put(@, f, table)]
    BY <2>1 DEF Ok
  <2> DEFINE dirs == Linked(m.dirs, d, i, f)
             tables == Put(m.tables, f, table)
  <2>3. r.mem = [regions |-> a.regions, dirs |-> dirs, tables |-> tables, heap |-> m.heap, transient |-> m.transient]
    BY <1>0, <2>2, Zenon DEF MemType, Linked
  <2> HIDE DEF dirs, tables
  <2>4. /\ MemType(r.mem) /\ r.mem.regions = a.regions /\ r.mem.dirs = dirs /\ r.mem.tables = tables
        /\ r.mem.heap = m.heap /\ r.mem.transient = m.transient
    BY <2>3 DEF MemType
  <2> QED
    BY <2>2, <2>4, Zenon DEF dirs, tables
<1> HIDE DEF m1, m4
<1>3. /\ MemType(m2) /\ m2.regions = m1.regions /\ m2.dirs = m1.dirs /\ m2.heap = m1.heap
      /\ m2.transient = m1.transient /\ m2.tables = Put(m1.tables, f, EmptyTable)
  BY Zenon DEF MemType
<1> HIDE DEF m2
<1>4. /\ Good(m2, N, With(C, f), Without(With(H, f), f), E)
      /\ DOMAIN m2.tables = DOMAIN m.tables \cup {f}
      /\ m2.tables[f] = EmptyTable /\ f # KernelTable
      /\ \A t \in DOMAIN m.tables : m2.tables[t] = m.tables[t]
  <2>1. f \in With(H, f) /\ f \in Nat /\ Good(m1, N, C, With(H, f), E)
    BY <1>1, Zenon DEF With
  <2> HIDE DEF f
  <2>2. /\ Good(m2, N, With(C, f), Without(With(H, f), f), E)
        /\ f \notin DOMAIN m1.tables /\ DOMAIN m2.tables = DOMAIN m1.tables \cup {f}
        /\ m2.tables[f] = EmptyTable /\ f # KernelTable
        /\ \A t \in DOMAIN m1.tables : m2.tables[t] = m1.tables[t]
    <3>1. NewTablesOf(m1, m2, Put(m1.tables, f, EmptyTable))
      BY <1>3, Zenon DEF NewTablesOf
    <3> QED
      BY <2>1, <3>1, GoodTable
  <2> QED
    BY <1>1, <2>2, Zenon
<1>5. Without(With(H, f), f) = H /\ Without(With(C, f), f) = C
  <2>1. C \subseteq DOMAIN m.tables
    BY <1>0, Zenon DEF DirsOk, UserTabs, With, Without
  <2> QED
    BY <1>1, <2>1, Zenon DEF With, Without
<1>6. Good(m2, N, With(C, f), H, E)
  BY <1>4, <1>5, Zenon
<1>7. /\ MemType(m3) /\ m3.regions = m2.regions /\ m3.tables = m2.tables /\ m3.heap = m2.heap
      /\ m3.transient = m2.transient /\ m3.dirs = Linked(m2.dirs, d, i, f)
  BY Zenon DEF MemType
<1> HIDE DEF m3
<1>8. /\ Good(m3, N, C, H, E) /\ DOMAIN m3.dirs = DOMAIN m.dirs
      /\ \A c \in DOMAIN m.dirs : \A j \in UserPdes \cup KernelPdes :
            m3.dirs[c][j] = IF c = d /\ j = i THEN f ELSE m.dirs[c][j]
  <2>1. f \in With(C, f) /\ i \in UserPdes /\ m2.dirs[d][i] = 0 /\ d \in DOMAIN m2.dirs /\ m2.dirs = m.dirs
    BY <1>1, <1>3, Zenon DEF With
  <2> HIDE DEF f, i
  <2>2. Good(m3, N, Without(With(C, f), f), H, E) /\ LinkedTo(m2.dirs, m3.dirs, d, i, f)
    <3>1. f \in With(C, f) /\ i \in UserPdes /\ m2.dirs[d][i] = 0 /\ d \in DOMAIN m2.dirs
      BY <2>1, Zenon
    <3>2. NewDirsOf(m2, m3, Linked(m2.dirs, d, i, f))
      BY <1>7, Zenon DEF NewDirsOf
    <3> QED
      BY <1>6, <3>1, <3>2, GoodLink
  <2> QED
    BY <1>5, <2>1, <2>2, Zenon DEF LinkedTo
<1>9. m4.tables = SetIn(m3.tables, f, x, entry)
  <2>1. DOMAIN m3.tables = DOMAIN m.tables \cup {f} /\ m3.tables[f] = EmptyTable
        /\ \A t \in DOMAIN m.tables : m3.tables[t] = m.tables[t]
    BY <1>4, <1>7, Zenon
  <2>2. SetIn(m3.tables, f, x, entry) = [t \in DOMAIN m.tables \cup {f} |->
                IF t = f THEN [m3.tables[f] EXCEPT ![x] = entry] ELSE m3.tables[t]]
    BY <2>1, Zenon DEF SetIn
  <2>3. Put(m.tables, f, table) = [t \in DOMAIN m.tables \cup {f} |-> IF t = f THEN table ELSE m.tables[t]]
    BY Zenon DEF Put
  <2>4. table = [m3.tables[f] EXCEPT ![x] = entry]
    BY <2>1, Zenon
  <2> HIDE DEF table, f, x
  <2> QED
    BY <1>2, <2>1, <2>2, <2>3, <2>4, Zenon
<1>10. /\ m4.regions = m3.regions /\ m4.dirs = m3.dirs /\ m4.heap = m3.heap /\ m4.transient = m3.transient
  BY <1>1, <1>r, <1>2, <1>3, <1>7
<1>11. f \in UserTabs(m3.tables)
  BY <1>4, <1>7, Zenon DEF UserTabs
<1>12. /\ Good(m4, N, C, Without(H, entry.frame), E)
       /\ DOMAIN m4.tables = DOMAIN m3.tables
       /\ \A u \in DOMAIN m3.tables : u # f => m4.tables[u] = m3.tables[u]
       /\ \A j \in Ptes : m4.tables[f][j] = IF j = x THEN entry ELSE m3.tables[f][j]
  <2>1. MemType(m4) /\ x \in Ptes /\ Good(m3, N, C, H, E)
    BY <1>0, <1>2, <1>8, Zenon
  <2> HIDE DEF f, x
  <2>2. NewTablesOf(m3, m4, SetIn(m3.tables, f, x, entry))
    BY <1>9, <1>10, <2>1, Zenon DEF NewTablesOf
  <2>3. Good(m4, N, C, Without(H, entry.frame), E) /\ SetTo(m3.tables, m4.tables, f, x, entry)
    BY <2>1, <2>2, <1>11, GoodMap
  <2> QED
    BY <2>3, Zenon DEF SetTo
<1>13. /\ \A u \in DOMAIN m.tables : m4.tables[u] = m.tables[u]
       /\ \A j \in Ptes : m4.tables[f][j] = IF j = x THEN entry ELSE NoEntry
  <2>1. m3.tables[f] = EmptyTable /\ f \notin DOMAIN m.tables /\ DOMAIN m3.tables = DOMAIN m.tables \cup {f}
        /\ \A u \in DOMAIN m.tables : m3.tables[u] = m.tables[u]
    BY <1>1, <1>4, <1>7, Zenon
  <2>2. \A j \in Ptes : EmptyTable[j] = NoEntry
    BY Zenon DEF EmptyTable
  <2> QED
    BY <1>12, <2>1, <2>2, Zenon
<1>14. \A c \in DOMAIN m.dirs : \A j \in UserPdes : m4.dirs[c][j] = IF c = d /\ j = i THEN f ELSE m.dirs[c][j]
  BY <1>8, <1>10, Zenon
<1>15. \A c \in DOMAIN m.dirs : \A j \in UserPdes : m.dirs[c][j] # 0 => m.dirs[c][j] \in DOMAIN m.tables
  BY <1>0, Zenon DEF DirsOk, UserTabs, With, Without
<1>16. va_info_ex(m4, d, page) = entry
  BY <1>0, <1>1, <1>13, <1>14, Zenon DEF va_info_ex
<1>17. ASSUME NEW q \in Nat, Dir(q) \in UserPdes, q # page
       PROVE  va_info_ex(m4, d, q) = va_info_ex(m, d, q)
  <2>1. CASE Dir(q) = i
    <3>1. Idx(q) # x /\ Idx(q) \in Ptes
      BY <1>17, <2>1, SamePage, PageFacts, Zenon
    <3>2. va_info_ex(m, d, q) = NoEntry
      BY <2>1, Zenon DEF va_info_ex
    <3>3. m4.dirs[d][Dir(q)] = f
      BY <1>14, <1>17, <2>1, Zenon
    <3> QED
      BY <1>1, <1>13, <3>1, <3>2, <3>3, Zenon DEF va_info_ex
  <2>2. CASE Dir(q) # i
    BY <1>13, <1>14, <1>15, <1>17, <2>2, Zenon DEF va_info_ex
  <2> QED
    BY <2>1, <2>2, Zenon
<1>18. \A c \in DOMAIN m.dirs : c # d => SameUser(m, m4, c)
  BY <1>13, <1>14, <1>15, Zenon DEF SameUser
<1>19. /\ DOMAIN m4.dirs = DOMAIN m.dirs /\ m4.transient = m.transient
       /\ \A j \in UserPdes : j # i => m4.dirs[d][j] = m.dirs[d][j]
  BY <1>2, <1>8, <1>10, <1>14, Zenon
<1> QED
  BY <1>2, <1>12, <1>16, <1>17, <1>18, <1>19, Zenon DEF MapsAt, m4

(* vmm_map of a frame in hand at a user page that is not mapped. *)
LEMMA VmmMapFacts ==
    ASSUME NEW m, NEW N, NEW C, NEW H, NEW E, Good(m, N, C, H, E), NEW d \in DOMAIN m.dirs,
           NEW page \in Nat, Dir(page) \in UserPdes, ~Present(m, d, page),
           NEW frame \in H, frame \in Nat, NEW flags \in SUBSET {"P", "W", "U"},
           NEW r, r = vmm_map(m, d, page, frame, flags)
    PROVE  \/ /\ r.err = "no" /\ Good(r.mem, N, C, Without(H, frame), E)
              /\ MapsAt(m, r.mem, d, page, Pte(frame, flags))
           \/ r.mem = m /\ HaltCause(r.err, m)
<1> DEFINE entry == Pte(frame, flags)
           a == pmm_alloc(m.regions)
<1>1. entry \in EntryType /\ entry.frame = frame
  BY Zenon DEF EntryType, Pte
<1>2. CASE m.dirs[d][Dir(page)] # 0
  <2>1. r = Ok(SetEntry(m, d, page, entry))
    BY <1>2, Zenon DEF vmm_map, Pte
  <2>2. r.err = "no" /\ r.mem = SetEntry(m, d, page, entry)
    BY <2>1 DEF Ok
  <2> HIDE DEF entry
  <2>3. Good(r.mem, N, C, Without(H, entry.frame), E) /\ MapsAt(m, r.mem, d, page, entry)
    BY <1>1, <1>2, <2>2, MapInTable, Zenon
  <2> QED
    BY <1>1, <2>2, <2>3, Zenon DEF entry
<1>3. CASE m.dirs[d][Dir(page)] = 0
  <2>1. r = AddTable(m, d, page, entry, a)
    BY <1>3, Zenon DEF vmm_map, Pte
  <2>2. AllocGives(m.regions, a) \/ AllocFails(m.regions, a)
    BY AllocFacts, Zenon DEF Good
  <2> HIDE DEF entry, a
  <2>3. CASE AllocGives(m.regions, a)
    <3>1. r.err = "no" /\ Good(r.mem, N, C, Without(H, entry.frame), E) /\ MapsAt(m, r.mem, d, page, entry)
      BY <1>1, <1>3, <2>1, <2>3, MapInNewTable, ZenonT(30)
    <3> QED
      BY <1>1, <3>1, Zenon DEF entry
  <2>4. CASE AllocFails(m.regions, a)
    <3>1. r = Fail(m, NoFrame(a))
      BY <2>1, <2>4, Zenon DEF AddTable, AllocFails
    <3> QED
      BY <2>4, <3>1 DEF AllocFails, HaltCause, Fail
  <2> QED
    BY <2>2, <2>3, <2>4, Zenon
<1> QED
  BY <1>2, <1>3, Zenon

-----------------------------------------------------------------------------
(* Whole directories. *)

(* A directory is added at the heap page that was taken for it. *)
NewDirAt(m, after, page, N, C, H) ==
    /\ Good(after, With(N, page), C, H, {}) /\ page \in Nat /\ page # 0 /\ page \notin DOMAIN m.dirs
    /\ DOMAIN after.dirs = With(DOMAIN m.dirs, page) /\ after.dirs[page] = EmptyDir
    /\ \A c \in DOMAIN m.dirs : SameUser(m, after, c)
    /\ after.transient = m.transient

LEMMA GoodDir ==
    ASSUME NEW m, NEW m1, NEW page, NEW N, NEW C, NEW H, NEW E0, Good(m, N, C, H, E0),
           TookPage(m, m1, page, N, C, H),
           NEW m2, NewDirsOf(m1, m2, Put(m1.dirs, page, EmptyDir))
    PROVE  NewDirAt(m, m2, page, N, C, H)
<1>0. /\ MemType(m2) /\ m2.regions = m1.regions /\ m2.tables = m1.tables /\ m2.heap = m1.heap
      /\ m2.transient = m1.transient /\ m2.dirs = Put(m1.dirs, page, EmptyDir)
  BY Zenon DEF NewDirsOf
<1>1. /\ RegionsOk(m1.regions) /\ TablesOk(m1.dirs, m1.tables) /\ DirsOk(m1.dirs, m1.tables, N, C)
      /\ FramesOk(m1.regions, m1.tables, Range(m1.heap.frame), H)
      /\ HeapOk(m1.dirs, m1.tables, m1.heap, m1.transient, {page})
  BY Zenon DEF TookPage, Good
<1>s. SameUserHalf(m, m1) /\ m1.transient = m.transient /\ m1.dirs = m.dirs
  BY Zenon DEF TookPage, SameUserHalf
<1>2. page \in Nat /\ page # 0 /\ page \notin DOMAIN m1.dirs
  <2>1. page \in m1.heap.used /\ m1.heap.used \subseteq 0 .. m1.heap.size - 1
    BY <1>1, Zenon DEF HeapOk
  <2>2. page \notin DOMAIN m1.dirs /\ 0 \in DOMAIN m1.dirs
    BY <1>1, Zenon DEF HeapOk, TablesOk
  <2> QED
    BY <2>1, <2>2
<1>3. EmptyDir \in [UserPdes \cup KernelPdes -> Nat] /\ \A i \in UserPdes \cup KernelPdes : EmptyDir[i] = 0
  BY Zenon DEF EmptyDir
<1>4. /\ DOMAIN m2.dirs = DOMAIN m1.dirs \cup {page} /\ m2.dirs[page] = EmptyDir
      /\ \A c \in DOMAIN m1.dirs : m2.dirs[c] = m1.dirs[c]
  BY <1>0, <1>2, Zenon DEF Put
<1>5. TablesOk(m2.dirs, m2.tables)
  BY <1>0, <1>1, <1>2, <1>3, <1>4, Zenon DEF TablesOk
<1>6. DirsOk(m2.dirs, m2.tables, With(N, page), C)
  <2>1. \A c \in DOMAIN m2.dirs : \A i \in UserPdes : m2.dirs[c][i] # 0 => c \in DOMAIN m1.dirs /\ m2.dirs[c] = m1.dirs[c]
    BY <1>3, <1>4, Zenon
  <2>2. \A c \in DOMAIN m2.dirs : \A i \in UserPdes : m2.dirs[c][i] # 0 => m2.dirs[c][i] \in UserTabs(m2.tables) \ C
    BY <1>0, <1>1, <2>1 DEF DirsOk
  <2>3. \A c, d \in DOMAIN m2.dirs : \A i, j \in UserPdes :
            m2.dirs[c][i] = m2.dirs[d][j] /\ m2.dirs[c][i] # 0 => c = d /\ i = j
    <3> SUFFICES ASSUME NEW c \in DOMAIN m2.dirs, NEW d \in DOMAIN m2.dirs, NEW i \in UserPdes, NEW j \in UserPdes,
                        m2.dirs[c][i] = m2.dirs[d][j], m2.dirs[c][i] # 0
                 PROVE  c = d /\ i = j
      OBVIOUS
    <3>2. c \in DOMAIN m1.dirs /\ m2.dirs[c] = m1.dirs[c] /\ d \in DOMAIN m1.dirs /\ m2.dirs[d] = m1.dirs[d]
      BY <2>1, Zenon
    <3>3. m1.dirs[c][i] = m1.dirs[d][j] /\ m1.dirs[c][i] # 0
      BY <3>2
    <3>4. DirsOk(m1.dirs, m1.tables, N, C)
      BY <1>1, Zenon
    <3> QED
      BY <3>2, <3>3, <3>4, DirsOnce, Zenon
  <2>4. ASSUME NEW t \in UserTabs(m2.tables) \ C
        PROVE  \E d \in DOMAIN m2.dirs : \E i \in UserPdes : m2.dirs[d][i] = t
    <3>1. PICK d \in DOMAIN m1.dirs, i \in UserPdes : m1.dirs[d][i] = t
      BY <1>0, <1>1, Zenon DEF DirsOk
    <3> QED
      BY <1>4, <3>1, Zenon
  <2>5. C \subseteq UserTabs(m2.tables)
    BY <1>0, <1>1, Zenon DEF DirsOk
  <2>6. \A d \in DOMAIN m2.dirs : \A i \in KernelPdes :
            m2.dirs[d][i] = IF d \in With(N, page) THEN 0 ELSE KernelEntry(i)
    <3> SUFFICES ASSUME NEW d \in DOMAIN m2.dirs, NEW i \in KernelPdes
                 PROVE  m2.dirs[d][i] = IF d \in With(N, page) THEN 0 ELSE KernelEntry(i)
      BY Zenon
    <3>1. CASE d = page
      BY <1>3, <1>4, <3>1, Zenon DEF With
    <3>2. CASE d # page
      <4>1. d \in DOMAIN m1.dirs /\ m2.dirs[d] = m1.dirs[d]
        BY <1>4, <3>2, Zenon
      <4>2. m1.dirs[d][i] = IF d \in N THEN 0 ELSE KernelEntry(i)
        BY <1>1, <4>1, Zenon DEF DirsOk
      <4>3. d \in With(N, page) <=> d \in N
        BY <3>2, Zenon DEF With
      <4> QED
        BY <4>1, <4>2, <4>3, Zenon
    <3> QED
      BY <3>1, <3>2, Zenon
  <2> QED
    BY <2>2, <2>3, <2>4, <2>5, <2>6, Zenon DEF DirsOk
<1>7. HeapOk(m2.dirs, m2.tables, m2.heap, m2.transient, {})
  BY <1>0, <1>1, <1>4, Zenon DEF HeapOk
<1>8. Good(m2, With(N, page), C, H, {})
  BY <1>0, <1>1, <1>5, <1>6, <1>7, Zenon DEF Good
<1>9. ASSUME NEW c \in DOMAIN m.dirs
      PROVE  SameUser(m, m2, c)
  <2>1. SameUser(m, m1, c)
    BY <1>s, SameHalfSameUser, Zenon
  <2> QED
    BY <1>0, <1>s, <1>4, <2>1, Zenon DEF SameUser
<1> QED
  BY <1>0, <1>s, <1>2, <1>4, <1>8, <1>9, Zenon DEF NewDirAt, With

(* The start of a clone. *)
LEMMA AddDirFacts ==
    ASSUME NEW m, NEW N, NEW C, NEW H, Good(m, N, C, H, {}), NEW d \in DOMAIN m.dirs, d \notin N,
           NEW page, page = kmalloc_page(m), NEW r, r = AddDir(kmalloc_a(m, d), page)
    PROVE  \/ r.err = "no" /\ NewDirAt(m, r.mem, page, N, C, H)
           \/ r.mem = m /\ HaltCause(r.err, m)
<1> DEFINE r1 == kmalloc_a(m, d)
<1>1. \/ r1.err = "no" /\ TookPage(m, r1.mem, page, N, C, H)
      \/ r1.mem = m /\ HaltCause(r1.err, m)
  BY KmallocFacts, Zenon
<1>2. r = AddDir(r1, page)
  BY Zenon
<1> HIDE DEF r1
<1>3. CASE r1.err = "no" /\ TookPage(m, r1.mem, page, N, C, H)
  <2>1. r.err = "no" /\ r.mem = [r1.mem EXCEPT !.dirs = Put(r1.mem.dirs, page, EmptyDir)]
    BY <1>2, <1>3 DEF AddDir, Ok
  <2>2. MemType(r1.mem)
    BY <1>3, Zenon DEF TookPage, Good
  <2>3. NewDirsOf(r1.mem, r.mem, Put(r1.mem.dirs, page, EmptyDir))
    BY <2>1, <2>2, Zenon DEF NewDirsOf, MemType
  <2> QED
    BY <1>3, <2>1, <2>3, GoodDir, Zenon
<1>4. CASE r1.mem = m /\ HaltCause(r1.err, m)
  <2>1. r1.err # "no"
    BY <1>4, Zenon DEF HaltCause
  <2> QED
    BY <1>2, <1>4, <2>1, Zenon DEF AddDir
<1> QED
  BY <1>1, <1>3, <1>4, Zenon

(* The kernel half of a complete directory is copied into another. *)
SameUserAll(m, after) ==
    /\ DOMAIN after.dirs = DOMAIN m.dirs /\ after.transient = m.transient /\ after.tables = m.tables
    /\ after.regions = m.regions
    /\ \A c \in DOMAIN m.dirs : SameUser(m, after, c)

LEMMA CopyFacts ==
    ASSUME NEW m, NEW N, NEW C, NEW H, NEW E, Good(m, N, C, H, E), NEW c \in DOMAIN m.dirs, c \notin N,
           NEW d \in DOMAIN m.dirs, NEW m2, m2 = vmm_copy_kernel_mappings(m, c, d)
    PROVE  Good(m2, Without(N, d), C, H, E) /\ SameUserAll(m, m2)
<1>1. /\ MemType(m) /\ RegionsOk(m.regions) /\ TablesOk(m.dirs, m.tables) /\ DirsOk(m.dirs, m.tables, N, C)
      /\ FramesOk(m.regions, m.tables, Range(m.heap.frame), H)
      /\ HeapOk(m.dirs, m.tables, m.heap, m.transient, E)
  BY Zenon DEF Good
<1> DEFINE new == [i \in UserPdes \cup KernelPdes |-> IF i \in KernelPdes THEN m.dirs[c][i] ELSE m.dirs[d][i]]
<1>2. m.dirs[d] \in [UserPdes \cup KernelPdes -> Nat] /\ m.dirs[c] \in [UserPdes \cup KernelPdes -> Nat]
  BY <1>1, Zenon DEF TablesOk
<1>3. m2 = [m EXCEPT !.dirs = [m.dirs EXCEPT ![d] = new]]
  BY <1>2, Zenon DEF vmm_copy_kernel_mappings
<1>4. /\ new \in [UserPdes \cup KernelPdes -> Nat]
      /\ \A i \in UserPdes : new[i] = m.dirs[d][i]
      /\ \A i \in KernelPdes : new[i] = m.dirs[c][i]
  BY <1>2, UserKernelApart, Zenon
<1> HIDE DEF new
<1>5. /\ MemType(m2) /\ m2.regions = m.regions /\ m2.tables = m.tables /\ m2.heap = m.heap
      /\ m2.transient = m.transient /\ m2.dirs = [m.dirs EXCEPT ![d] = new]
  BY <1>1, <1>3, Zenon DEF MemType
<1>6. /\ DOMAIN m2.dirs = DOMAIN m.dirs /\ m2.dirs[d] = new
      /\ \A e \in DOMAIN m.dirs : e # d => m2.dirs[e] = m.dirs[e]
  BY <1>5, Zenon
<1>7. TablesOk(m2.dirs, m2.tables)
  BY <1>1, <1>4, <1>5, <1>6, Zenon DEF TablesOk
<1>8. \A e \in DOMAIN m.dirs : \A i \in UserPdes : m2.dirs[e][i] = m.dirs[e][i]
  BY <1>4, <1>6, Zenon
<1>9. ASSUME NEW e \in DOMAIN m.dirs, NEW i \in KernelPdes
      PROVE  m2.dirs[e][i] = IF e \in Without(N, d) THEN 0 ELSE KernelEntry(i)
  <2>1. m.dirs[e][i] = (IF e \in N THEN 0 ELSE KernelEntry(i)) /\ m.dirs[c][i] = KernelEntry(i)
    BY <1>1, Zenon DEF DirsOk
  <2> QED
    BY <1>4, <1>6, <2>1, Zenon DEF Without
<1>10. DirsOk(m2.dirs, m2.tables, Without(N, d), C)
  <2>1. \A e \in DOMAIN m.dirs : \A i \in UserPdes : m.dirs[e][i] # 0 => m.dirs[e][i] \in UserTabs(m.tables) \ C
    BY <1>1, Zenon DEF DirsOk
  <2>3. /\ C \subseteq UserTabs(m.tables)
        /\ \A t \in UserTabs(m.tables) \ C : \E e \in DOMAIN m.dirs : \E i \in UserPdes : m.dirs[e][i] = t
    BY <1>1, Zenon DEF DirsOk
  <2>4. \A e \in DOMAIN m2.dirs : \A i \in UserPdes : m2.dirs[e][i] # 0 => m2.dirs[e][i] \in UserTabs(m2.tables) \ C
    BY <1>5, <1>6, <1>8, <2>1
  <2>5. \A e, f \in DOMAIN m2.dirs : \A i, j \in UserPdes :
            m2.dirs[e][i] = m2.dirs[f][j] /\ m2.dirs[e][i] # 0 => e = f /\ i = j
    <3> SUFFICES ASSUME NEW e \in DOMAIN m.dirs, NEW f \in DOMAIN m.dirs, NEW i \in UserPdes, NEW j \in UserPdes,
                        m2.dirs[e][i] = m2.dirs[f][j], m2.dirs[e][i] # 0
                 PROVE  e = f /\ i = j
      BY <1>6
    <3>1. m2.dirs[e][i] = m.dirs[e][i] /\ m2.dirs[f][j] = m.dirs[f][j]
      BY <1>8, Zenon
    <3> QED
      BY <1>1, <3>1, DirsOnce
  <2>6. ASSUME NEW t \in UserTabs(m2.tables) \ C
        PROVE  \E e \in DOMAIN m2.dirs : \E i \in UserPdes : m2.dirs[e][i] = t
    <3>1. PICK e \in DOMAIN m.dirs, i \in UserPdes : m.dirs[e][i] = t
      BY <1>5, <2>3, Zenon
    <3> QED
      BY <1>6, <1>8, <3>1, Zenon
  <2>7. C \subseteq UserTabs(m2.tables)
    BY <1>5, <2>3, Zenon
  <2>8. \A e \in DOMAIN m2.dirs : \A i \in KernelPdes :
            m2.dirs[e][i] = IF e \in Without(N, d) THEN 0 ELSE KernelEntry(i)
    BY <1>6, <1>9, Zenon
  <2> QED
    BY <2>4, <2>5, <2>6, <2>7, <2>8, Zenon DEF DirsOk
<1>11. HeapOk(m2.dirs, m2.tables, m2.heap, m2.transient, E)
  BY <1>1, <1>5, <1>6, HeapSame, Zenon
<1>12. Good(m2, Without(N, d), C, H, E)
  BY <1>1, <1>5, <1>7, <1>10, <1>11, Zenon DEF Good
<1> QED
  BY <1>5, <1>6, <1>8, <1>12, Zenon DEF SameUserAll, SameUser

LEMMA LayoutFacts ==
    /\ Dir(KERNEL_STACK) \in UserPdes /\ Dir(USER_STACK) \in UserPdes
    /\ KERNEL_STACK \in Nat /\ USER_STACK \in Nat /\ USER_STACK # KERNEL_STACK
    /\ USER_PDE_END \in UserPdes /\ ResetPdes \subseteq UserPdes /\ USER_PDE_END \notin ResetPdes
    /\ Dir(KERNEL_STACK) = USER_PDE_END /\ Dir(USER_STACK) = USER_PDE_END
BY LayoutAssumption, VmmAssumption DEF UserPdes, ResetPdes

LEMMA LowPageFacts ==
    ASSUME NEW p \in LowPages
    PROVE  p \in Nat /\ Dir(p) \in ResetPdes /\ Dir(p) \in UserPdes
<1>1. p \in Nat /\ p < USER_PDE_END * TableSize
  BY VmmAssumption DEF LowPages
<1>2. Dir(p) \in Nat /\ Dir(p) < USER_PDE_END
  BY <1>1, DirBound, PageFacts, VmmAssumption, Zenon
<1> QED
  BY <1>1, <1>2, VmmAssumption DEF ResetPdes, UserPdes

LEMMA PhaseSame ==
    ASSUME NEW m, NEW other, NEW t, SameUser(m, other, t.dir), NEW op, PhaseAt(m, t, op)
    PROVE  PhaseAt(other, t, op)
<1>1. Stacked(other, t.dir) <=> Stacked(m, t.dir)
  BY SameUserView, LayoutFacts DEF Stacked
<1>2. NoUserStack(other, t.dir) <=> NoUserStack(m, t.dir)
  BY SameUserView, LayoutFacts, Zenon DEF NoUserStack
<1>3. EmptyBelow(other, t.dir) <=> EmptyBelow(m, t.dir)
  BY LayoutFacts, Zenon DEF EmptyBelow, SameUser
<1>4. Loaded(other, t.dir, t.load) <=> Loaded(m, t.dir, t.load)
  BY SameUserView, LowPageFacts DEF Loaded
<1> QED
  BY <1>1, <1>2, <1>3, <1>4, Zenon DEF PhaseAt

LEMMA PhaseOtherOp ==
    ASSUME NEW m, NEW t, NEW op, NEW op2, op \notin ExecOps, op2 \notin ExecOps, PhaseAt(m, t, op)
    PROVE  PhaseAt(m, t, op2)
BY Zenon DEF PhaseAt, ExecOps

LEMMA BootSame ==
    ASSUME NEW m, NEW other, SameUser(m, other, 0), NEW op, BootAt(m, op)
    PROVE  BootAt(other, op)
<1>1. Stacked(other, 0) <=> Stacked(m, 0)
  BY SameUserView, LayoutFacts DEF Stacked
<1>2. NoUserStack(other, 0) <=> NoUserStack(m, 0)
  BY SameUserView, LayoutFacts, Zenon DEF NoUserStack
<1>3. EmptyBelow(other, 0) <=> EmptyBelow(m, 0)
  BY LayoutFacts, Zenon DEF EmptyBelow, SameUser
<1>4. other.dirs[0][USER_PDE_END] = m.dirs[0][USER_PDE_END]
  BY LayoutFacts, Zenon DEF SameUser
<1> QED
  BY <1>1, <1>2, <1>3, <1>4, Zenon DEF BootAt

-----------------------------------------------------------------------------
(* The running task. *)

LEMMA OpFacts ==
    /\ ExecOps \cap CloneOps = {} /\ TableOps \subseteq CloneOps /\ PageOps \subseteq TableOps
    /\ "clone" \notin TableOps /\ "clone" \in CloneOps /\ "clone_pte" \notin PageOps /\ "clone_pte" \in TableOps
    /\ "clone_dst" \in PageOps /\ "clone_copy" \in PageOps /\ "clone_dst" # "clone_copy"
    /\ "none" \notin CloneOps \cup ExecOps /\ "boot" \notin CloneOps \cup ExecOps
    /\ "mmap" \notin CloneOps \cup ExecOps /\ "collect" \notin CloneOps \cup ExecOps
    /\ "reset" \in ExecOps /\ "load" \in ExecOps
BY Zenon DEF ExecOps, CloneOps, TableOps, PageOps

LEMMA MyDirFacts ==
    ASSUME RunningOk
    PROVE  /\ MyDir \in DOMAIN mem.dirs /\ MyDir \notin NewDirs /\ 0 \in DOMAIN mem.dirs /\ 0 \notin NewDirs
           /\ current = -1 => MyDir = 0
           /\ current # -1 => /\ current \in DOMAIN task /\ MyDir = task[current].dir /\ Stacked(mem, MyDir)
                              /\ MyDir # 0
<1>1. 0 \in DOMAIN mem.dirs
  BY Zenon DEF RunningOk, MemOk, Good, TablesOk
<1>2. 0 \notin NewDirs
  BY Zenon DEF RunningOk, OpOk, CloneAt, NewDirs
<1>3. CASE current = -1
  <2>1. current \notin DOMAIN task
    BY <1>3 DEF RunningOk, TypesOk
  <2> QED
    BY <1>1, <1>2, <1>3, <2>1, Zenon DEF MyDir
<1>4. CASE current # -1
  <2>1. current \in DOMAIN task /\ task[current].phase # "exited"
    BY <1>4, Zenon DEF RunningOk, CurrentOk
  <2>2. PhaseAt(mem, task[current], OpOf(current))
    BY <2>1, Zenon DEF RunningOk, PhasesOk
  <2>3. Stacked(mem, task[current].dir)
    BY <2>1, <2>2, Zenon DEF PhaseAt
  <2>4. task[current].dir \in DOMAIN mem.dirs /\ task[current].dir # 0 /\ task[current].dir \notin NewDirs
    BY <2>1, Zenon DEF RunningOk, TasksOk, TasksAt
  <2> QED
    BY <1>1, <1>2, <1>4, <2>1, <2>3, <2>4, Zenon DEF MyDir
<1> QED
  BY <1>3, <1>4, Zenon

LEMMA StackedHalt ==
    ASSUME NEW m, NEW d, Stacked(m, d), NEW other, SameUser(m, other, d)
    PROVE  Stacked(other, d)
BY SameUserView, LayoutFacts DEF Stacked

(* A step that stops the machine. *)
LEMMA HaltStep ==
    ASSUME RunningOk, task' = task, current' = current, HaltCause(halted', mem'), SameUser(mem, mem', MyDir)
    PROVE  MemoryInv'
<1>1. HaltsOnlyOutOfMemory'
  BY Zenon DEF HaltCause, HaltsOnlyOutOfMemory
<1>2. MyDir' = MyDir
  BY Zenon DEF MyDir
<1>3. ASSUME current' # -1 PROVE Stacked(mem', MyDir')
  BY <1>2, <1>3, MyDirFacts, StackedHalt, Zenon
<1>4. KernelStackMapped'
  BY <1>3, Zenon DEF KernelStackMapped, Stacked
<1>5. halted' # "no"
  BY Zenon DEF HaltCause
<1> QED
  BY <1>1, <1>4, <1>5, Zenon DEF MemoryInv

LEMMA AllocHalt ==
    ASSUME NEW m, NEW a, AllocFails(m.regions, a)
    PROVE  HaltCause(NoFrame(a), m) /\ ~GotFrame(a)
BY Zenon DEF AllocFails, HaltCause, NoFrame, GotFrame

LEMMA SameUserSelf ==
    ASSUME NEW m, NEW d
    PROVE  SameUser(m, m, d)
BY Zenon DEF SameUser

(* Between handlers, and in most of them, nothing is in hand but what tasks hold. *)
LEMMA PlainHand ==
    ASSUME RunningOk, k.op \notin CloneOps
    PROVE  /\ NewDirs = {} /\ NewTables = {} /\ InHand = HeldFrames /\ k.frame = 0
           /\ Good(mem, {}, {}, HeldFrames, {}) /\ DOMAIN mem.transient = {}
<1>1. k.op \notin TableOps /\ k.op \notin PageOps /\ k.op # "clone_copy"
  BY OpFacts, Zenon
<1>2. k.frame = 0
  BY <1>1, Zenon DEF RunningOk, TypesOk
<1>3. NewDirs = {} /\ NewTables = {} /\ Shown = {} /\ InHand = HeldFrames
  BY <1>1, <1>2, Zenon DEF NewDirs, NewTables, Shown, InHand
<1> QED
  BY <1>2, <1>3, Zenon DEF RunningOk, MemOk

(* Nothing is loaded where nothing is mapped. *)
LEMMA LoadStart ==
    ASSUME NEW img, ImageOk(img), NEW m, NEW d, EmptyBelow(m, d)
    PROVE  LoadOk(LoadOf(img)) /\ Loaded(m, d, LoadOf(img)) /\ LoadOf(img) \in LoadType
<1> DEFINE load == LoadOf(img)
<1>1. load.img = img /\ load.seg = 1 /\ load.page = img[1].first
  BY Zenon DEF LoadOf
<1>2. img \in Seq(SegmentType) /\ Len(img) \in Nat /\ Len(img) # 0
  BY DEF ImageOk
<1>3. 1 \in 1 .. Len(img) /\ img[1].first \in Nat /\ img[1].last \in Nat /\ img[1].first <= img[1].last
  <2>1. 1 \in 1 .. Len(img)
    BY <1>2
  <2>2. img[1] \in SegmentType
    BY <1>2, <2>1
  <2>3. img[1].first <= img[1].last
    BY <2>1, Zenon DEF ImageOk
  <2> QED
    BY <2>1, <2>2, <2>3, Zenon DEF SegmentType
<1>4. LoadOk(load)
  BY <1>1, <1>3 DEF LoadOk
<1>5. load \in LoadType
  BY <1>2, <1>3, Zenon DEF LoadType, LoadOf
<1>6. \A p : LoadFlags(load, p) = {}
  <2>1. 1 .. load.seg - 1 = {} /\ load.img[load.seg].first .. load.page - 1 = {}
    BY <1>1, <1>3
  <2> HIDE DEF load
  <2>2. \A p : DoneSegments(load, p) = {}
    BY <2>1, Zenon DEF DoneSegments
  <2> QED
    BY <2>1, <2>2, Zenon DEF LoadFlags
<1>7. \A p \in LowPages : vmm_get_flags(m, d, p) = {}
  BY LowPageFacts, Zenon DEF EmptyBelow, vmm_get_flags, Present, va_info_ex, NoEntry
<1> QED
  BY <1>4, <1>5, <1>6, <1>7, Zenon DEF Loaded

LEMMA NoLoadType == NoLoad \in LoadType
<1>1. << >> \in Seq(SegmentType) /\ 1 \in Nat /\ 0 \in Nat
  OBVIOUS
<1> QED
  BY <1>1, Zenon DEF NoLoad, LoadType
=============================================================================
