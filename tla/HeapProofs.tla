----------------------------- MODULE HeapProofs -----------------------------
(***************************************************************************)
(* Splits, merges and growth keep the kernel heap's blocks a partition of  *)
(* it, for every size of the headers, of the pages and of the requests.    *)
(***************************************************************************)
EXTENDS Heap, SequenceTheorems, FiniteSetTheorems, NaturalsInduction, TLAPS

BlockType == [addr : Nat, size : Nat, free : BOOLEAN, want : Nat]

(* A block that has room for its header and, allocated, for its data. *)
Sound(b) == b.size >= HEADER /\ (b.free \/ HoldsData(b))

(* Sound blocks that follow one another, no two of them free neighbours.   *)
(* That each lies before all of those after it follows, by an induction    *)
(* that the invariant replaces by saying so.                               *)
Tiling(s) ==
    /\ s \in Seq(BlockType) /\ s # << >>
    /\ \A i \in 1 .. Len(s) : Sound(s[i])
    /\ \A i \in 1 .. Len(s) - 1 : End(s[i]) = s[i + 1].addr /\ ~(s[i].free /\ s[i + 1].free)
    /\ \A i, j \in 1 .. Len(s) : i < j => End(s[i]) <= s[j].addr

(* The inductive invariant.  The heap ends below the range of unsigned, so *)
(* that the size of a second block is a plain difference.                  *)
HeapInv ==
    /\ request \in {<< >>} \cup (Sizes \X {CANARY, PAGE_SIZE})
    /\ frames \in Nat
    /\ heap_size \in Nat /\ heap_size < UINT /\ heap_size % PAGE_SIZE = 0
    /\ status # "short" =>
        Tiling(blocks) /\ blocks[1].addr = HEADER /\ End(blocks[Len(blocks)]) = heap_size
-----------------------------------------------------------------------------
(* Arithmetic. *)

(* ALIGN rounds up, by less than the alignment. *)
LEMMA AlignFacts ==
    ASSUME NEW n \in Nat, NEW a \in Nat \ {0}
    PROVE  ALIGN(n, a) \in Nat /\ n <= ALIGN(n, a) /\ ALIGN(n, a) < n + a
<1>1. /\ (n + a - 1) \div a \in Int
      /\ (n + a - 1) % a \in 0 .. a - 1
      /\ n + a - 1 = a * ((n + a - 1) \div a) + ((n + a - 1) % a)
  OBVIOUS
<1> QED
  BY <1>1 DEF ALIGN

LEMMA AlignPages ==
    ASSUME NEW n \in Nat, NEW a \in Nat \ {0}
    PROVE  ALIGN(n, a) \div a \in Nat /\ (ALIGN(n, a) \div a) * a = ALIGN(n, a)
  BY DEF ALIGN

LEMMA WholePages ==
    ASSUME NEW h \in Nat, NEW n \in Nat, NEW a \in Nat \ {0}, h % a = 0
    PROVE  (h + n * a) % a = 0
<1>1. \A q \in Nat : (q * a) % a = 0
  OBVIOUS
<1>2. h = (h \div a) * a /\ h \div a \in Nat
  OBVIOUS
<1>3. \E q \in Nat : h + n * a = q * a
  <2> WITNESS (h \div a) + n \in Nat
  <2> QED
    BY <1>2
<1> QED
  BY ONLY <1>1, <1>3
-----------------------------------------------------------------------------
(* Sequences of blocks. *)

LEMMA BlockFacts ==
    ASSUME NEW b \in BlockType
    PROVE  b.addr \in Nat /\ b.size \in Nat /\ b.want \in Nat /\ b.free \in BOOLEAN /\ End(b) \in Nat
  BY DEF BlockType, End

LEMMA TilingBounds ==
    ASSUME NEW s, Tiling(s)
    PROVE  /\ Len(s) \in Nat \ {0}
           /\ \A i \in 1 .. Len(s) : s[i] \in BlockType
           /\ \A i \in 1 .. Len(s) : End(s[i]) <= End(s[Len(s)]) /\ s[1].addr <= s[i].addr
<1>1. /\ Len(s) \in Nat \ {0}
      /\ \A i \in 1 .. Len(s) : s[i] \in BlockType
  BY EmptySeq, ElementOfSeq DEF Tiling
<1>2. \A i \in 1 .. Len(s) : s[i].addr <= End(s[i])
  BY <1>1 DEF End, BlockType
<1>3. \A i \in 1 .. Len(s) : End(s[i]) \in Nat /\ s[i].addr \in Nat
  BY <1>1 DEF End, BlockType
<1>4. ASSUME NEW i \in 1 .. Len(s)
      PROVE  End(s[i]) <= End(s[Len(s)]) /\ s[1].addr <= s[i].addr
  <2>1. End(s[i]) <= End(s[Len(s)])
    BY <1>1, <1>2, <1>3 DEF Tiling
  <2>2. s[1].addr <= s[i].addr
    BY <1>1, <1>2, <1>3 DEF Tiling
  <2> QED
    BY <2>1, <2>2
<1> QED
  BY <1>1, <1>4

(* Two tilings one after the other. *)
LEMMA TilingConcat ==
    ASSUME NEW s, NEW t, Tiling(s), Tiling(t),
           End(s[Len(s)]) = t[1].addr, ~(s[Len(s)].free /\ t[1].free)
    PROVE  /\ Tiling(s \o t)
           /\ (s \o t)[1] = s[1]
           /\ (s \o t)[Len(s \o t)] = t[Len(t)]
<1> DEFINE m == Len(s)  n == Len(t)  c == s \o t
<1>1. /\ s \in Seq(BlockType) /\ m \in Nat \ {0} /\ \A i \in 1 .. m : s[i] \in BlockType
      /\ t \in Seq(BlockType) /\ n \in Nat \ {0} /\ \A i \in 1 .. n : t[i] \in BlockType
  BY TilingBounds DEF Tiling
<1>2. /\ c \in Seq(BlockType)
      /\ Len(c) = m + n
      /\ \A i \in 1 .. m : c[i] = s[i]
      /\ \A i \in m + 1 .. m + n : c[i] = t[i - m]
  BY <1>1, ConcatProperties
<1> HIDE DEF m, n, c
<1>3. c # << >>
  BY <1>1, <1>2, EmptySeq
<1>4. ASSUME NEW i \in 1 .. Len(c)
      PROVE  Sound(c[i])
  <2>1. CASE i <= m
    BY <1>1, <1>2, <2>1 DEF Tiling, m
  <2>2. CASE i > m
    <3>1. i - m \in 1 .. n /\ c[i] = t[i - m]
      BY <1>1, <1>2, <2>2
    <3> QED
      BY <3>1 DEF Tiling, n
  <2> QED
    BY <1>1, <1>2, <2>1, <2>2
<1>5. ASSUME NEW i \in 1 .. Len(c) - 1
      PROVE  End(c[i]) = c[i + 1].addr /\ ~(c[i].free /\ c[i + 1].free)
  <2>1. CASE i < m
    <3>1. i \in 1 .. m - 1 /\ c[i] = s[i] /\ c[i + 1] = s[i + 1]
      BY <1>1, <1>2, <2>1
    <3> QED
      BY <3>1 DEF Tiling, m
  <2>2. CASE i = m
    <3>1. c[i] = s[m] /\ c[i + 1] = t[1]
      BY <1>1, <1>2, <2>2
    <3> QED
      BY <3>1 DEF m
  <2>3. CASE i > m
    <3>1. /\ i - m \in 1 .. n - 1
          /\ i \in m + 1 .. m + n /\ i + 1 \in m + 1 .. m + n /\ (i + 1) - m = (i - m) + 1
      BY <1>1, <1>2, <2>3, SMTT(20)
    <3>2. c[i] = t[i - m] /\ c[i + 1] = t[(i - m) + 1]
      BY <1>2, <3>1
    <3> QED
      BY <3>1, <3>2 DEF Tiling, n
  <2> QED
    BY <1>1, <1>2, <2>1, <2>2, <2>3
<1>6. ASSUME NEW i \in 1 .. Len(c), NEW j \in 1 .. Len(c), i < j
      PROVE  End(c[i]) <= c[j].addr
  <2>1. CASE j <= m
    <3>1. i \in 1 .. m /\ j \in 1 .. m /\ c[i] = s[i] /\ c[j] = s[j]
      BY <1>1, <1>2, <1>6, <2>1
    <3> QED
      BY <1>6, <3>1 DEF Tiling, m
  <2>2. CASE i <= m /\ j > m
    <3>1. i \in 1 .. m /\ c[i] = s[i] /\ j - m \in 1 .. n /\ c[j] = t[j - m]
      BY <1>1, <1>2, <2>2
    <3>2. End(s[i]) <= End(s[m]) /\ t[1].addr <= t[j - m].addr /\ End(s[m]) = t[1].addr
      BY <3>1, TilingBounds DEF m, n
    <3>3. s[i] \in BlockType /\ t[1] \in BlockType /\ t[j - m] \in BlockType
      BY <1>1, <3>1
    <3>4. End(s[i]) \in Nat /\ t[1].addr \in Nat /\ t[j - m].addr \in Nat
      BY <3>3, BlockFacts
    <3> QED
      BY <3>1, <3>2, <3>4
  <2>3. CASE i > m
    <3>1. /\ i - m \in 1 .. n /\ c[i] = t[i - m]
          /\ j - m \in 1 .. n /\ c[j] = t[j - m]
          /\ i - m < j - m
      BY <1>1, <1>2, <1>6, <2>3
    <3> QED
      BY <3>1 DEF Tiling, n
  <2> QED
    BY <1>1, <1>2, <2>1, <2>2, <2>3
<1>7. Tiling(c)
  BY <1>2, <1>3, <1>4, <1>5, <1>6 DEF Tiling
<1>8. c[1] = s[1] /\ c[Len(c)] = t[n]
  BY <1>1, <1>2
<1> QED
  BY <1>7, <1>8 DEF c, n

(* A part of a tiling. *)
LEMMA TilingPart ==
    ASSUME NEW s, Tiling(s), NEW i \in 1 .. Len(s), NEW j \in i .. Len(s)
    PROVE  /\ Tiling(SubSeq(s, i, j))
           /\ SubSeq(s, i, j)[1] = s[i]
           /\ SubSeq(s, i, j)[Len(SubSeq(s, i, j))] = s[j]
<1> DEFINE p == SubSeq(s, i, j)  n == j - i + 1
<1>1. Len(s) \in Nat \ {0} /\ \A x \in 1 .. Len(s) : s[x] \in BlockType
  BY TilingBounds
<1>2. n \in Nat \ {0} /\ i \in Nat /\ \A x \in 1 .. n : i + x - 1 \in 1 .. Len(s)
  BY <1>1
<1>3. p \in Seq(BlockType) /\ Len(p) = n /\ \A x \in 1 .. n : p[x] = s[i + x - 1]
  BY <1>1, SubSeqProperties
<1> HIDE DEF p, n
<1>4. p # << >>
  BY <1>2, <1>3, EmptySeq
<1>5. \A x \in 1 .. n : Sound(p[x])
  BY <1>2, <1>3 DEF Tiling
<1>6. ASSUME NEW x \in 1 .. n - 1
      PROVE  End(p[x]) = p[x + 1].addr /\ ~(p[x].free /\ p[x + 1].free)
  <2>1. x \in 1 .. n /\ x + 1 \in 1 .. n /\ i + (x + 1) - 1 = (i + x - 1) + 1
    BY <1>2
  <2>2. i + x - 1 \in 1 .. Len(s) - 1
    BY <1>1, <1>2, <2>1
  <2>3. p[x] = s[i + x - 1] /\ p[x + 1] = s[(i + x - 1) + 1]
    BY <1>3, <2>1
  <2> QED
    BY <2>2, <2>3 DEF Tiling
<1>7. ASSUME NEW x \in 1 .. n, NEW y \in 1 .. n, x < y
      PROVE  End(p[x]) <= p[y].addr
  <2>1. i + x - 1 < i + y - 1
    BY <1>2, <1>7
  <2> QED
    BY <1>2, <1>3, <2>1, Zenon DEF Tiling
<1>8. Tiling(p)
  BY <1>3, <1>4, <1>5, <1>6, <1>7 DEF Tiling
<1>9. i + 1 - 1 = i /\ i + n - 1 = j /\ 1 \in 1 .. n /\ n \in 1 .. n
  BY <1>2 DEF n
<1> QED
  BY <1>3, <1>8, <1>9 DEF p

(* What replaces the blocks from i to j has their place, and no free end   *)
(* next to a free block.                                                   *)
Replaces(i, j, new) ==
    /\ Tiling(new)
    /\ new[1].addr = blocks[i].addr /\ End(new[Len(new)]) = End(blocks[j])
    /\ i > 1 => ~(blocks[i - 1].free /\ new[1].free)
    /\ j < Len(blocks) => ~(new[Len(new)].free /\ blocks[j + 1].free)

LEMMA TilingSplice ==
    ASSUME Tiling(blocks), NEW i \in 1 .. Len(blocks), NEW j \in i .. Len(blocks),
           NEW new, Replaces(i, j, new)
    PROVE  /\ Tiling(Splice(i, j, new))
           /\ Splice(i, j, new)[1].addr = blocks[1].addr
           /\ End(Splice(i, j, new)[Len(Splice(i, j, new))]) = End(blocks[Len(blocks)])
<1> DEFINE n == Len(blocks)
           before == SubSeq(blocks, 1, i - 1)
           after == SubSeq(blocks, j + 1, n)
           left == before \o new
<1>1. /\ n \in Nat \ {0} /\ i \in 1 .. n /\ j \in i .. n
      /\ blocks \in Seq(BlockType) /\ new \in Seq(BlockType)
  BY TilingBounds DEF Tiling, Replaces
<1>2. /\ Tiling(left)
      /\ left[1].addr = blocks[1].addr
      /\ left[Len(left)] = new[Len(new)]
  <2>1. CASE i = 1
    <3>1. left = new
      BY <1>1, <2>1, SubSeqEmpty, ConcatEmptySeq
    <3> QED
      BY <2>1, <3>1, Zenon DEF Replaces
  <2>2. CASE i > 1
    <3>1. 1 \in 1 .. n /\ i - 1 \in 1 .. n /\ i - 1 \in 1 .. n - 1 /\ (i - 1) + 1 = i
      BY <1>1, <2>2
    <3>2. Tiling(before) /\ before[1] = blocks[1] /\ before[Len(before)] = blocks[i - 1]
      BY <3>1, TilingPart
    <3>3. End(blocks[i - 1]) = blocks[i].addr
      BY <3>1 DEF Tiling
    <3>4. Tiling(new) /\ End(before[Len(before)]) = new[1].addr /\ ~(before[Len(before)].free /\ new[1].free)
      BY <2>2, <3>2, <3>3 DEF Replaces
    <3>5. /\ Tiling(before \o new)
          /\ (before \o new)[1] = before[1]
          /\ (before \o new)[Len(before \o new)] = new[Len(new)]
      <4> HIDE DEF before
      <4> QED
        BY <3>2, <3>4, TilingConcat, Zenon
    <3> QED
      BY <3>2, <3>5, Zenon
  <2>3. i = 1 \/ i > 1
    BY <1>1
  <2> QED
    BY <2>1, <2>2, <2>3, Zenon
<1>3. Splice(i, j, new) = left \o after
  BY DEF Splice
<1> HIDE DEF left
<1>4. CASE j = n
  <2>1. left \o after = left
    BY <1>1, <1>2, <1>4, SubSeqEmpty, ConcatEmptySeq DEF Tiling
  <2> QED
    BY <1>2, <1>3, <1>4, <2>1, Zenon DEF Replaces
<1>5. CASE j < n
  <2>1. j + 1 \in 1 .. n /\ n \in j + 1 .. n /\ j \in 1 .. n - 1
    BY <1>1, <1>5
  <2>2. Tiling(after) /\ after[1] = blocks[j + 1] /\ after[Len(after)] = blocks[n]
    BY <2>1, TilingPart
  <2>3. End(blocks[j]) = blocks[j + 1].addr
    BY <2>1 DEF Tiling
  <2>4. End(left[Len(left)]) = after[1].addr /\ ~(left[Len(left)].free /\ after[1].free)
    BY <1>2, <1>5, <2>2, <2>3 DEF Replaces
  <2>5. /\ Tiling(left \o after)
        /\ (left \o after)[1] = left[1]
        /\ (left \o after)[Len(left \o after)] = after[Len(after)]
    BY <1>2, <2>2, <2>4, TilingConcat, Zenon
  <2> QED
    BY <1>2, <1>3, <2>2, <2>5, Zenon
<1> QED
  BY <1>1, <1>4, <1>5
-----------------------------------------------------------------------------
(* What an allocation puts in the place of a free block. *)

LEMMA TilingOne ==
    ASSUME NEW b \in BlockType, Sound(b)
    PROVE  Tiling(<<b>>) /\ Len(<<b>>) = 1 /\ <<b>>[1] = b
  BY DEF Tiling

LEMMA TilingTwo ==
    ASSUME NEW b \in BlockType, Sound(b), NEW c \in BlockType, Sound(c),
           End(b) = c.addr, ~(b.free /\ c.free)
    PROVE  Tiling(<<b, c>>) /\ Len(<<b, c>>) = 2 /\ <<b, c>>[1] = b /\ <<b, c>>[2] = c
<1> DEFINE s == <<b, c>>
<1>1. s \in Seq(BlockType) /\ s # << >> /\ Len(s) = 2 /\ s[1] = b /\ s[2] = c
  OBVIOUS
<1> HIDE DEF s
<1>2. \A i \in 1 .. 2 : i = 1 \/ i = 2
  OBVIOUS
<1>3. \A i \in 1 .. Len(s) : Sound(s[i])
  BY <1>1, <1>2
<1>4. \A i \in 1 .. Len(s) - 1 : End(s[i]) = s[i + 1].addr /\ ~(s[i].free /\ s[i + 1].free)
  BY <1>1
<1>5. c.addr \in Nat
  BY DEF BlockType
<1>6. \A i, j \in 1 .. Len(s) : i < j => End(s[i]) <= s[j].addr
  BY <1>1, <1>2, <1>5
<1> QED
  BY <1>1, <1>3, <1>4, <1>6 DEF Tiling, s

LEMMA TilingThree ==
    ASSUME NEW b \in BlockType, Sound(b), NEW c \in BlockType, Sound(c), NEW d \in BlockType, Sound(d),
           End(b) = c.addr, ~(b.free /\ c.free), End(c) = d.addr, ~(c.free /\ d.free)
    PROVE  Tiling(<<b, c, d>>) /\ Len(<<b, c, d>>) = 3 /\ <<b, c, d>>[1] = b /\ <<b, c, d>>[3] = d
<1> DEFINE s == <<b, c, d>>
<1>1. s \in Seq(BlockType) /\ s # << >> /\ Len(s) = 3 /\ s[1] = b /\ s[2] = c /\ s[3] = d
  OBVIOUS
<1> HIDE DEF s
<1>2. /\ b.addr \in Nat /\ End(b) \in Nat /\ c.addr \in Nat /\ End(c) \in Nat /\ d.addr \in Nat
      /\ c.addr <= End(c)
  BY DEF End, BlockType
<1>3. \A i \in 1 .. 3 : i = 1 \/ i = 2 \/ i = 3
  OBVIOUS
<1>4. \A i \in 1 .. 3 - 1 : i = 1 \/ i = 2
  OBVIOUS
<1>5. \A i \in 1 .. Len(s) : Sound(s[i])
  BY <1>1, <1>3
<1>6. \A i \in 1 .. Len(s) - 1 : End(s[i]) = s[i + 1].addr /\ ~(s[i].free /\ s[i + 1].free)
  BY <1>1, <1>4
<1>7. \A i, j \in 1 .. Len(s) : i < j => End(s[i]) <= s[j].addr
  BY <1>1, <1>2, <1>3
<1> QED
  BY <1>1, <1>5, <1>6, <1>7 DEF Tiling, s

(* The neighbours of a free block are allocated. *)
LEMMA FreeNeighbours ==
    ASSUME Tiling(blocks), NEW i \in 1 .. Len(blocks), blocks[i].free
    PROVE  /\ i > 1 => ~blocks[i - 1].free
           /\ i < Len(blocks) => ~blocks[i + 1].free
<1>1. Len(blocks) \in Nat \ {0}
  BY TilingBounds
<1>2. i > 1 => i - 1 \in 1 .. Len(blocks) - 1 /\ (i - 1) + 1 = i
  BY <1>1
<1>3. i < Len(blocks) => i \in 1 .. Len(blocks) - 1
  BY <1>1
<1> QED
  BY <1>2, <1>3 DEF Tiling

LEMMA TakeAlignedTiles ==
    ASSUME NEW b \in BlockType, NEW want \in Nat, NEW size \in Nat, size = want + CANARY,
           b.size - HEADER >= size
    PROVE  LET new == TakeAligned(b, size, want)
           IN  Tiling(new) /\ new[1].addr = b.addr /\ End(new[Len(new)]) = End(b) /\ ~new[1].free
<1> DEFINE x == [b EXCEPT !.size = HEADER + size, !.free = FALSE, !.want = want]
           y == Block(b.addr + HEADER + size, b.size - HEADER - size)
           z == [b EXCEPT !.free = FALSE, !.want = want]
<1> USE HeapAssumption
<1>1. CASE b.size - HEADER - size > HEADER
  <2>1. TakeAligned(b, size, want) = <<x, y>>
    BY <1>1 DEF TakeAligned
  <2>2. x \in BlockType /\ y \in BlockType
    <3>1. /\ b.addr + HEADER + size \in Nat /\ b.size - HEADER - size \in Nat
          /\ HEADER + size \in Nat
      BY <1>1 DEF BlockType
    <3> QED
      BY <3>1, Zenon DEF BlockType, Block
  <2>3. Sound(x) /\ Sound(y) /\ End(x) = y.addr /\ ~x.free /\ x.addr = b.addr /\ End(y) = End(b)
    BY <1>1 DEF BlockType, Block, Sound, HoldsData, End
  <2> HIDE DEF x, y
  <2>4. Tiling(<<x, y>>) /\ Len(<<x, y>>) = 2 /\ <<x, y>>[1] = x /\ <<x, y>>[2] = y
    BY <2>2, <2>3, TilingTwo
  <2> QED
    BY <2>1, <2>3, <2>4
<1>2. CASE ~(b.size - HEADER - size > HEADER)
  <2>1. TakeAligned(b, size, want) = <<z>>
    BY <1>2 DEF TakeAligned
  <2>2. z \in BlockType
    BY Zenon DEF BlockType
  <2>3. Sound(z) /\ ~z.free /\ z.addr = b.addr /\ End(z) = End(b)
    BY DEF BlockType, Sound, HoldsData, End
  <2> HIDE DEF z
  <2> QED
    BY <2>1, <2>2, <2>3, TilingOne
<1> QED
  BY <1>1, <1>2

(* When the data stays inside the block that is cut, so does the second    *)
(* block, and its size did not wrap around.                                *)
LEMMA TakeUnalignedTiles ==
    ASSUME NEW b \in BlockType, NEW want \in Nat, NEW size \in Nat, size = want + CANARY,
           NEW alignment \in Nat \ {0}, b.free, End(b) < UINT,
           StaysInside(b, TakenBlock(TakeUnaligned(b, size, want, alignment)))
    PROVE  LET new == TakeUnaligned(b, size, want, alignment)
           IN  Tiling(new) /\ new[1].addr = b.addr /\ End(new[Len(new)]) = End(b)
<1> DEFINE header1 == AlignedData(b, alignment) - HEADER
           h == [b EXCEPT !.size = header1 - b.addr]
           size2 == (b.size - h.size) % UINT
           h2 == [addr |-> header1, size |-> size2, free |-> FALSE, want |-> want]
           x == [h2 EXCEPT !.size = size + HEADER]
           y == Block(header1 + HEADER + size, size2 - size - HEADER)
           new == TakeUnaligned(b, size, want, alignment)
<1> USE HeapAssumption
<1>1. b.addr \in Nat /\ b.size \in Nat /\ End(b) = b.addr + b.size
  BY DEF BlockType, End
<1>2. header1 \in Nat /\ b.addr + HEADER <= header1
  <2>1. b.addr + HEADER + HEADER \in Nat
    BY <1>1
  <2>2. /\ AlignedData(b, alignment) \in Nat
        /\ b.addr + HEADER + HEADER <= AlignedData(b, alignment)
    BY <2>1, AlignFacts, Zenon DEF AlignedData
  <2> QED
    BY <1>1, <2>2
<1>3. h \in BlockType /\ Sound(h) /\ h.free /\ h.addr = b.addr /\ End(h) = header1 /\ h.size = header1 - b.addr
  <2> HIDE DEF header1
  <2>1. header1 - b.addr \in Nat
    BY <1>1, <1>2
  <2> QED
    BY <1>1, <1>2, <2>1 DEF BlockType, Sound, End
<1>4. size2 \in Nat
  <2> HIDE DEF header1
  <2> QED
    BY <1>1, <1>2, <1>3
<1>5. h2 \in BlockType /\ h2.addr = header1 /\ h2.size = size2 /\ h2.want = want /\ ~h2.free
  <2> HIDE DEF header1, size2
  <2> QED
    BY <1>2, <1>4 DEF BlockType
<1>6. CASE size2 > size + 2 * HEADER
  <2>0. x \in BlockType /\ x.addr = header1 /\ x.size = size + HEADER /\ x.want = want /\ ~x.free
    <3> HIDE DEF h2
    <3> QED
      BY <1>5 DEF BlockType
  <2>1. new = <<h, x, y>>
    BY <1>6, Zenon DEF TakeUnaligned
  <2> HIDE DEF new
  <2>2. TakenBlock(new) = x
    <3> HIDE DEF header1, size2
    <3>2. h.free /\ ~x.free /\ y.free
      BY <1>3, <2>0 DEF Block
    <3> HIDE DEF h, x, y
    <3>3. DOMAIN new = 1 .. 3 /\ new[1] = h /\ new[2] = x /\ new[3] = y
      BY <2>1
    <3>4. \A i \in DOMAIN new : ~new[i].free <=> i = 2
      BY <3>2, <3>3
    <3> QED
      BY <3>3, <3>4 DEF TakenBlock
  <2>3. header1 + HEADER + size <= End(b)
    <3>1. StaysInside(b, x)
      BY <2>2 DEF new
    <3> HIDE DEF header1, x
    <3> QED
      BY <1>2, <2>0, <3>1 DEF StaysInside
  <2>4. size2 = End(b) - header1
    <3> HIDE DEF header1, h
    <3>1. b.size - h.size = End(b) - header1 /\ End(b) - header1 \in 0 .. UINT - 1
      BY <1>1, <1>2, <1>3, <2>3
    <3> QED
      BY <3>1
  <2> HIDE DEF header1, size2, h
  <2>5. x \in BlockType /\ y \in BlockType
    <3>1. header1 + HEADER + size \in Nat /\ size2 - size - HEADER \in Nat
      BY <1>2, <1>4, <1>6
    <3> QED
      BY <2>0, <3>1 DEF BlockType, Block
  <2>6. /\ Sound(x) /\ Sound(y) /\ End(h) = x.addr /\ End(x) = y.addr
        /\ ~x.free /\ End(y) = End(b)
    <3> HIDE DEF x
    <3> QED
      BY <1>1, <1>2, <1>3, <1>4, <1>6, <2>0, <2>3, <2>4, SMTT(20) DEF Sound, HoldsData, End, Block
  <2> HIDE DEF x, y
  <2>7. Tiling(<<h, x, y>>) /\ Len(<<h, x, y>>) = 3 /\ <<h, x, y>>[1] = h /\ <<h, x, y>>[3] = y
    BY <1>3, <2>5, <2>6, TilingThree
  <2> QED
    BY <1>3, <2>1, <2>6, <2>7, Zenon DEF new
<1>7. CASE ~(size2 > size + 2 * HEADER)
  <2>1. new = <<h, h2>>
    BY <1>7, Zenon DEF TakeUnaligned
  <2> HIDE DEF new
  <2>2. TakenBlock(new) = h2
    <3> HIDE DEF header1, size2
    <3>1. h.free /\ ~h2.free
      BY <1>3, <1>5
    <3> HIDE DEF h, h2
    <3>2. DOMAIN new = 1 .. 2 /\ new[1] = h /\ new[2] = h2
      BY <2>1
    <3>3. \A i \in DOMAIN new : ~new[i].free <=> i = 2
      BY <3>1, <3>2
    <3> QED
      BY <3>2, <3>3 DEF TakenBlock
  <2>3. header1 + HEADER + size <= End(b)
    <3>1. StaysInside(b, h2)
      BY <2>2, SMTT(20) DEF new
    <3> HIDE DEF header1, h2
    <3> QED
      BY <1>2, <1>5, <3>1 DEF StaysInside
  <2>4. size2 = End(b) - header1
    <3> HIDE DEF header1, h
    <3>1. b.size - h.size = End(b) - header1 /\ End(b) - header1 \in 0 .. UINT - 1
      BY <1>1, <1>2, <1>3, <2>3
    <3> QED
      BY <3>1
  <2> HIDE DEF header1, size2, h, h2
  <2>6. Sound(h2) /\ End(h) = h2.addr /\ ~h2.free /\ End(h2) = End(b)
    BY <1>1, <1>2, <1>3, <1>5, <2>3, <2>4 DEF Sound, HoldsData, End
  <2>7. Tiling(<<h, h2>>) /\ Len(<<h, h2>>) = 2 /\ <<h, h2>>[1] = h /\ <<h, h2>>[2] = h2
    BY <1>3, <1>5, <2>6, TilingTwo
  <2> QED
    BY <1>3, <2>1, <2>6, <2>7, Zenon DEF new
<1> QED
  BY <1>6, <1>7
-----------------------------------------------------------------------------
(* The steps. *)

(* A set of numbers that is not empty has a least one, which is how the    *)
(* first element that a loop stops at is named.                            *)
LEMMA LeastExists ==
    ASSUME NEW n \in Nat, NEW S \in SUBSET (0 .. n), S # {}
    PROVE  \E i \in S : \A j \in S : i <= j
<1> DEFINE R == OpToRel(<, Nat)
<1>1. IsWellFoundedOn(R, Nat)
  BY NatLessThanWellFounded, Zenon
<1>2. \A x, y \in Nat : y < x => <<y, x>> \in R
  BY DEF OpToRel
<1> HIDE DEF R
<1>0. S \subseteq Nat
  OBVIOUS
<1>3. PICK x \in S : \A y \in S : ~(<<y, x>> \in R)
  BY <1>0, <1>1, WFMin
<1>4. ASSUME NEW y \in S
      PROVE  x <= y
  <2>1. x \in Nat /\ y \in Nat /\ ~(y < x)
    BY <1>0, <1>2, <1>3
  <2> QED
    BY <2>1
<1> QED
  BY <1>4

(* The walk stops at a free block that is large enough. *)
LEMMA FoundFits ==
    ASSUME Tiling(blocks), NEW size, NEW alignment, FirstFit(size, alignment) # 0
    PROVE  /\ FirstFit(size, alignment) \in 1 .. Len(blocks)
           /\ Fits(blocks[FirstFit(size, alignment)], size, alignment)
<1> DEFINE fit == {i \in 1 .. Len(blocks) : Fits(blocks[i], size, alignment)}
<1>1. Len(blocks) \in Nat
  BY TilingBounds
<1>2. fit # {} /\ FirstFit(size, alignment) = CHOOSE i \in fit : \A j \in fit : i <= j
  BY DEF FirstFit
<1>3. fit \in SUBSET (0 .. Len(blocks))
  BY <1>1
<1>4. \E i \in fit : \A j \in fit : i <= j
  <2> HIDE DEF fit
  <2> QED
    BY <1>1, <1>2, <1>3, LeastExists, Zenon
<1>5. FirstFit(size, alignment) \in fit
  <2> HIDE DEF fit
  <2> QED
    BY <1>2, <1>4
<1> QED
  BY <1>5

LEMMA AllocKeepsInv ==
    ASSUME HeapInv, heap_alloc_block_aligned
    PROVE  HeapInv'
<1> DEFINE want == request[1]  size == request[1] + CANARY  alignment == request[2]
           b == blocks[Found]
           new == Take(b, size, want, alignment)
<1> USE HeapAssumption
<1>1. /\ status = "ok" /\ request \in Sizes \X {CANARY, PAGE_SIZE}
      /\ Found # 0 /\ Place(Found, new)
      /\ request' = << >> /\ heap_size' = heap_size /\ frames' = frames
  BY DEF heap_alloc_block_aligned, Requested, HeapInv
<1>2. want \in Nat /\ size \in Nat /\ alignment \in Nat \ {0}
  <2>1. request[1] \in Sizes /\ request[2] \in {CANARY, PAGE_SIZE}
    BY <1>1
  <2>2. request[1] \in Nat /\ request[2] \in Nat \ {0}
    BY <2>1, Zenon
  <2> QED
    BY <2>2
<1>3. Tiling(blocks) /\ blocks[1].addr = HEADER /\ End(blocks[Len(blocks)]) = heap_size
  BY <1>1 DEF HeapInv
<1>4. Found \in 1 .. Len(blocks) /\ Fits(b, size, alignment)
  BY <1>1, <1>3, FoundFits DEF Found
<1>5. b \in BlockType /\ End(b) < UINT
  <2>1. b \in BlockType /\ End(b) <= heap_size
    BY <1>3, <1>4, TilingBounds
  <2>2. End(b) \in Nat
    BY <2>1, BlockFacts
  <2> QED
    BY <2>1, <2>2 DEF HeapInv
<1>6. blocks' = Splice(Found, Found, new)
  BY <1>1 DEF Place
<1>7. SUFFICES ASSUME status' # "short"
               PROVE  Replaces(Found, Found, new)
  <2>1. CASE status' = "short"
    BY <1>1, <2>1 DEF HeapInv
  <2>2. CASE status' # "short"
    <3>1. Replaces(Found, Found, new)
      BY <1>7, <2>2
    <3>2. Found \in 1 .. Len(blocks) /\ Found \in Found .. Len(blocks)
      BY <1>3, <1>4, TilingBounds
    <3> HIDE DEF new
    <3>3. /\ Tiling(blocks') /\ blocks'[1].addr = HEADER
          /\ End(blocks'[Len(blocks')]) = heap_size
      BY <1>3, <1>6, <3>1, <3>2, TilingSplice
    <3> QED
      BY <1>1, <3>3 DEF HeapInv, Tiling, Sound, HoldsData, End
  <2> QED
    BY <2>1, <2>2
<1>8. StaysInside(b, TakenBlock(new))
  BY <1>1, <1>7 DEF Place
<1>9. /\ Found > 1 => ~blocks[Found - 1].free
      /\ Found < Len(blocks) => ~blocks[Found + 1].free
  BY <1>3, <1>4, FreeNeighbours DEF Fits
<1> HIDE DEF want, size, alignment, b
<1>10. Tiling(new) /\ new[1].addr = b.addr /\ End(new[Len(new)]) = End(b)
  <2>0. size = want + CANARY
    BY DEF size, want
  <2>1. CASE IsAligned(b, alignment)
    <3>1. new = TakeAligned(b, size, want)
      BY <2>1 DEF Take
    <3> QED
      BY <1>2, <1>4, <1>5, <2>0, <3>1, TakeAlignedTiles, SMTT(20) DEF Fits
  <2>2. CASE ~IsAligned(b, alignment)
    <3>1. new = TakeUnaligned(b, size, want, alignment)
      BY <2>2 DEF Take
    <3> QED
      BY <1>2, <1>4, <1>5, <1>8, <2>0, <3>1, TakeUnalignedTiles, SMTT(20) DEF Fits
  <2> QED
    BY <2>1, <2>2
<1> QED
  BY <1>9, <1>10 DEF Replaces, b

(* The pages that are added leave the heap below the range of unsigned. *)
LEMMA GrowFacts ==
    ASSUME NEW size \in Nat, heap_size \in Nat, heap_size < UINT, frames \in Nat
    PROVE  /\ GrowPages(size) \in Nat
           /\ GrowPages(size) <= frames
           /\ heap_size + GrowPages(size) * PAGE_SIZE < UINT
<1> DEFINE n == ALIGN(size, PAGE_SIZE) \div PAGE_SIZE
           more == ALIGN(MaxSize - heap_size, PAGE_SIZE) \div PAGE_SIZE
           room == IF heap_size >= MaxSize THEN 0 ELSE more
           g == GrowPages(size)
<1> USE HeapAssumption
<1>1. n \in Nat
  BY AlignPages
<1>2. room \in Nat /\ heap_size + room * PAGE_SIZE < UINT
  <2>1. CASE heap_size >= MaxSize
    BY <2>1
  <2>2. CASE ~(heap_size >= MaxSize)
    <3>1. MaxSize - heap_size \in Nat
      BY <2>2
    <3>2. /\ more \in Nat /\ more * PAGE_SIZE = ALIGN(MaxSize - heap_size, PAGE_SIZE)
          /\ ALIGN(MaxSize - heap_size, PAGE_SIZE) \in Nat
          /\ ALIGN(MaxSize - heap_size, PAGE_SIZE) < (MaxSize - heap_size) + PAGE_SIZE
      BY <3>1, AlignPages, AlignFacts
    <3> HIDE DEF more
    <3> QED
      BY <2>2, <3>2
  <2> QED
    BY <2>1, <2>2
<1>3. g = IF n < (IF room < frames THEN room ELSE frames) THEN n ELSE IF room < frames THEN room ELSE frames
  BY DEF GrowPages
<1> HIDE DEF n, room, g
<1>4. g \in Nat /\ g <= frames /\ g <= room
  BY <1>1, <1>2, <1>3
<1>5. g * PAGE_SIZE \in Nat /\ g * PAGE_SIZE <= room * PAGE_SIZE
  BY <1>2, <1>4
<1> QED
  BY <1>2, <1>4, <1>5 DEF g

LEMMA GrowKeepsInv ==
    ASSUME HeapInv, heap_grow
    PROVE  HeapInv'
<1> DEFINE n == GrowPages(request[1] + CANARY)
           last == blocks[Len(blocks)]
           fresh == Block(End(last), n * PAGE_SIZE)
           joined == [last EXCEPT !.size = @ + fresh.size]
<1> USE HeapAssumption
<1>1. status = "ok" /\ request \in Sizes \X {CANARY, PAGE_SIZE} /\ request' = request
  BY DEF heap_grow, Requested, HeapInv
<1>2. Tiling(blocks) /\ blocks[1].addr = HEADER /\ End(last) = heap_size
  BY <1>1 DEF HeapInv
<1>3. Len(blocks) \in Nat \ {0} /\ blocks \in Seq(BlockType) /\ last \in BlockType
  BY <1>2, TilingBounds DEF Tiling
<1>4. CASE n = 0
  BY <1>1, <1>2, <1>4, SMTT(20) DEF heap_grow, HeapInv, Tiling, Sound, HoldsData, End
<1>5. CASE n # 0
  <2>1. /\ n \in Nat \ {0} /\ n <= frames /\ n * PAGE_SIZE \in Nat /\ n * PAGE_SIZE >= HEADER
        /\ heap_size + n * PAGE_SIZE < UINT /\ heap_size + n * PAGE_SIZE \in Nat
        /\ (heap_size + n * PAGE_SIZE) % PAGE_SIZE = 0
    <3>1. request[1] \in Nat /\ request[1] + CANARY \in Nat
      <4>1. request[1] \in Sizes
        BY <1>1
      <4>2. request[1] \in Nat
        BY <4>1, Zenon
      <4> QED
        BY <4>2
    <3>2. n \in Nat /\ n <= frames /\ heap_size + n * PAGE_SIZE < UINT
      BY <3>1, GrowFacts, Zenon DEF HeapInv
    <3> HIDE DEF n
    <3>3. n * PAGE_SIZE \in Nat /\ n * PAGE_SIZE >= PAGE_SIZE
      BY <1>5, <3>2
    <3>4. (heap_size + n * PAGE_SIZE) % PAGE_SIZE = 0
      BY <3>2, WholePages, Zenon DEF HeapInv
    <3> QED
      BY <1>5, <3>2, <3>3, <3>4 DEF HeapInv
  <2>2. /\ blocks' = AddPages(n)
        /\ heap_size' = heap_size + n * PAGE_SIZE /\ frames' = frames - n /\ status' = status
    BY <1>5 DEF heap_grow
  <2> HIDE DEF n
  <2>3. /\ fresh \in BlockType /\ Sound(fresh) /\ fresh.free /\ fresh.addr = End(last)
        /\ fresh.size = n * PAGE_SIZE /\ End(fresh) = heap_size + n * PAGE_SIZE
    <3>1. End(last) \in Nat
      BY <1>3, BlockFacts
    <3> QED
      BY <1>2, <2>1, <3>1 DEF Block, BlockType, Sound, End
  <2> HIDE DEF fresh
  <2>4. Tiling(blocks') /\ blocks'[1].addr = HEADER /\ End(blocks'[Len(blocks')]) = heap_size + n * PAGE_SIZE
    <3>1. CASE last.free
      <4>1. blocks' = Front(blocks) \o <<joined>>
        BY <2>2, <3>1 DEF AddPages, Last, fresh
      <4>2. /\ joined \in BlockType /\ joined.addr = last.addr /\ joined.free
            /\ End(joined) = heap_size + n * PAGE_SIZE
        <5> HIDE DEF last
        <5>1. fresh.size \in Nat /\ last.size + fresh.size \in Nat
          BY <1>3, <2>1, <2>3, BlockFacts
        <5>2. /\ joined \in BlockType /\ joined.addr = last.addr /\ joined.free
              /\ joined.size = last.size + fresh.size
          BY <1>3, <3>1, <5>1, Zenon DEF BlockType
        <5>3. End(joined) = End(last) + fresh.size
          <6> HIDE DEF joined
          <6> QED
            BY <1>3, <5>1, <5>2 DEF End, BlockType
        <5> QED
          BY <1>2, <2>3, <5>2, <5>3
      <4>3. Sound(joined)
        <5>1. Sound(last)
          BY <1>2, <1>3 DEF Tiling
        <5> QED
          <6> HIDE DEF last
          <6>1. fresh.size \in Nat /\ last.size \in Nat /\ joined.size = last.size + fresh.size
            BY <1>3, <2>1, <2>3 DEF BlockType
          <6> HIDE DEF joined
          <6> QED
            BY <4>2, <5>1, <6>1 DEF Sound
      <4> HIDE DEF joined
      <4>4. Tiling(<<joined>>) /\ Len(<<joined>>) = 1 /\ <<joined>>[1] = joined
        BY <4>2, <4>3, TilingOne
      <4>5. CASE Len(blocks) = 1
        <5>1. Front(blocks) \o <<joined>> = <<joined>>
          <6>1. Front(blocks) = << >>
            BY <4>5, SubSeqEmpty DEF Front
          <6>2. <<joined>> \in Seq(BlockType)
            BY <4>2
          <6> QED
            BY <6>1, <6>2, ConcatEmptySeq
        <5> QED
          BY <1>2, <4>1, <4>2, <4>4, <4>5, <5>1, Zenon
      <4>6. CASE Len(blocks) # 1
        <5> DEFINE f == Front(blocks)  m == Len(blocks) - 1
        <5>1. 1 \in 1 .. Len(blocks) /\ m \in 1 .. Len(blocks) /\ m \in 1 .. Len(blocks) - 1 /\ m + 1 = Len(blocks)
          <6>1. Len(blocks) \in Nat \ {0}
            BY <1>3
          <6> QED
            BY <4>6, <6>1, SMTT(20)
        <5>2. Tiling(f) /\ f[1] = blocks[1] /\ f[Len(f)] = blocks[m]
          BY <1>2, <5>1, TilingPart DEF Front
        <5>3. End(blocks[m]) = last.addr /\ ~blocks[m].free
          BY <1>2, <3>1, <5>1 DEF Tiling
        <5> HIDE DEF f, m
        <5>4. /\ Tiling(f \o <<joined>>)
              /\ (f \o <<joined>>)[1] = blocks[1]
              /\ (f \o <<joined>>)[Len(f \o <<joined>>)] = joined
          BY <4>2, <4>4, <5>2, <5>3, TilingConcat
        <5> QED
          BY <1>2, <4>1, <4>2, <5>4 DEF f
      <4> QED
        BY <4>5, <4>6
    <3>2. CASE ~last.free
      <4>1. blocks' = blocks \o <<fresh>>
        <5>1. blocks' = Append(blocks, fresh)
          BY <2>2, <3>2 DEF AddPages, Last, fresh
        <5> QED
          BY <1>3, <2>3, <5>1, AppendIsConcat
      <4>2. Tiling(<<fresh>>) /\ Len(<<fresh>>) = 1 /\ <<fresh>>[1] = fresh
        BY <2>3, TilingOne
      <4>3. /\ Tiling(blocks \o <<fresh>>)
            /\ (blocks \o <<fresh>>)[1] = blocks[1]
            /\ (blocks \o <<fresh>>)[Len(blocks \o <<fresh>>)] = fresh
        BY <1>2, <2>3, <3>2, <4>2, TilingConcat
      <4> QED
        BY <1>2, <2>3, <4>1, <4>3
    <3> QED
      BY <3>1, <3>2
  <2>5. frames - n \in Nat
    BY <2>1 DEF HeapInv
  <2> QED
    BY <1>1, <2>1, <2>2, <2>4, <2>5, SMTT(20) DEF HeapInv, Tiling, Sound, HoldsData, End
<1> QED
  BY <1>4, <1>5

(* One free block in the place of those from i to j. *)
LEMMA JoinTiles ==
    ASSUME Tiling(blocks), NEW i \in 1 .. Len(blocks), NEW j \in i .. Len(blocks),
           NEW b \in BlockType, b.free, b.size >= HEADER,
           b.addr = blocks[i].addr, End(b) = End(blocks[j]),
           i > 1 => ~FreeAt(i - 1), j < Len(blocks) => ~FreeAt(j + 1)
    PROVE  /\ Tiling(Splice(i, j, <<b>>))
           /\ Splice(i, j, <<b>>)[1].addr = blocks[1].addr
           /\ End(Splice(i, j, <<b>>)[Len(Splice(i, j, <<b>>))]) = End(blocks[Len(blocks)])
<1>1. Tiling(<<b>>) /\ Len(<<b>>) = 1 /\ <<b>>[1] = b
  BY TilingOne DEF Sound
<1>2. Len(blocks) \in Nat
  BY TilingBounds
<1>3. i > 1 => i - 1 \in 1 .. Len(blocks)
  BY <1>2
<1>4. j < Len(blocks) => j + 1 \in 1 .. Len(blocks)
  BY <1>2
<1>5. Replaces(i, j, <<b>>)
  BY <1>1, <1>3, <1>4 DEF Replaces, FreeAt
<1> QED
  BY <1>5, TilingSplice

LEMMA FreedFacts ==
    ASSUME NEW b \in BlockType
    PROVE  /\ Freed(b) \in BlockType /\ Freed(b).free
           /\ Freed(b).addr = b.addr /\ Freed(b).size = b.size /\ End(Freed(b)) = End(b)
  BY Zenon DEF Freed, BlockType, End

LEMMA MergeFacts ==
    ASSUME NEW a \in BlockType, NEW b \in BlockType, End(a) = b.addr
    PROVE  /\ Merge(a, b) \in BlockType /\ Merge(a, b).free = a.free
           /\ Merge(a, b).addr = a.addr /\ Merge(a, b).size >= a.size /\ End(Merge(a, b)) = End(b)
<1>1. a.size + b.size \in Nat /\ a.addr \in Nat /\ a.size \in Nat /\ b.size \in Nat
  BY DEF BlockType
<1>2. /\ Merge(a, b) \in BlockType /\ Merge(a, b).free = a.free
      /\ Merge(a, b).addr = a.addr /\ Merge(a, b).size = a.size + b.size
  BY <1>1 DEF Merge, BlockType
<1> QED
  BY <1>1, <1>2 DEF End

LEMMA FreeTiles ==
    ASSUME Tiling(blocks), NEW i \in Allocated
    PROVE  /\ Tiling(FreeBlock(i))
           /\ FreeBlock(i)[1].addr = blocks[1].addr
           /\ End(FreeBlock(i)[Len(FreeBlock(i))]) = End(blocks[Len(blocks)])
<1> DEFINE n == Len(blocks)
           b == Freed(blocks[i])
           p == blocks[i - 1]
           s == blocks[i + 1]
<1> USE HeapAssumption
<1>1. n \in Nat \ {0} /\ i \in 1 .. n /\ \A j \in 1 .. n : blocks[j] \in BlockType /\ blocks[j].size >= HEADER
  BY TilingBounds DEF Allocated, Tiling, Sound
<1>2. \A j \in 1 .. n : blocks[j].size \in Nat
  BY <1>1, BlockFacts
<1>3. /\ b \in BlockType /\ b.free /\ b.addr = blocks[i].addr /\ End(b) = End(blocks[i])
      /\ b.size >= HEADER
  BY <1>1, FreedFacts
<1>4. FreeAt(i - 1) => /\ i - 1 \in 1 .. n /\ p \in BlockType /\ p.free /\ p.size >= HEADER
                       /\ End(p) = b.addr
                       /\ i - 1 > 1 => ~FreeAt(i - 1 - 1)
  <2>1. SUFFICES ASSUME FreeAt(i - 1)
                 PROVE  /\ i - 1 \in 1 .. n /\ p \in BlockType /\ p.free /\ p.size >= HEADER
                        /\ End(p) = b.addr
                        /\ i - 1 > 1 => ~FreeAt(i - 1 - 1)
    OBVIOUS
  <2>2. i - 1 \in 1 .. n /\ p.free
    BY <2>1 DEF FreeAt
  <2>3. i - 1 \in 1 .. n - 1 /\ (i - 1) + 1 = i
    BY <1>1, <2>2
  <2>4. End(p) = blocks[i].addr
    BY <2>3, Zenon DEF Tiling
  <2>5. i - 1 > 1 => ~blocks[i - 1 - 1].free
    BY <2>2, FreeNeighbours
  <2> QED
    BY <1>1, <1>3, <2>2, <2>4, <2>5, SMTT(20) DEF FreeAt
<1>5. FreeAt(i + 1) => /\ i + 1 \in 1 .. n /\ s \in BlockType
                       /\ End(blocks[i]) = s.addr
                       /\ i + 1 < n => ~FreeAt(i + 1 + 1)
  <2>1. SUFFICES ASSUME FreeAt(i + 1)
                 PROVE  /\ i + 1 \in 1 .. n /\ s \in BlockType
                        /\ End(blocks[i]) = s.addr
                        /\ i + 1 < n => ~FreeAt(i + 1 + 1)
    OBVIOUS
  <2>2. i + 1 \in 1 .. n /\ s.free
    BY <2>1 DEF FreeAt
  <2>3. i \in 1 .. n - 1
    BY <1>1, <2>2
  <2>4. End(blocks[i]) = s.addr
    BY <2>3 DEF Tiling
  <2>5. i + 1 < n => ~blocks[i + 1 + 1].free
    BY <2>2, FreeNeighbours
  <2> QED
    BY <1>1, <2>2, <2>4, <2>5 DEF FreeAt
<1> HIDE DEF n, b, p, s
<1>6. CASE FreeAt(i - 1) /\ FreeAt(i + 1)
  <2> DEFINE x == Merge(Merge(p, b), s)
  <2>1. FreeBlock(i) = Splice(i - 1, i + 1, <<x>>)
    BY <1>6 DEF FreeBlock, p, b, s
  <2>2. /\ Merge(p, b) \in BlockType /\ Merge(p, b).free /\ Merge(p, b).addr = p.addr
        /\ Merge(p, b).size >= p.size /\ End(Merge(p, b)) = s.addr
    BY <1>3, <1>4, <1>5, <1>6, MergeFacts, SMTT(20)
  <2>3. /\ x \in BlockType /\ x.free /\ x.addr = p.addr /\ x.size >= Merge(p, b).size
        /\ End(x) = End(s)
    BY <1>5, <1>6, <2>2, MergeFacts, SMTT(20)
  <2>4. x.size >= HEADER
    <3>1. x.size \in Nat /\ Merge(p, b).size \in Nat /\ p.size \in Nat
      BY <1>4, <1>6, <2>2, <2>3, BlockFacts, SMTT(20)
    <3> QED
      BY <1>4, <1>6, <2>2, <2>3, <3>1, SMTT(20)
  <2> HIDE DEF x
  <2>5. i - 1 \in 1 .. n /\ i + 1 \in i - 1 .. n
    BY <1>1, <1>4, <1>5, <1>6, SMTT(20)
  <2>6. /\ x.addr = blocks[i - 1].addr /\ End(x) = End(blocks[i + 1])
        /\ i - 1 \in 1 .. Len(blocks) /\ i + 1 \in i - 1 .. Len(blocks)
        /\ i - 1 > 1 => ~FreeAt(i - 1 - 1)
        /\ i + 1 < Len(blocks) => ~FreeAt(i + 1 + 1)
    BY <1>4, <1>5, <1>6, <2>3, <2>5, SMTT(20) DEF n, p, s
  <2> QED
    BY <2>1, <2>3, <2>4, <2>6, JoinTiles, SMTT(20)
<1>7. CASE FreeAt(i - 1) /\ ~FreeAt(i + 1)
  <2> DEFINE x == Merge(p, b)
  <2>1. FreeBlock(i) = Splice(i - 1, i, <<x>>)
    BY <1>7 DEF FreeBlock, p, b
  <2>2. x \in BlockType /\ x.free /\ x.addr = p.addr /\ x.size >= p.size /\ End(x) = End(blocks[i])
    BY <1>3, <1>4, <1>7, MergeFacts, SMTT(20)
  <2>3. x.size >= HEADER
    <3>1. x.size \in Nat /\ p.size \in Nat
      BY <1>4, <1>7, <2>2, BlockFacts, SMTT(20)
    <3> QED
      BY <1>4, <1>7, <2>2, <3>1, SMTT(20)
  <2> HIDE DEF x
  <2>4. i - 1 \in 1 .. n /\ i \in i - 1 .. n
    BY <1>1, <1>4, <1>7, SMTT(20)
  <2> QED
    BY <1>4, <1>7, <2>1, <2>2, <2>3, <2>4, JoinTiles, SMTT(20) DEF n, p
<1>8. CASE ~FreeAt(i - 1) /\ FreeAt(i + 1)
  <2> DEFINE x == Merge(b, s)
  <2>1. FreeBlock(i) = Splice(i, i + 1, <<x>>)
    BY <1>8 DEF FreeBlock, b, s
  <2>2. x \in BlockType /\ x.free /\ x.addr = blocks[i].addr /\ x.size >= b.size /\ End(x) = End(s)
    BY <1>3, <1>5, <1>8, MergeFacts
  <2>3. x.size >= HEADER
    <3>1. x.size \in Nat /\ b.size \in Nat
      BY <1>3, <2>2, BlockFacts
    <3> QED
      BY <1>3, <2>2, <3>1
  <2> HIDE DEF x
  <2>4. i \in 1 .. n /\ i + 1 \in i .. n
    BY <1>1, <1>5, <1>8
  <2> QED
    <3>1. /\ End(x) = End(blocks[i + 1]) /\ i \in 1 .. Len(blocks) /\ i + 1 \in i .. Len(blocks)
          /\ i > 1 => ~FreeAt(i - 1)
          /\ i + 1 < Len(blocks) => ~FreeAt(i + 1 + 1)
      BY <1>5, <1>8, <2>2, <2>4 DEF n, s
    <3> QED
      BY <2>1, <2>2, <2>3, <3>1, JoinTiles, SMTT(20)
<1>9. CASE ~FreeAt(i - 1) /\ ~FreeAt(i + 1)
  <2>1. FreeBlock(i) = Splice(i, i, <<b>>)
    BY <1>9 DEF FreeBlock, b
  <2>2. i \in 1 .. n /\ i \in i .. n
    BY <1>1
  <2> QED
    BY <1>3, <1>9, <2>1, <2>2, JoinTiles DEF n
<1> QED
  BY <1>6, <1>7, <1>8, <1>9
-----------------------------------------------------------------------------
(* The theorems. *)

LEMMA InitHeapInv == Init => HeapInv
<1> DEFINE b == Block(HEADER, InitialSize - HEADER)
<1> USE HeapAssumption
<1>1. b \in BlockType /\ Sound(b) /\ b.addr = HEADER /\ End(b) = InitialSize
  BY DEF Block, BlockType, Sound, End
<1> HIDE DEF b
<1>2. Tiling(<<b>>) /\ Len(<<b>>) = 1 /\ <<b>>[1] = b
  BY <1>1, TilingOne
<1> QED
  BY <1>1, <1>2 DEF Init, HeapInv, b

LEMMA NextHeapInv == HeapInv /\ [Next]_vars => HeapInv'
<1> SUFFICES ASSUME HeapInv, [Next]_vars
             PROVE  HeapInv'
  OBVIOUS
<1>1. CASE kmalloc_a
  BY <1>1 DEF kmalloc_a, HeapInv, Tiling, Sound, HoldsData, End
<1>2. CASE heap_alloc_block_aligned
  BY <1>2, AllocKeepsInv
<1>3. CASE heap_grow
  BY <1>3, GrowKeepsInv
<1>4. ASSUME NEW i \in Allocated, kfree(i)
      PROVE  HeapInv'
  <2>1. /\ status = "ok" /\ blocks' = FreeBlock(i) /\ heap_size' = heap_size
        /\ frames' = frames /\ request' = request /\ status' = status
    BY <1>4 DEF kfree
  <2>2. Tiling(blocks) /\ blocks[1].addr = HEADER /\ End(blocks[Len(blocks)]) = heap_size
    BY <2>1 DEF HeapInv
  <2>3. Tiling(blocks') /\ blocks'[1].addr = HEADER /\ End(blocks'[Len(blocks')]) = heap_size
    BY <2>1, <2>2, FreeTiles
  <2> QED
    BY <2>1, <2>3 DEF HeapInv, Tiling, Sound, HoldsData, End
<1>5. CASE UNCHANGED vars
  BY <1>5 DEF vars, HeapInv, Tiling, Sound, HoldsData, End
<1> QED
  BY <1>1, <1>2, <1>3, <1>4, <1>5 DEF Next

LEMMA HeapInvHolds == Spec => []HeapInv
  BY InitHeapInv, NextHeapInv, PTL DEF Spec

(* Whatever kmalloc and kfree are called with, and however the heap grows, *)
(* the blocks partition it up to a page boundary, and no two free ones are *)
(* neighbours.                                                             *)
THEOREM BlocksTileAlways == Spec => []BlocksTile
<1>1. HeapInv => BlocksTile
  <2> SUFFICES ASSUME HeapInv, status # "short"
               PROVE  /\ blocks[1].addr = HEADER /\ End(Last(blocks)) = heap_size /\ heap_size % PAGE_SIZE = 0
                      /\ \A i \in 1 .. Len(blocks) - 1 :
                          /\ End(blocks[i]) = blocks[i + 1].addr
                          /\ ~(blocks[i].free /\ blocks[i + 1].free)
                      /\ \A i \in 1 .. Len(blocks) : blocks[i].size >= HEADER
    BY DEF BlocksTile
  <2> QED
    BY DEF HeapInv, Tiling, Sound, Last
<1> QED
  BY <1>1, HeapInvHolds, PTL

(* Every allocated block holds its header, the bytes asked for and the     *)
(* canary, so writing the canary does not write over the data.             *)
THEOREM AllocationsHoldAlways == Spec => []AllocationsHold
<1>1. HeapInv => AllocationsHold
  BY DEF HeapInv, AllocationsHold, Allocated, Tiling, Sound
<1> QED
  BY <1>1, HeapInvHolds, PTL
=============================================================================
