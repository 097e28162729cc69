------------------------------- MODULE Malloc -------------------------------
(***************************************************************************)
(* The allocator of the user runtime, userland/runtime/malloc.c, as this   *)
(* repository builds it: footers and assertions on, memory from sbrk only, *)
(* no mmap, one space.  A process has one thread, so that the spin lock    *)
(* taken by every call is free and a call is one step.                     *)
(*                                                                         *)
(* Sizes and addresses count words (SIZE_T_SIZE = 1) and are those of the  *)
(* code otherwise.  gm, the global malloc_state, is a record with          *)
(*   head, foot    the head and prev_foot words of the chunks, by address; *)
(*                 words inside a chunk belong to its user and have none   *)
(*   smallbin      for each small size the list from B->fd on              *)
(*   treebin       for each tree bin its root, 0 when there is none        *)
(*   node          the tree links of the free large chunks                 *)
(*   grown         the chunk size for which the last call extended the     *)
(*                 heap, 0 when it did not (not in the code)               *)
(*   panic         how the process stopped ("abort", "mmap", "shrink") or  *)
(*                 that it loops ("loop"), "no" while it runs              *)
(* and the code's own fields.                                              *)
(***************************************************************************)
EXTENDS Integers, FiniteSets, Sequences, SequencesExt

CONSTANTS
    SIZE_T_BITSIZE,
    TREEBIN_SHIFT,      \* sizes from 2^TREEBIN_SHIFT are kept in trees
    NTREEBINS,
    PageSize,           \* mparams.page_size and granularity
    TRIM_THRESHOLD,     \* mparams.trim_threshold
    Base,               \* _END_, where sbrk starts
    Limit,              \* bound: the address from which mmap fails
    Requests,           \* bound: sizes asked of malloc
    Resizes,            \* bound: sizes asked of realloc
    Alignments,         \* bound: alignments and sizes asked of memalign
    Products,           \* bound: numbers of elements and sizes asked of calloc
    Pairs,              \* bound: sizes of two blocks asked of independent_comalloc
    Pads,               \* bound: paddings asked of malloc_trim
    MaxBlocks,            \* bound: blocks allocated at a time
    MaxAligned          \* bound: the same while one of them is aligned to a minimal chunk

SIZE_T(n) == n % 2^SIZE_T_BITSIZE
MAX_SIZE_T == 2^SIZE_T_BITSIZE - 1
HALF_MAX_SIZE_T == MAX_SIZE_T \div 2

MALLOC_ALIGNMENT == 2
CHUNK_OVERHEAD == 2
MIN_CHUNK_SIZE == 4
MIN_REQUEST == MIN_CHUNK_SIZE - CHUNK_OVERHEAD - 1
MAX_REQUEST == SIZE_T((-MIN_CHUNK_SIZE) * 4)
MIN_LARGE_SIZE == 2^TREEBIN_SHIFT
NSMALLBINS == MIN_LARGE_SIZE \div MALLOC_ALIGNMENT
MAX_SMALL_REQUEST == MIN_LARGE_SIZE - 1 - (MALLOC_ALIGNMENT - 1) - CHUNK_OVERHEAD

Down(n, a) == n - (n % a)
pad_request(req) == Down(SIZE_T(req + CHUNK_OVERHEAD + MALLOC_ALIGNMENT - 1), MALLOC_ALIGNMENT)
request2size(req) == IF req < MIN_REQUEST THEN MIN_CHUNK_SIZE ELSE pad_request(req)
granularity_align(n) == Down(SIZE_T(n + PageSize - 1), PageSize)

(* Room at the end of the segment for a segment record of four words. *)
TOP_FOOT_SIZE == pad_request(4) + MIN_CHUNK_SIZE
SYS_ALLOC_PADDING == TOP_FOOT_SIZE + MALLOC_ALIGNMENT

chunk2mem(p) == p + 2
mem2chunk(mem) == mem - 2

ASSUME MallocAssumption ==
    /\ SIZE_T_BITSIZE \in Nat /\ TREEBIN_SHIFT \in 3 .. SIZE_T_BITSIZE - 1
    /\ NTREEBINS % 2 = 0 /\ NTREEBINS \in 2 .. 2 * (SIZE_T_BITSIZE - TREEBIN_SHIFT)
    /\ \E k \in 4 .. SIZE_T_BITSIZE : PageSize = 2^k
    /\ Base > 0 /\ Base % PageSize = 0 /\ Limit > Base
    /\ TRIM_THRESHOLD \in Nat /\ MaxBlocks \in Nat /\ MaxAligned \in Nat
    /\ Requests \cup Resizes \cup Pads \subseteq 0 .. MAX_SIZE_T
    /\ Alignments \cup Products \cup Pairs \subseteq (0 .. MAX_SIZE_T) \X (0 .. MAX_SIZE_T)

VARIABLES
    gm,
    live            \* the blocks in use by the program: address and size asked for

mvars == <<gm, live>>

(* The words from before p up to p + s belong to the chunk at p. *)
Outside(f, p, s) == [a \in {x \in DOMAIN f : x <= p \/ x >= p + s} |-> f[a]]
With(f, a, v) == [x \in DOMAIN f \cup {a} |-> IF x = a THEN v ELSE f[x]]
Without(f, a) == [x \in DOMAIN f \ {a} |-> f[x]]

(* assert, RTCHECK, CORRUPTION_ERROR_ACTION and USAGE_ERROR_ACTION: panic. *)
Require(m, cond) == IF cond \/ m.panic # "no" THEN m ELSE [m EXCEPT !.panic = "abort"]
-----------------------------------------------------------------------------
(* Heads and feet.  In-use chunks have a magic number as their foot. *)

MAGIC == -1

chunksize(m, p) == m.head[p].size
cinuse(m, p) == m.head[p].cinuse
pinuse(m, p) == m.head[p].pinuse
next_chunk(m, p) == p + chunksize(m, p)

SetHead(m, p, s, pin, cin) ==
    [m EXCEPT !.head = With(Outside(@, p, s), p, [size |-> s, pinuse |-> pin, cinuse |-> cin]),
              !.foot = Outside(@, p, s)]
SetFoot(m, p, s, v) == [m EXCEPT !.foot = With(@, p + s, v)]

(* The word at n, a head or, before a split is complete, anything. *)
MarkPinuse(m, n) ==
    IF n \in DOMAIN m.head THEN [m EXCEPT !.head[n].pinuse = TRUE]
    ELSE [m EXCEPT !.head = With(@, n, [size |-> 0, pinuse |-> TRUE, cinuse |-> FALSE])]

set_size_and_pinuse_of_inuse_chunk(m, p, s) == SetFoot(SetHead(m, p, s, TRUE, TRUE), p, s, MAGIC)
set_inuse_and_pinuse(m, p, s) ==
    SetFoot(MarkPinuse(SetHead(m, p, s, TRUE, TRUE), p + s), p, s, MAGIC)
set_inuse(m, p, s) ==
    SetFoot(MarkPinuse(SetHead(m, p, s, p \in DOMAIN m.head /\ pinuse(m, p), TRUE), p + s), p, s, MAGIC)
set_size_and_pinuse_of_free_chunk(m, p, s) == SetFoot(SetHead(m, p, s, TRUE, FALSE), p, s, s)
set_free_with_pinuse(m, p, s, n) ==
    set_size_and_pinuse_of_free_chunk([m EXCEPT !.head[n].pinuse = FALSE], p, s)
-----------------------------------------------------------------------------
(* Small bins. *)

small_index(s) == s \div MALLOC_ALIGNMENT
small_index2size(i) == i * MALLOC_ALIGNMENT
is_small(s) == small_index(s) < NSMALLBINS

insert_small_chunk(m, p, s) ==
    LET i == small_index(s)
        k == Require(m, s >= MIN_CHUNK_SIZE)
    IN  [k EXCEPT !.smallmap = @ \cup {i},
                  !.smallbin[i] = <<p>> \o (IF i \in m.smallmap THEN @ ELSE << >>)]

unlink_small_chunk(m, p, s) ==
    LET i == small_index(s)
        k == Require(m, p \in ToSet(m.smallbin[i]) /\ chunksize(m, p) = small_index2size(i))
    IN  [k EXCEPT !.smallbin[i] = Remove(@, p),
                  !.smallmap = IF Len(m.smallbin[i]) = 1 THEN @ \ {i} ELSE @]

replace_dv(m, p, s) ==
    LET k == Require(m, is_small(m.dvsize))
        b == IF m.dvsize # 0 THEN insert_small_chunk(k, m.dv, m.dvsize) ELSE k
    IN  [b EXCEPT !.dvsize = s, !.dv = p]
-----------------------------------------------------------------------------
(* Tree bins: binary tries on the bits of the size, nodes of one size in a *)
(* ring of which one has a parent.  Address 0 is NULL, BIN the parent of a *)
(* root.                                                                   *)

BIN == -1

(* The position of the highest bit of x. *)
Log2(x) == CHOOSE k \in 0 .. SIZE_T_BITSIZE : 2^k <= x /\ x < 2^(k + 1)

compute_tree_index(s) ==
    LET x == s \div MIN_LARGE_SIZE
        k == Log2(x)
    IN  IF x = 0 THEN 0
        ELSE IF x > 2^(NTREEBINS \div 2) - 1 THEN NTREEBINS - 1
        ELSE 2 * k + ((s \div 2^(k + TREEBIN_SHIFT - 1)) % 2)

leftshift_for_tree_index(i) ==
    IF i = NTREEBINS - 1 THEN 0
    ELSE SIZE_T_BITSIZE - 1 - ((i \div 2) + TREEBIN_SHIFT - 2)

minsize_for_tree_index(i) == (2 + (i % 2)) * 2^((i \div 2) + TREEBIN_SHIFT - 1)

(* The path of size s in bin i, as the word whose sign bit is looked at,   *)
(* and one step along it.                                                  *)
SizeBits(s, i) == SIZE_T(s * 2^leftshift_for_tree_index(i))
Side(bits) == bits \div 2^(SIZE_T_BITSIZE - 1)
Shl(bits) == SIZE_T(2 * bits)

leftmost_child(m, t) == IF m.node[t].child[0] # 0 THEN m.node[t].child[0] ELSE m.node[t].child[1]

(* Where the search for size s ends: at the node of that size, or at the   *)
(* node without a child on the path.                                       *)
RECURSIVE Descend(_, _, _, _)
Descend(m, t, s, bits) ==
    LET c == m.node[t].child[Side(bits)]
    IN  IF chunksize(m, t) = s \/ c = 0 THEN [at |-> t, side |-> Side(bits)]
        ELSE Descend(m, c, s, Shl(bits))

NewNode(x, i, parent) ==
    [fd |-> x, bk |-> x, parent |-> parent, index |-> i, child |-> [c \in 0 .. 1 |-> 0]]

(* x in the ring of the node at d.at, behind it, or as its child. *)
LinkNode(m, x, s, i, d) ==
    LET t == d.at
        f == m.node[t].fd
    IN  IF chunksize(m, t) = s
        THEN [m EXCEPT !.node = With([@ EXCEPT ![t].fd = x, ![f].bk = x], x,
                                     [NewNode(x, i, 0) EXCEPT !.fd = f, !.bk = t])]
        ELSE [m EXCEPT !.node = With([@ EXCEPT ![t].child[d.side] = x], x, NewNode(x, i, t))]

insert_large_chunk(m, x, s) ==
    LET i == compute_tree_index(s)
    IN  IF i \notin m.treemap
        THEN [m EXCEPT !.treemap = @ \cup {i}, !.treebin[i] = x, !.node = With(@, x, NewNode(x, i, BIN))]
        ELSE LinkNode(m, x, s, i, Descend(m, m.treebin[i], s, SizeBits(s, i)))

(* The leaf that replaces an inner node x: from child c of x on, to the    *)
(* right where possible; "up" holds the pointer to it.                     *)
RECURSIVE Leaf(_, _, _)
Leaf(m, x, c) ==
    LET r == m.node[x].child[c]
        k == m.node[r].child
    IN  IF k[1] # 0 THEN Leaf(m, r, 1)
        ELSE IF k[0] # 0 THEN Leaf(m, r, 0)
        ELSE [at |-> r, up |-> x, side |-> c]

(* Unlink steps 1 and 2: the replacement of x, and the nodes without it. *)
Unhook(m, leaf) == [r |-> leaf.at, node |-> [m.node EXCEPT ![leaf.up].child[leaf.side] = 0]]
Replacement(m, x) ==
    LET n == m.node[x]
    IN  IF n.bk # x THEN [r |-> n.bk, node |-> [m.node EXCEPT ![n.fd].bk = n.bk, ![n.bk].fd = n.fd]]
        ELSE IF n.child[0] = 0 /\ n.child[1] = 0 THEN [r |-> 0, node |-> m.node]
        ELSE Unhook(m, Leaf(m, x, IF n.child[1] # 0 THEN 1 ELSE 0))

(* Faulty: the parent takes r in place of x, x's children are forgotten.   *)
relink_drops_children(node, x, xp, r) ==
    LET side == IF xp # BIN /\ node[xp].child[0] = x THEN 0 ELSE 1
        up == IF xp = BIN THEN node ELSE [node EXCEPT ![xp].child[side] = r]
    IN  IF r = 0 THEN up ELSE [up EXCEPT ![r].parent = xp]

(* Unlink step 3: r in the place of x, below parent xp and above x's children. *)
Relink(node, x, xp, r) ==
    LET kids == {c \in 0 .. 1 : node[x].child[c] # 0}
        side == IF xp # BIN /\ node[xp].child[0] = x THEN 0 ELSE 1
        up == IF xp = BIN THEN node ELSE [node EXCEPT ![xp].child[side] = r]
    IN  IF r = 0 THEN up
        ELSE [a \in DOMAIN up |->
                 IF a = r THEN [up[r] EXCEPT !.parent = xp,
                                   !.child = [c \in 0 .. 1 |-> IF c \in kids THEN node[x].child[c] ELSE @[c]]]
                 ELSE IF \E c \in kids : a = node[x].child[c] THEN [up[a] EXCEPT !.parent = r]
                 ELSE up[a]]

Replace(m, x, rep) ==
    LET i == m.node[x].index
        xp == m.node[x].parent
        root == m.treebin[i] = x
    IN  IF xp = 0 THEN [m EXCEPT !.node = Without(rep.node, x)]
        ELSE [m EXCEPT !.node = Without(Relink(rep.node, x, xp, rep.r), x),
                       !.treebin[i] = IF root THEN rep.r ELSE @,
                       !.treemap = IF root /\ rep.r = 0 THEN @ \ {i} ELSE @]

unlink_large_chunk(m, x) ==
    LET n == m.node[x]
    IN  Replace(Require(m, m.node[n.fd].bk = x /\ m.node[n.bk].fd = x), x, Replacement(m, x))

insert_chunk(m, p, s) == IF is_small(s) THEN insert_small_chunk(m, p, s) ELSE insert_large_chunk(m, p, s)
unlink_chunk(m, p, s) == IF is_small(s) THEN unlink_small_chunk(m, p, s) ELSE unlink_large_chunk(m, p)
-----------------------------------------------------------------------------
(* Memory from the system. *)

(* sbrk: more pages at the break, or one of the panics of runtime.c. *)
sbrk(m, incr) ==
    IF incr < 0 THEN [m EXCEPT !.panic = "shrink"]
    ELSE IF m.brk + incr > Limit THEN [m EXCEPT !.panic = "mmap"]
    ELSE [m EXCEPT !.brk = @ + incr]

init_top(m, p, psize) ==
    LET k == SetHead([m EXCEPT !.top = p, !.topsize = psize, !.trim_check = TRIM_THRESHOLD],
                     p, psize, TRUE, FALSE)
    IN  [k EXCEPT !.head = With(@, p + psize, [size |-> TOP_FOOT_SIZE, pinuse |-> FALSE, cinuse |-> FALSE])]

(* Allocation from the start of top. *)
SplitTop(m, nb) ==
    LET p == m.top
        k == SetHead([m EXCEPT !.topsize = @ - nb, !.top = p + nb], p + nb, m.topsize - nb, TRUE, FALSE)
    IN  [m |-> set_size_and_pinuse_of_inuse_chunk(k, p, nb), mem |-> chunk2mem(p)]

Failed(m) == [m |-> m, mem |-> 0]

(* The memory got is appended to the one segment; on the first call it     *)
(* becomes the segment.                                                    *)
Extended(m, tsize) ==
    init_top([m EXCEPT !.footprint = @ + tsize, !.segsize = @ + tsize],
             IF m.top = 0 THEN Base ELSE m.top,
             IF m.top = 0 THEN tsize - TOP_FOOT_SIZE ELSE m.topsize + tsize)
FromTop(m, nb) == IF nb < m.topsize THEN SplitTop(m, nb) ELSE Failed(m)
UseMemory(m, nb, tsize) == IF m.panic # "no" THEN Failed(m) ELSE FromTop(Extended(m, tsize), nb)
Extend(m, nb, tsize) == UseMemory(sbrk([m EXCEPT !.grown = nb], tsize), nb, tsize)

(* A request for half of the address space or more makes the space         *)
(* noncontiguous for good; sbrk is then asked for the whole of a request,  *)
(* and what it returns still continues the segment.                        *)
sys_alloc(m, nb) ==
    LET asize == granularity_align(nb + SYS_ALLOC_PADDING)
        ssize == IF m.top = 0 THEN asize ELSE granularity_align(nb - m.topsize + SYS_ALLOC_PADDING)
    IN  IF asize <= nb THEN Failed(m)
        ELSE IF m.contiguous /\ ssize < HALF_MAX_SIZE_T THEN Extend(m, nb, ssize)
        ELSE IF asize < HALF_MAX_SIZE_T THEN Extend([m EXCEPT !.contiguous = FALSE], nb, asize)
        ELSE Failed([m EXCEPT !.contiguous = FALSE])

sys_trim(m, pad) ==
    LET keep == pad + TOP_FOOT_SIZE
        units == ((m.topsize - keep + PageSize - 1) \div PageSize - 1) * PageSize
        extra == IF units >= HALF_MAX_SIZE_T THEN HALF_MAX_SIZE_T + 1 - PageSize ELSE units
        k == IF m.topsize > keep THEN sbrk(m, -extra) ELSE m
    IN  IF pad >= MAX_REQUEST \/ m.top = 0 THEN m
        ELSE [k EXCEPT !.trim_check = IF m.topsize > @ THEN MAX_SIZE_T ELSE @]
-----------------------------------------------------------------------------
(* malloc. *)

(* The chunk at v, already unlinked, of size nb + rsize, gives nb words;   *)
(* the rest becomes dv, goes to its bin, or is too small to be a chunk.    *)
Carve(m, v, nb, rsize, becomes_dv) ==
    LET r == v + nb
        split == set_size_and_pinuse_of_free_chunk(set_size_and_pinuse_of_inuse_chunk(m, v, nb), r, rsize)
    IN  [mem |-> chunk2mem(v),
         m |-> IF rsize < MIN_CHUNK_SIZE THEN set_inuse_and_pinuse(m, v, nb + rsize)
               ELSE IF becomes_dv THEN replace_dv(split, r, rsize)
               ELSE insert_chunk(split, r, rsize)]

(* A step of the search for the best fit: t if it is better than b.v. *)
Better(m, b, t, nb) ==
    LET trem == SIZE_T(chunksize(m, t) - nb)
    IN  IF trem < b.rsize THEN [v |-> t, rsize |-> trem] ELSE b

(* The smallest of a tree or subtree. *)
RECURSIVE Leftmost(_, _, _, _)
Leftmost(m, b, t, nb) ==
    IF t = 0 THEN b ELSE Leftmost(m, Better(m, b, t, nb), leftmost_child(m, t), nb)

(* The walk towards a node of size nb: what it found, and the deepest      *)
(* right subtree it did not take.                                          *)
RECURSIVE Walk(_, _, _, _, _, _)
Walk(m, b, t, nb, bits, rst) ==
    LET c == Better(m, b, t, nb)
        rt == m.node[t].child[1]
        n == m.node[t].child[Side(bits)]
        r == IF rt # 0 /\ rt # n THEN rt ELSE rst
    IN  IF c.v = t /\ c.rsize = 0 THEN [b |-> c, t |-> t]
        ELSE IF n = 0 THEN [b |-> c, t |-> r]
        ELSE Walk(m, c, n, nb, Shl(bits), r)

(* Faulty: the bins of larger sizes are not looked at. *)
next_bin_ignored(m, nb, w) == Leftmost(m, w.b, w.t, nb)

(* Then the next bin that is not empty, when nothing was found. *)
NextBin(m, nb, w) ==
    LET left == {i \in m.treemap : i > compute_tree_index(nb)}
    IN  Leftmost(m, w.b, IF w.t = 0 /\ w.b.v = 0 /\ left # {} THEN m.treebin[Min(left)] ELSE w.t, nb)

BestFit(m, nb) ==
    LET idx == compute_tree_index(nb)
        none == [v |-> 0, rsize |-> SIZE_T(-nb)]
    IN  NextBin(m, nb, IF m.treebin[idx] = 0 THEN [b |-> none, t |-> 0]
                       ELSE Walk(m, none, m.treebin[idx], nb, SizeBits(nb, idx), 0))

FromTree(m, nb, best, becomes_dv) ==
    Carve(unlink_large_chunk(m, best.v), best.v, nb, best.rsize, becomes_dv)

(* 0 when dv is a better fit. *)
UnlessDv(m, nb, best) ==
    IF best.v # 0 /\ best.rsize < SIZE_T(m.dvsize - nb) THEN FromTree(m, nb, best, FALSE)
    ELSE Failed(m)

tmalloc_large(m, nb) == UnlessDv(m, nb, BestFit(m, nb))

tmalloc_small(m, nb) ==
    LET root == m.treebin[Min(m.treemap)]
    IN  FromTree(m, nb, Leftmost(m, [v |-> root, rsize |-> chunksize(m, root) - nb],
                                 leftmost_child(m, root), nb), TRUE)

FromDv(m, nb) ==
    LET rsize == m.dvsize - nb
        p == m.dv
        k == set_size_and_pinuse_of_free_chunk([m EXCEPT !.dv = p + nb, !.dvsize = rsize], p + nb, rsize)
    IN  [mem |-> chunk2mem(p),
         m |-> IF rsize >= MIN_CHUNK_SIZE THEN set_size_and_pinuse_of_inuse_chunk(k, p, nb)
               ELSE set_inuse_and_pinuse([m EXCEPT !.dv = 0, !.dvsize = 0], p, m.dvsize)]

DvTopOrSystem(m, nb) ==
    IF nb <= m.dvsize THEN FromDv(m, nb)
    ELSE IF nb < m.topsize THEN SplitTop(m, nb)
    ELSE sys_alloc(m, nb)

(* A chunk of the small bin i. *)
FromSmallbin(m, i, nb, rsize) ==
    LET p == Head(m.smallbin[i])
        k == unlink_small_chunk(m, p, small_index2size(i))
    IN  Carve(k, p, nb, rsize, TRUE)

(* Faulty: a bigger bin is used whether or not dv would do. *)
small_request_skips_dv(m, nb) ==
    LET idx == small_index(nb)
        i == IF idx \in m.smallmap THEN idx ELSE idx + 1
        bigger == {j \in m.smallmap : j > idx}
    IN  IF i \in m.smallmap THEN FromSmallbin(m, i, nb, small_index2size(i) - nb)
        ELSE IF bigger # {}
        THEN FromSmallbin(m, Min(bigger), nb, small_index2size(Min(bigger)) - nb)
        ELSE IF m.treemap # {} THEN tmalloc_small(m, nb)
        ELSE DvTopOrSystem(m, nb)

SmallRequest(m, nb) ==
    LET idx == small_index(nb)
        i == IF idx \in m.smallmap THEN idx ELSE idx + 1
        bigger == {j \in m.smallmap : j > idx}
    IN  IF i \in m.smallmap THEN FromSmallbin(m, i, nb, small_index2size(i) - nb)
        ELSE IF nb > m.dvsize /\ bigger # {}
        THEN FromSmallbin(m, Min(bigger), nb, small_index2size(Min(bigger)) - nb)
        ELSE IF nb > m.dvsize /\ m.treemap # {} THEN tmalloc_small(m, nb)
        ELSE DvTopOrSystem(m, nb)

IfNot(r, nb) == IF r.mem # 0 THEN r ELSE DvTopOrSystem(r.m, nb)
LargeRequest(m, nb) == IfNot(IF m.treemap # {} THEN tmalloc_large(m, nb) ELSE Failed(m), nb)

(* check_malloced_chunk, at the end of every path that succeeds. *)
Malloced(r, nb) ==
    LET p == mem2chunk(r.mem)
        good == /\ cinuse(r.m, p) /\ pinuse(r.m, next_chunk(r.m, p))
                /\ chunksize(r.m, p) \in nb .. nb + MIN_CHUNK_SIZE - 1
    IN  IF r.mem = 0 THEN r ELSE [r EXCEPT !.m = Require(@, good)]

dlmalloc(m, bytes) ==
    IF bytes <= MAX_SMALL_REQUEST THEN Malloced(SmallRequest(m, request2size(bytes)), request2size(bytes))
    ELSE IF bytes >= MAX_REQUEST THEN sys_alloc(m, MAX_SIZE_T)
    ELSE Malloced(LargeRequest(m, pad_request(bytes)), pad_request(bytes))
-----------------------------------------------------------------------------
(* free. *)

(* Consolidation with the previous chunk: the free chunk that results, and *)
(* whether it is a dv that needs no more work.                             *)
Backward(m, p, psize) ==
    LET prevsize == m.foot[p]
        prev == p - prevsize
        n == p + psize
        size == psize + prevsize
    IN  IF pinuse(m, p) THEN [m |-> m, p |-> p, size |-> psize, done |-> FALSE]
        ELSE IF prev # m.dv
        THEN [m |-> unlink_chunk(m, prev, prevsize), p |-> prev, size |-> size, done |-> FALSE]
        ELSE IF pinuse(m, n) /\ cinuse(m, n)
        THEN [m |-> set_free_with_pinuse([m EXCEPT !.dvsize = size], prev, size, n),
              p |-> prev, size |-> size, done |-> TRUE]
        ELSE [m |-> m, p |-> prev, size |-> size, done |-> FALSE]

(* Consolidation with top, dv or another free chunk n, and binning. *)
Forward(m, p, psize, n) ==
    LET nsize == chunksize(m, n)
        merged == set_size_and_pinuse_of_free_chunk(unlink_chunk(m, n, nsize), p, psize + nsize)
        drop == IF p = m.dv THEN [m EXCEPT !.dv = 0, !.dvsize = 0] ELSE m
    IN  IF cinuse(m, n) THEN insert_chunk(set_free_with_pinuse(m, p, psize, n), p, psize)
        ELSE IF n = m.top
        THEN SetHead([drop EXCEPT !.top = p, !.topsize = @ + psize], p, m.topsize + psize, TRUE, FALSE)
        ELSE IF n = m.dv
        THEN set_size_and_pinuse_of_free_chunk([m EXCEPT !.dv = p, !.dvsize = @ + psize],
                                               p, m.dvsize + psize)
        ELSE IF p = m.dv THEN [merged EXCEPT !.dvsize = psize + nsize]
        ELSE insert_chunk(merged, p, psize + nsize)

Bin(b, n) == IF b.done THEN b.m ELSE Forward(b.m, b.p, b.size, n)
dispose_chunk(m, p, psize) == Bin(Backward(m, p, psize), p + psize)

Trimmed(m) == IF m.topsize > m.trim_check THEN sys_trim(m, 0) ELSE m

(* An in-use chunk of this space: its foot, its own bit and its successor's. *)
Checked(m, p) ==
    LET n == next_chunk(m, p) IN Require(m, m.foot[n] = MAGIC /\ cinuse(m, p) /\ pinuse(m, n))

TrimmedIfTop(m, top) == IF m.top # top THEN Trimmed(m) ELSE m
dlfree(m, mem) ==
    LET p == mem2chunk(mem)
    IN  TrimmedIfTop(dispose_chunk(Checked(m, p), p, chunksize(m, p)), m.top)
-----------------------------------------------------------------------------
(* realloc, memalign and the other entry points. *)

(* The tail of the in-use chunk p beyond nb words, given back. *)
SplitOff(m, p, nb, rsize) ==
    dispose_chunk(set_inuse(set_inuse(m, p, nb), p + nb, rsize), p + nb, rsize)

(* try_realloc_chunk: the block resized in place, or NULL. *)
ResizeInto(m, p, nb, n) ==
    LET total == chunksize(m, p) + chunksize(m, n)
        rsize == total - nb
        k == unlink_chunk(m, n, chunksize(m, n))
        top == SetHead(set_inuse(m, p, nb), p + nb, rsize, TRUE, FALSE)
        dv == set_size_and_pinuse_of_free_chunk(set_inuse(m, p, nb), p + nb, rsize)
    IN  IF n = m.top THEN [top EXCEPT !.top = p + nb, !.topsize = rsize]
        ELSE IF n = m.dv /\ rsize >= MIN_CHUNK_SIZE
        THEN [dv EXCEPT !.head[p + total].pinuse = FALSE, !.dv = p + nb, !.dvsize = rsize]
        ELSE IF n = m.dv THEN [set_inuse(m, p, total) EXCEPT !.dv = 0, !.dvsize = 0]
        ELSE IF rsize < MIN_CHUNK_SIZE THEN set_inuse(k, p, total)
        ELSE SplitOff(k, p, nb, rsize)

InPlace(m, p, nb) ==
    LET n == next_chunk(m, p)
        spare == chunksize(m, p) - nb
        fits == ~cinuse(m, n) /\ chunksize(m, p) + chunksize(m, n) >= nb + (IF n = m.top THEN 1 ELSE 0)
    IN  IF spare >= 0
        THEN [m |-> IF spare >= MIN_CHUNK_SIZE THEN SplitOff(m, p, nb, spare) ELSE m, mem |-> chunk2mem(p)]
        ELSE IF fits THEN [m |-> ResizeInto(m, p, nb, n), mem |-> chunk2mem(p)]
        ELSE Failed(m)

try_realloc_chunk(m, p, nb) == InPlace(Checked(m, p), p, nb)

FreeOld(new, mem) == IF new.mem # 0 THEN [new EXCEPT !.m = dlfree(@, mem)] ELSE new
MoveUnless(r, mem, bytes) == IF r.mem # 0 THEN r ELSE FreeOld(dlmalloc(r.m, bytes), mem)

(* A block that does not fit in place is copied to a new one.  realloc of  *)
(* NULL is malloc.                                                         *)
dlrealloc(m, mem, bytes) ==
    IF bytes >= MAX_REQUEST THEN Failed(m)
    ELSE MoveUnless(try_realloc_chunk(m, mem2chunk(mem), request2size(bytes)), mem, bytes)

dlrealloc_in_place(m, mem, bytes) ==
    IF bytes >= MAX_REQUEST THEN Failed(m)
    ELSE try_realloc_chunk(m, mem2chunk(mem), request2size(bytes))

(* The least power of two that is at least a minimal chunk and a; above    *)
(* half of the range there is none, and the loop that looks for it shifts  *)
(* to 0 and never ends.                                                    *)
PowersOf2(a) == {2^k : k \in 2 .. SIZE_T_BITSIZE - 1} \ 0 .. a - 1

(* An aligned address in the chunk p of block mem, with room for a chunk   *)
(* before it, and the chunk cut there.                                     *)
Leader(m, p, alignment) ==
    LET mem == chunk2mem(p)
        br == mem2chunk(Down(mem + alignment - 1, alignment))
        newp == IF br - p >= MIN_CHUNK_SIZE THEN br ELSE br + alignment
        lead == newp - p
        cut == set_inuse(set_inuse(m, newp, chunksize(m, p) - lead), p, lead)
    IN  IF mem % alignment = 0 THEN [m |-> m, p |-> p]
        ELSE [m |-> dispose_chunk(cut, p, lead), p |-> newp]

AlignedBlock(m, p, nb, alignment) ==
    [m |-> Require(m, chunksize(m, p) >= nb /\ chunk2mem(p) % alignment = 0), mem |-> chunk2mem(p)]

(* Spare room at the end of the chunk c.p given back. *)
Trailer(c, nb, alignment) ==
    LET size == chunksize(c.m, c.p)
    IN  AlignedBlock(IF size > nb + MIN_CHUNK_SIZE THEN SplitOff(c.m, c.p, nb, size - nb) ELSE c.m,
                     c.p, nb, alignment)

AlignIn(r, nb, alignment) ==
    IF r.mem = 0 THEN r ELSE Trailer(Leader(r.m, mem2chunk(r.mem), alignment), nb, alignment)

internal_memalign(m, al, bytes) ==
    LET alignment == Min(PowersOf2(al))
        nb == request2size(bytes)
    IN  IF PowersOf2(al) = {} THEN [m |-> [m EXCEPT !.panic = "loop"], mem |-> 0]
        ELSE IF bytes >= SIZE_T(MAX_REQUEST - alignment) THEN Failed(m)
        ELSE AlignIn(dlmalloc(m, nb + alignment + MIN_CHUNK_SIZE - CHUNK_OVERHEAD), nb, alignment)

dlmemalign(m, alignment, bytes) ==
    IF alignment <= MALLOC_ALIGNMENT THEN dlmalloc(m, bytes) ELSE internal_memalign(m, alignment, bytes)

(* ialloc: one chunk cut into blocks of the given sizes; the last keeps    *)
(* what is left over.                                                      *)
RECURSIVE CutUp(_, _, _, _)
CutUp(m, p, left, sizes) ==
    IF Len(sizes) = 1 THEN set_size_and_pinuse_of_inuse_chunk(m, p, left)
    ELSE CutUp(set_size_and_pinuse_of_inuse_chunk(m, p, Head(sizes)),
               p + Head(sizes), left - Head(sizes), Tail(sizes))

CutBlock(r, cuts) ==
    LET p == mem2chunk(r.mem)
    IN  IF r.mem = 0 THEN r ELSE [r EXCEPT !.m = CutUp(@, p, chunksize(@, p), cuts)]

(* The caller's array of pointers is one more block, of "array" words. *)
ialloc(m, sizes, array) ==
    LET cuts == [i \in 1 .. Len(sizes) |-> request2size(sizes[i])]
                \o (IF array = 0 THEN << >> ELSE <<request2size(array)>>)
        total == FoldSeq(LAMBDA a, b : a + b, 0, cuts)
    IN  CutBlock(dlmalloc(m, SIZE_T(total - CHUNK_OVERHEAD)), cuts)

(* internal_bulk_free: neighbours in the array that are neighbours in      *)
(* memory are joined before they are given back.                           *)
RECURSIVE BulkFree(_, _)
BulkFree(m, array) ==
    LET p == mem2chunk(Head(array))
        n == next_chunk(m, p)
        k == Checked(m, p)
    IN  IF array = << >> THEN Trimmed(m)
        ELSE IF Len(array) > 1 /\ array[2] = chunk2mem(n)
        THEN BulkFree(set_inuse(k, p, chunksize(m, p) + chunksize(m, n)),
                      <<Head(array)>> \o SubSeq(array, 3, Len(array)))
        ELSE BulkFree(dispose_chunk(k, p, chunksize(m, p)), Tail(array))
-----------------------------------------------------------------------------
MallocInit ==
    /\ gm = [head |-> << >>, foot |-> << >>, node |-> << >>,
             smallmap |-> {}, smallbin |-> [i \in 0 .. NSMALLBINS - 1 |-> << >>],
             treemap |-> {}, treebin |-> [i \in 0 .. NTREEBINS - 1 |-> 0],
             dv |-> 0, dvsize |-> 0, top |-> 0, topsize |-> 0, trim_check |-> 0,
             footprint |-> 0, segsize |-> 0, brk |-> Base, contiguous |-> TRUE,
             grown |-> 0, panic |-> "no"]
    /\ live = << >>

Start == [gm EXCEPT !.grown = 0]
Return(m, blocks) == gm' = m /\ live' = IF m.panic = "no" THEN blocks ELSE live
ReturnBlock(r, others, bytes) == Return(r.m, IF r.mem = 0 THEN live ELSE With(others, r.mem, bytes))

Bound == IF \E mem \in DOMAIN live : mem % MIN_CHUNK_SIZE = 0 THEN MaxAligned ELSE MaxBlocks
Running(n) == gm.panic = "no" /\ Cardinality(DOMAIN live) + n <= Bound

Malloc(bytes) == Running(1) /\ \E r \in {dlmalloc(Start, bytes)} : ReturnBlock(r, live, bytes)

(* dlcalloc: a product that overflows asks for more than there is. *)
calloc_request(n, size) ==
    LET req == SIZE_T(n * size)
        half == 2^(SIZE_T_BITSIZE \div 2)
    IN  IF n # 0 /\ (n >= half \/ size >= half) /\ req \div n # size THEN MAX_SIZE_T ELSE req
Calloc(n, size) ==
    Running(1) /\ \E r \in {dlmalloc(Start, calloc_request(n, size))} : ReturnBlock(r, live, n * size)

Memalign(alignment, bytes) ==
    /\ Running(1) /\ Cardinality(DOMAIN live) < MaxAligned
    /\ \E r \in {dlmemalign(Start, alignment, bytes)} : ReturnBlock(r, live, bytes)

Realloc(mem, bytes) ==
    gm.panic = "no" /\ \E r \in {dlrealloc(Start, mem, bytes)} : ReturnBlock(r, Without(live, mem), bytes)

ReallocInPlace(mem, bytes) ==
    gm.panic = "no" /\ \E r \in {dlrealloc_in_place(Start, mem, bytes)} : ReturnBlock(r, Without(live, mem), bytes)

Free(mem) == gm.panic = "no" /\ \E m \in {dlfree(Start, mem)} : Return(m, Without(live, mem))

(* independent_comalloc of two blocks, the array of pointers malloced or not. *)
Comalloc(a, b, array) ==
    /\ Running(2 + array)
    /\ \E r \in {ialloc(Start, <<a, b>>, 2 * array)} :
        LET second == r.mem + request2size(a)
            blocks == With(With(live, r.mem, a), second, b)
        IN  Return(r.m, IF r.mem = 0 THEN live
                        ELSE IF array = 0 THEN blocks
                        ELSE With(blocks, second + request2size(b), 2))

Bulk(x, y) ==
    /\ gm.panic = "no" /\ x # y
    /\ \E m \in {BulkFree(Start, <<x, y>>)} : Return(m, Without(Without(live, x), y))

Trim(pad) == gm.panic = "no" /\ \E m \in {sys_trim(Start, pad)} : Return(m, live)

MallocNext ==
    \/ \E bytes \in Requests : Malloc(bytes)
    \/ \E x \in Products : Calloc(x[1], x[2])
    \/ \E x \in Alignments : Memalign(x[1], x[2])
    \/ \E x \in Pairs, array \in 0 .. 1 : Comalloc(x[1], x[2], array)
    \/ \E mem \in DOMAIN live, bytes \in Resizes : Realloc(mem, bytes)
    \/ \E mem \in DOMAIN live, bytes \in Resizes : ReallocInPlace(mem, bytes)
    \/ \E mem \in DOMAIN live : Free(mem)
    \/ \E x, y \in DOMAIN live : Bulk(x, y)
    \/ \E pad \in Pads : Trim(pad)

MallocSpec == MallocInit /\ [][MallocNext]_mvars
-----------------------------------------------------------------------------
(* Properties. *)

Chunks(m) == DOMAIN m.head \ {m.top, m.top + m.topsize}
FreeChunks(m) == {p \in Chunks(m) : ~cinuse(m, p)}

(* The chunks and top cover the segment, up to its foot, without overlap;  *)
(* a chunk's bits and foot agree with its neighbours and no two free       *)
(* chunks, top included, are adjacent.                                     *)
Tiled(m) ==
    /\ Base \in DOMAIN m.head /\ pinuse(m, Base) /\ pinuse(m, m.top)
    /\ m.top + m.topsize + TOP_FOOT_SIZE = Base + m.segsize
    /\ m.topsize > 0 /\ chunksize(m, m.top) = m.topsize
    /\ ~pinuse(m, m.top + m.topsize)
    /\ Base + m.segsize = m.brk /\ m.footprint = m.segsize
    /\ \A p \in Chunks(m) :
        LET n == next_chunk(m, p)
        IN  /\ n \in Chunks(m) \cup {m.top} /\ Chunks(m) \cap p + 1 .. n - 1 = {}
            /\ p % MALLOC_ALIGNMENT = 0 /\ n - p >= MIN_CHUNK_SIZE
            /\ pinuse(m, n) = cinuse(m, p)
            /\ m.foot[n] = IF cinuse(m, p) THEN MAGIC ELSE n - p
            /\ ~cinuse(m, p) => n # m.top /\ cinuse(m, n)

(* A tree node agrees with its bin, its ring, its parent and its children, *)
(* and the search for its size ends in its ring.                           *)
TreeNode(m, x) ==
    LET n == m.node[x]
        s == chunksize(m, x)
        d == Descend(m, m.treebin[n.index], s, SizeBits(s, n.index)).at
        above == {y \in DOMAIN m.node : x \in {m.node[y].child[0], m.node[y].child[1]}}
    IN  /\ n.index = compute_tree_index(s) /\ n.index \in m.treemap
        /\ s >= minsize_for_tree_index(n.index)
        /\ n.index < NTREEBINS - 1 => s < minsize_for_tree_index(n.index + 1)
        /\ m.node[n.fd].bk = x /\ m.node[n.bk].fd = x /\ chunksize(m, n.fd) = s
        /\ chunksize(m, d) = s
        /\ IF d = x THEN above \cup {BIN} = {n.parent, BIN} /\ (n.parent = BIN) = (m.treebin[n.index] = x)
           ELSE n.parent = 0 /\ above = {} /\ n.child[0] = 0 /\ n.child[1] = 0

(* dv, the small bins and the trees hold each free chunk once, where its   *)
(* size belongs, and the bit maps show which bins are not empty.           *)
Binned(m) ==
    LET small == UNION {ToSet(m.smallbin[i]) : i \in DOMAIN m.smallbin}
        dv == IF m.dvsize # 0 THEN {m.dv} ELSE {}
    IN  /\ FreeChunks(m) = dv \cup small \cup DOMAIN m.node
        /\ dv \cap small = {} /\ dv \cap DOMAIN m.node = {}
        /\ \A p \in dv : chunksize(m, p) = m.dvsize
        /\ m.smallmap = {i \in DOMAIN m.smallbin : m.smallbin[i] # << >>}
        /\ m.treemap = {i \in DOMAIN m.treebin : m.treebin[i] # 0}
        /\ \A i \in DOMAIN m.smallbin :
            /\ Cardinality(ToSet(m.smallbin[i])) = Len(m.smallbin[i])
            /\ \A p \in ToSet(m.smallbin[i]) : chunksize(m, p) = small_index2size(i)
        /\ \A x \in DOMAIN m.node : TreeNode(m, x)

(* What do_check_malloc_state asserts holds after every call, and the      *)
(* blocks of the program are the chunks in use, each with room for what    *)
(* was asked for: no sequence of calls makes blocks overlap or loses one.  *)
MallocState ==
    gm.panic = "no" =>
        /\ gm.top # 0 => Tiled(gm) /\ Binned(gm)
        /\ DOMAIN live = {chunk2mem(p) : p \in (IF gm.top = 0 THEN {} ELSE Chunks(gm)) \ FreeChunks(gm)}
        /\ \A mem \in DOMAIN live : live[mem] <= chunksize(gm, mem2chunk(mem)) - CHUNK_OVERHEAD

(* No assertion or consistency check of the allocator fails, whatever      *)
(* sequence of calls a program makes: not when memory runs out either, nor *)
(* when trimming stops (assert, RTCHECK, CORRUPTION_ERROR_ACTION and       *)
(* USAGE_ERROR_ACTION of malloc.c).                                        *)
NoCheckFails == gm.panic # "abort"

(* The process is never stopped by its allocator: a call that finds no     *)
(* space returns null (malloc.c:872-873, 914-915), because MORECORE, which *)
(* is sbrk, returns MFAIL when it fails (1662) and when it is asked to     *)
(* shrink (6018-6019).  The code's sbrk does neither (runtime.c:122-127).  *)
ReturnsWhenOutOfMemory == gm.panic \notin {"mmap", "shrink"}

(* The heap is extended only when no free chunk, nor top, has room for the *)
(* request: the searches of the bins and trees miss no chunk that fits.    *)
GrowsOnlyWhenNothingFits ==
    [][gm'.grown # 0 =>
        /\ \A p \in FreeChunks(gm) : chunksize(gm, p) < gm'.grown
        /\ gm.topsize <= gm'.grown]_mvars
=============================================================================
