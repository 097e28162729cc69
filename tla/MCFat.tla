------------------------------- MODULE MCFat -------------------------------
(* Volumes for the FAT driver: FAT12 in a partition with clusters of two   *)
(* sectors, FAT16 with a directory over two clusters, FAT32 with its root  *)
(* in a cluster chain, and boot records that describe no volume.           *)
EXTENDS Fat

\* Characters.
a == 97
b == 98
c == 99
x == 120
A == 65
B == 66
C == 67
X == 88
One == 49
Tilde == 126
Plus == 43
Slash == 47
Zero == 48
Colon == 58

-----------------------------------------------------------------------------
(* Directory entries. *)

MCFiller(n) == [i \in 1 .. n |-> 65535]
MCPadded(s) == LET t == IF Len(s) % PART = 0 THEN s ELSE Append(s, 0)
               IN  t \o MCFiller((PART - (Len(t) % PART)) % PART)

MCLfn(name, sum) ==
  LET p == MCPadded(name)
      n == Len(p) \div PART
  IN  << >> \o [k \in 1 .. n |->
         [kind |-> "lfn", ord |-> n - k + 1, islast |-> k = 1, sum |-> sum, clust |-> 0,
          part |-> SubSeq(p, (n - k) * PART + 1, (n - k + 1) * PART)]]

MCSfn(name, dir0, clust, size, body, ext) ==
  [kind |-> "sfn", name |-> name, dir |-> dir0, clust |-> clust, size |-> size,
   smallbody |-> body, smallext |-> ext]

MCLong(long, name, dir0, clust, size) ==
  Append(MCLfn(long, sum_sfn(name)), MCSfn(name, dir0, clust, size, FALSE, FALSE))

MCDeleted == [kind |-> "deleted"]
MCLabel == [kind |-> "vol"]
MCEnd == [kind |-> "end"]

\* Entries laid out over the given sectors.
MCTable(entries, sectors) ==
  [s \in Range(sectors) |->
     LET k == CHOOSE i \in DOMAIN sectors : sectors[i] = s
     IN  << >> \o [j \in 1 .. EPS |-> LET i == (k - 1) * EPS + j
                                      IN  IF i <= Len(entries) THEN entries[i] ELSE MCEnd]]
    @@ << >>

\* The bytes of a file over its sectors.
MCContent(bytes, sectors) ==
  [s \in Range(sectors) |->
     LET k == CHOOSE i \in DOMAIN sectors : sectors[i] = s
     IN  << >> \o [j \in 1 .. SS |-> LET i == (k - 1) * SS + j
                                     IN  IF i <= Len(bytes) THEN bytes[i] ELSE 0]]
    @@ << >>

MCFile(name, short, clust, bytes) ==
  [name |-> name, short |-> short, dir |-> FALSE, clust |-> clust, entries |-> << >>,
   bytes |-> bytes, damaged |-> FALSE]

MCDir(name, short, clust, entries) ==
  [name |-> name, short |-> short, dir |-> TRUE, clust |-> clust, entries |-> entries,
   bytes |-> << >>, damaged |-> FALSE]

MCRoot(entries) == MCDir(<< >>, << >>, 0, entries)

MCBoot(bps, rsvd, fatsz, nfats, spc, rootent, totsec, rootclus) ==
  [fat |-> TRUE, bps |-> bps, nrsv |-> rsvd, fatsz |-> fatsz, n_fats |-> nfats,
   csize |-> spc, rootent |-> rootent, tsect |-> totsec, ver |-> 0, rootclus |-> rootclus,
   parts |-> <<0, 0, 0, 0>>]

MCMbr(parts) == [MCBoot(0, 0, 0, 0, 0, 0, 0, 0) EXCEPT !.fat = FALSE, !.parts = parts]

-----------------------------------------------------------------------------
(* A FAT12 volume in the second partition: clusters of two sectors, a file *)
(* with a long name in the chain 2, 5, 3 whose FAT entries lie across      *)
(* sectors, and a file whose chain ends too early.                         *)

MCEoc == 100
MCCounting(from, n) == << >> \o [i \in 1 .. n |-> from + i]

MCBytes1 == MCCounting(10, 19)
MCFat12 ==
  [fs_type |-> 1, sectors |-> 18, fatbase |-> 3, sound |-> TRUE,
   boot |-> 0 :> MCMbr(<<1, 2, 0, 0>>) @@ 2 :> MCBoot(SS, 1, 3, 1, 2, 8, 16, 0),
   fat |-> [k \in 2 .. 5 |-> <<5, MCEoc, 0, 3>>[k - 1]] @@ << >>,
   dirs |-> MCTable(<<MCLabel>> \o MCLong(<<a, a, b, b, Dot, c>>, <<A, Tilde, C>>, FALSE, 2, 19)
                      \o <<MCSfn(<<X, Blank, Blank>>, FALSE, 4, 12, TRUE, FALSE)>>,
                    <<6, 7, 8, 9>>),
   data |-> MCContent(MCBytes1, <<10, 11, 16, 17, 12, 13>>) @@ MCContent(MCCounting(50, 8), <<14, 15>>),
   root |-> MCRoot(<<MCFile(<<a, a, b, b, Dot, c>>, <<A, Tilde, Dot, C>>, 2, MCBytes1),
                     [MCFile(<<x>>, <<X>>, 4, MCCounting(50, 12)) EXCEPT !.damaged = TRUE]>>),
   failing |-> {0, 1, 2, 3, 4, 5, 6, 7, 8, 11, 16, 12}]

(* A FAT16 volume without partitions: the root table is full, so that no   *)
(* entry ends it, and a directory in clusters 2 and 6 holds a long name    *)
(* that begins in the one and ends in the other.                           *)
MCBytes2 == MCCounting(10, 7)
MCSub2 == <<MCFile(<<a, b, c, a, b>>, <<B, Tilde>>, 7, MCCounting(30, 4))>>
MCBoot16 == MCBoot(SS, 1, 4, 2, 1, 2, 16, 0)
MCFat16 ==
  [fs_type |-> 2, sectors |-> 16, fatbase |-> 1, sound |-> TRUE,
   boot |-> 0 :> MCBoot16,
   fat |-> [k \in 2 .. 7 |-> <<6, MCEoc, 3, 0, MCEoc, MCEoc>>[k - 1]] @@ << >>,
   dirs |-> MCTable(<<MCSfn(<<B, Blank, Blank>>, TRUE, 2, 0, TRUE, FALSE),
                      MCSfn(<<A, Blank, Blank>>, FALSE, 4, 7, TRUE, FALSE)>>, <<9>>)
            @@ MCTable(<<MCSfn(<<Dot, Blank, Blank>>, TRUE, 2, 0, FALSE, FALSE)>>
                         \o MCLong(<<a, b, c, a, b>>, <<B, Tilde, Blank>>, FALSE, 7, 4), <<10, 14>>),
   data |-> MCContent(MCBytes2, <<12, 11>>) @@ MCContent(MCCounting(30, 4), <<15>>),
   root |-> MCRoot(<<MCDir(<<b>>, <<B>>, 2, MCSub2), MCFile(<<a>>, <<A>>, 4, MCBytes2)>>),
   failing |-> {0, 2, 3, 9, 10, 11, 12, 14, 15}]

(* A FAT32 volume with clusters of four sectors: the root lies in clusters *)
(* 4 and 2 and is littered with deleted entries and with long names that   *)
(* belong to no file.                                                      *)
MCBytes3 == MCCounting(10, 21)
MCOrphan == MCLfn(<<a, b, c, x>>, sum_sfn(<<A, B, Blank>>))
MCRootEntries3 ==
  MCLfn(<<a, b>>, sum_sfn(<<X, Blank, Blank>>))
    \o <<MCSfn(<<C, Blank, C>>, FALSE, 6, 21, TRUE, TRUE), MCDeleted>>
    \o <<MCOrphan[1], MCDeleted, MCOrphan[2], MCSfn(<<A, B, Blank>>, FALSE, 0, 0, FALSE, FALSE), MCLabel>>
    \o MCLong(<<a, Plus, b>>, <<A, Underscore, Blank>>, TRUE, 3, 0)
MCFat32 ==
  [fs_type |-> 3, sectors |-> 38, fatbase |-> 1, sound |-> TRUE,
   boot |-> 0 :> MCBoot(SS, 1, 9, 1, 4, 0, 38, 4),
   fat |-> [k \in 2 .. 8 |-> <<MCEoc, MCEoc, 2, MCEoc, 5, 0, 0>>[k - 1]] @@ << >>,
   dirs |-> MCTable(MCRootEntries3, <<18, 19, 20, 21, 10, 11, 12, 13>>)
            @@ MCTable(<<MCSfn(<<Dot, Blank, Blank>>, TRUE, 3, 0, FALSE, FALSE)>>, <<14, 15, 16, 17>>),
   data |-> MCContent(MCBytes3, <<26, 27, 28, 29, 22, 23, 24, 25>>),
   root |-> MCRoot(<<MCFile(<<c, Dot, c>>, <<C, Dot, C>>, 6, MCBytes3),
                     MCFile(<<A, B>>, <<A, B>>, 0, << >>),
                     MCDir(<<a, Plus, b>>, <<A, Underscore>>, 3, << >>)>>),
   failing |-> {0, 5, 7, 10, 14, 18, 20, 22, 23, 26, 27}]

\* Boot records that describe no volume.
MCUnsound(boot) ==
  [fs_type |-> 2, sectors |-> 16, fatbase |-> 1, sound |-> FALSE, boot |-> boot,
   fat |-> << >>, dirs |-> << >>, data |-> << >>, root |-> MCRoot(<< >>), failing |-> {0}]

MCBadBoots ==
  {[MCBoot16 EXCEPT !.bps = SS + 1], [MCBoot16 EXCEPT !.n_fats = 3],
    [MCBoot16 EXCEPT !.csize = 0], [MCBoot16 EXCEPT !.csize = 3],
    [MCBoot16 EXCEPT !.rootent = 3], [MCBoot16 EXCEPT !.rootent = 0],
    [MCBoot16 EXCEPT !.nrsv = 0], [MCBoot16 EXCEPT !.tsect = 9],
    [MCBoot16 EXCEPT !.tsect = 10], [MCBoot16 EXCEPT !.fatsz = 3],
    [MCBoot16 EXCEPT !.tsect = 200], MCMbr(<<0, 5, 0, 7>>)}

MCVolumes ==
  {MCFat12, MCFat16, MCFat32, MCUnsound(<< >>)}
    \cup {MCUnsound(0 :> boot) : boot \in MCBadBoots}

MCPaths ==
  { <<a, a, b, b, Dot, c>>, <<Zero, Colon, Slash, A, A, B, B, Dot, C, Dot, Blank>>,
    <<Slash, a, Tilde, Dot, c>>, <<a, a>>, <<a, a, b, b>>, <<x>>,
    <<b, Slash, a, b, c, a, b>>, <<B, Slash, Slash, B, Tilde>>, <<a>>, <<b>>, <<b, Slash>>,
    <<c, Dot, c>>, <<C, Dot, C>>, <<a, b>>, <<a, b, c, x>>, <<A, Plus, B>>, <<a, Underscore>>,
    <<Slash>>, <<One, Colon, a>>, <<a, Slash, b>>, <<x, Slash, x>>,
    <<a, b, c, a, b, c, a, b>>, <<Dot, Dot>>, <<a, 63>> }

MCDirPaths == { <<Slash>>, <<b>>, <<A, Plus, B>>, <<x>>, <<b, Slash, a>> }

=============================================================================
