-------------------------------- MODULE Fat --------------------------------
(***************************************************************************)
(* The FAT driver of the file server (userland/vfs/fat/ff.c) as it is      *)
(* configured (ffconf.h): read only, long names in a buffer that is        *)
(* allocated for every call, one volume, no exFAT.                         *)
(*                                                                         *)
(* The volume is a constant: a description of its sectors, from which the  *)
(* driver reads, together with the files that they are meant to hold,      *)
(* which only the properties look at.  A call may meet one sector that the *)
(* disk does not deliver.  Names are sequences of ASCII codes; code pages  *)
(* and time stamps are left out.                                           *)
(***************************************************************************)
EXTENDS Integers, Sequences, FiniteSetsExt, SequencesExt

CONSTANTS
  SS,            \* bytes in a sector
  EPS,           \* directory entries in a sector
  BODY, EXT,     \* characters in the two fields of a short name (8, 3)
  PART,          \* characters of a long name in one entry (13)
  FF_MAX_LFN, MAX_DIR, MAX_FAT12, MAX_FAT16, MAX_FAT32,
  MAX_COUNT,     \* sectors disk_read accepts at once (7)
  Volumes,       \* the volumes of the runs
  Handles,       \* file objects
  Paths,         \* paths of files
  DirPaths,      \* paths of directories
  Lengths,       \* numbers of bytes asked for
  Offsets,       \* positions that are sought
  MaxErrors,     \* failing sectors in a behaviour
  MaxOpens,      \* files and directories opened in a behaviour
  MaxListed      \* entries listed at once

ASSUME FatAssumption ==
  /\ {SS, EPS, BODY, EXT, PART, FF_MAX_LFN, MAX_DIR, MAX_COUNT} \subseteq Nat \ {0}
  /\ MAX_FAT12 < MAX_FAT16 /\ MAX_FAT16 < MAX_FAT32

VARIABLES
  vol,      \* the description of the volume in the drive, never changed
  fs,       \* FATFS: the layout found by find_volume
  winsect,  \* FATFS: the sector in win[]
  fil,      \* FIL: the file objects
  dir,      \* DIR: one directory object
  errors,   \* sectors that failed
  opens,    \* calls of f_open and f_opendir so far
  last      \* the last call and its outcome

vars == <<vol, fs, winsect, fil, dir, errors, opens, last>>


\* 0xFFFFFFFF, which is larger than any cluster or sector number.
Invalid == 2^20

Unmounted == [fs_type |-> 0]
NoFile == [open |-> FALSE]
NoDir == [open |-> FALSE]

-----------------------------------------------------------------------------
(* Sectors. *)

(* The driver asks the block driver for one sector whatever the count is,  *)
(* and refuses more sectors than a message holds.                          *)
disk_read(sector, count, bad) ==
  count <= MAX_COUNT /\ sector < vol.sectors /\ sector \notin bad

Bytes(sector) == IF sector \in DOMAIN vol.data THEN vol.data[sector]
                                              ELSE [i \in 1 .. SS |-> 0]

\* What a transfer of count sectors leaves in the buffer: 256 stands for a
\* byte that was not written.
Transferred(sector, count) ==
  Bytes(sector) \o [i \in 1 .. (count - 1) * SS |-> 256]

move_window(win, sector, bad) ==
  IF sector = win \/ disk_read(sector, 1, bad)
    THEN [res |-> "OK", win |-> sector]
    ELSE [res |-> "DISK_ERR", win |-> Invalid]

clst2sect(clst) ==
  IF clst \in 2 .. fs.n_fatent - 1 THEN fs.database + fs.csize * (clst - 2) ELSE 0

(* The sectors of the FAT that hold an entry: an entry of a FAT12 has 12   *)
(* bits and may lie across two of them.                                    *)
FatSectors(type, base, clst) ==
  CASE type = 1 -> LET bc == clst + clst \div 2
                   IN  <<base + bc \div SS, base + (bc + 1) \div SS>>
    [] type = 2 -> <<base + clst \div (SS \div 2)>>
    [] type = 3 -> <<base + clst \div (SS \div 4)>>

\* The entry in those sectors, if it is in them.
FatEntry(sectors, clst) ==
  IF sectors = FatSectors(vol.fs_type, vol.fatbase, clst) THEN vol.fat[clst] ELSE 0

\* The second sector of an entry, once the first one is there.
SecondSector(m, sectors, bad) ==
  IF m.res = "OK" /\ Len(sectors) = 2 THEN move_window(m.win, sectors[2], bad) ELSE m

FatValue(m, sectors, clst) ==
  [win |-> m.win, val |-> IF m.res = "OK" THEN FatEntry(sectors, clst) ELSE Invalid]

LoadEntry(sectors, clst, win, bad) ==
  FatValue(SecondSector(move_window(win, sectors[1], bad), sectors, bad), sectors, clst)

\* Faulty: the second byte of an entry is taken from the same sector.
get_fat_first(clst, win, bad) ==
  IF clst < 2 \/ clst >= fs.n_fatent THEN [val |-> 1, win |-> win]
  ELSE LoadEntry([i \in DOMAIN FatSectors(fs.fs_type, fs.fatbase, clst) |->
                     FatSectors(fs.fs_type, fs.fatbase, clst)[1]], clst, win, bad)

get_fat(clst, win, bad) ==
  IF clst < 2 \/ clst >= fs.n_fatent THEN [val |-> 1, win |-> win]
  ELSE LoadEntry(FatSectors(fs.fs_type, fs.fatbase, clst), clst, win, bad)

-----------------------------------------------------------------------------
(* Mounting. *)

\* 0: a FAT volume, 2: another boot record, 3: none, 4: not readable.
check_fs(sect, bad) ==
  IF ~ disk_read(sect, 1, bad) THEN 4
  ELSE IF sect \notin DOMAIN vol.boot THEN 3
  ELSE IF vol.boot[sect].fat THEN 0 ELSE 2

\* The partitions are tried in turn until one holds a FAT volume.
RECURSIVE FindPartition(_, _, _)
FindPartition(br, i, bad) ==
  LET fmt == IF br[i] = 0 THEN 3 ELSE check_fs(br[i], bad)
  IN  IF fmt < 2 \/ i = Len(br) THEN [fmt |-> fmt, bsect |-> br[i]]
                                ELSE FindPartition(br, i + 1, bad)

(* The layout of a volume from its boot record, or Unmounted if the record *)
(* makes no sense.                                                         *)
Layout(b, bsect) ==
  LET fasize == b.fatsz * b.n_fats
      sysect == b.nrsv + fasize + b.rootent \div EPS
      nclst  == (b.tsect - sysect) \div b.csize
      type   == CASE nclst <= MAX_FAT12 -> 1
                  [] nclst > MAX_FAT12 /\ nclst <= MAX_FAT16 -> 2
                  [] OTHER -> 3
      ents   == nclst + 2
      szbfat == CASE type = 1 -> ((ents * 3) \div 2) + (ents % 2)
                  [] type = 2 -> ents * 2
                  [] type = 3 -> ents * 4
  IN  IF /\ b.bps = SS
         /\ b.n_fats \in {1, 2}
         /\ b.csize \in {2^k : k \in 0 .. 7}
         /\ b.rootent % EPS = 0
         /\ b.nrsv # 0
         /\ b.tsect >= sysect
         /\ nclst \in 1 .. MAX_FAT32
         /\ IF type = 3 THEN b.ver = 0 /\ b.rootent = 0 ELSE b.rootent # 0
         /\ b.fatsz >= (szbfat + SS - 1) \div SS
        THEN [fs_type |-> type, csize |-> b.csize, n_fatent |-> ents,
              n_rootdir |-> b.rootent, fatbase |-> bsect + b.nrsv,
              database |-> bsect + sysect,
              dirbase |-> IF type = 3 THEN b.rootclus ELSE bsect + b.nrsv + fasize]
        ELSE Unmounted

find_volume(bad) ==
  LET fmt0 == check_fs(0, bad)
      at   == IF fmt0 = 2 THEN FindPartition(vol.boot[0].parts, 1, bad)
                          ELSE [fmt |-> fmt0, bsect |-> 0]
      fsys == IF at.fmt = 0 THEN Layout(vol.boot[at.bsect], at.bsect) ELSE Unmounted
  IN  [fs |-> fsys, win |-> IF at.fmt = 4 THEN Invalid ELSE at.bsect,
       res |-> CASE at.fmt = 4 -> "DISK_ERR"
                 [] at.fmt # 4 /\ fsys = Unmounted -> "NO_FILESYSTEM"
                 [] OTHER -> "OK"]

-----------------------------------------------------------------------------
(* Names. *)

Blank == 32
Dot == 46
Separators == {47, 92}
Illegal == {34, 42, 58, 60, 62, 63, 124, 127}   \* in any name: "*:<>?|DEL
IllegalShort == {43, 44, 59, 61, 91, 93}        \* in a short name: +,;=[]
Underscore == 95

Upper(c) == IF c \in 97 .. 122 THEN c - 32 ELSE c

\* The characters up to the last one that is neither a blank nor a dot.
Trimmed(s) == SubSeq(s, 1, Max({0} \cup {i \in DOMAIN s : s[i] \notin {Blank, Dot}}))

(* The short form of a long name, taken character by character: si is the  *)
(* next character, i the next place in the directory form and ni the end   *)
(* of the field; di is the place of the last dot of the name.              *)
RECURSIVE ShortName(_, _, _, _, _, _, _)
ShortName(lfn, di, si, i, ni, fn, loss) ==
  IF si > Len(lfn) THEN [fn |-> fn, loss |-> loss]
  ELSE LET w == lfn[si] IN
    IF w = Blank \/ (w = Dot /\ si # di)
      THEN ShortName(lfn, di, si + 1, i, ni, fn, TRUE)
    ELSE IF i > ni \/ si = di
      THEN IF ni = BODY + EXT \/ si > di
             THEN [fn |-> fn, loss |-> TRUE]
             ELSE ShortName(lfn, di, di + 1, BODY + 1, BODY + EXT, fn, loss \/ si # di)
    ELSE LET illegal == w \in IllegalShort
         IN  ShortName(lfn, di, si + 1, i + 1, ni,
                       [fn EXCEPT ![i] = IF illegal THEN Underscore ELSE Upper(w)],
                       loss \/ illegal)

\* The first segment of a path as a long and a short name, and what follows.
create_name(path) ==
  LET seps == {i \in DOMAIN path : path[i] \in Separators}
      end  == IF seps = {} THEN Len(path) + 1 ELSE Min(seps)
      seg  == SubSeq(path, 1, end - 1)
      next == {i \in end .. Len(path) : path[i] \notin Separators}
      lfn  == Trimmed(seg)
      lead == Min({i \in DOMAIN lfn : lfn[i] \notin {Blank, Dot}})
      di   == Max({0} \cup {i \in DOMAIN lfn : lfn[i] = Dot})
      sfn  == ShortName(lfn, di, lead, 1, BODY, [i \in 1 .. BODY + EXT |-> Blank], lead > 1)
  IN  IF Len(seg) > FF_MAX_LFN \/ Range(seg) \cap Illegal # {} \/ lfn = << >>
        THEN [res |-> "INVALID_NAME"]
        ELSE [res |-> "OK", lfn |-> lfn, fn |-> sfn.fn, loss |-> sfn.loss,
              islast |-> seps = {},
              rest |-> IF next = {} THEN << >> ELSE SubSeq(path, Min(next), Len(path))]

\* A rotation and an addition in 8 bits for every character.
sum_sfn(name) ==
  FoldLeft(LAMBDA sum, c : ((sum \div 2) + 128 * (sum % 2) + c) % 256, 0, name)

\* The characters of an entry of a long name up to its terminator, included.
Stored(e) ==
  LET ends == {i \in DOMAIN e.part : e.part[i] = 0}
  IN  SubSeq(e.part, 1, IF ends = {} THEN PART ELSE Min(ends))

Filled(e) ==
  e.clust = 0 /\ \A i \in Len(Stored(e)) + 1 .. PART : e.part[i] = 65535

Terminated(e) == Last(Stored(e)) = 0

\* Faulty: the comparison stops at the end of the name that is looked for.
cmp_lfn_short(lfn, e, echo) ==
  LET i0 == (e.ord - 1) * PART
  IN  /\ Filled(e)
      /\ \A s \in DOMAIN Stored(e) :
           i0 + s <= Len(lfn) => Upper(lfn[i0 + s]) = Upper(Stored(e)[s])

(* The name buffer is allocated for the call and not cleared: what lies    *)
(* behind the terminator may happen to agree with the entry (echo) or not. *)
cmp_lfn(lfn, e, echo) ==
  LET i0 == (e.ord - 1) * PART
      Agrees(i, c) == CASE i < Len(lfn) -> Upper(lfn[i + 1]) = Upper(c)
                        [] i = Len(lfn) -> c = 0
                        [] OTHER -> echo
  IN  /\ Filled(e)
      /\ i0 + Len(Stored(e)) <= FF_MAX_LFN
      /\ \A s \in DOMAIN Stored(e) : Agrees(i0 + s - 1, Stored(e)[s])
      /\ (e.islast /\ ~ Terminated(e)) => Agrees(i0 + PART, 0)

pick_lfn(e) ==
  LET i == (e.ord - 1) * PART + Len(Stored(e))
  IN  Filled(e) /\ i <= FF_MAX_LFN /\ (e.islast => i < FF_MAX_LFN)

-----------------------------------------------------------------------------
(* Directories: d is a DIR with the outcome of the last operation on it    *)
(* and the sector in the window.                                           *)

Entry(d) ==
  IF d.win \in DOMAIN vol.dirs THEN vol.dirs[d.win][1 + (d.dptr % EPS)]
                              ELSE [kind |-> "deleted"]

\* dir_sdi is only ever called to go to the first entry.
dir_sdi(d) ==
  LET clst == IF d.sclust = 0 /\ fs.fs_type = 3 THEN fs.dirbase ELSE d.sclust
      sect == IF clst = 0 THEN fs.dirbase ELSE clst2sect(clst)
  IN  [d EXCEPT !.dptr = 0, !.clust = clst, !.sect = sect,
                !.res = IF sect = 0 THEN "INT_ERR" ELSE "OK"]

\* The table goes on in the next cluster of its chain.
NextCluster(d, ofs, g) ==
  CASE g.val <= 1 -> [d EXCEPT !.res = "INT_ERR", !.sect = @ + 1, !.win = g.win]
    [] g.val = Invalid -> [d EXCEPT !.res = "DISK_ERR", !.sect = @ + 1, !.win = g.win]
    [] g.val \in fs.n_fatent .. Invalid - 1 ->
         [d EXCEPT !.res = "NO_FILE", !.sect = 0, !.win = g.win]
    [] OTHER -> [d EXCEPT !.res = "OK", !.dptr = ofs, !.clust = g.val,
                          !.sect = clst2sect(g.val), !.win = g.win]

dir_next(d, bad) ==
  LET ofs == d.dptr + 1
  IN  IF d.sect = 0 \/ ofs >= MAX_DIR THEN [d EXCEPT !.res = "NO_FILE"]
      ELSE IF ofs % EPS # 0 THEN [d EXCEPT !.res = "OK", !.dptr = ofs]
      ELSE IF d.clust = 0 /\ ofs >= fs.n_rootdir
        THEN [d EXCEPT !.res = "NO_FILE", !.sect = 0]
      ELSE IF d.clust = 0 \/ (ofs \div EPS) % fs.csize # 0
        THEN [d EXCEPT !.res = "OK", !.dptr = ofs, !.sect = @ + 1]
      ELSE NextCluster(d, ofs, get_fat(d.clust, d.win, bad))

\* The sector of the entry d stands on is loaded, unless an error came first.
Moved(d, m) == [d EXCEPT !.res = m.res, !.win = m.win]
At(d, bad) == IF d.res # "OK" THEN d ELSE Moved(d, move_window(d.win, d.sect, bad))

\* No long name has been begun (ord = 0xFF).
NoOrder == 255

(* The place in a long name after one more of its entries: they come with  *)
(* the last part first and carry the sum of the short name they belong to. *)
NextOrder(e, ord, sum, fits) ==
  IF (e.islast \/ e.ord = ord) /\ (e.islast \/ e.sum = sum) /\ fits
    THEN e.ord - 1 ELSE NoOrder

RECURSIVE Search(_, _, _, _, _, _)
Search(d, ord, sum, name, echo, bad) ==
  LET e == Entry(d)
      part == e.kind = "lfn"
  IN  IF d.res # "OK" THEN d
      ELSE IF e.kind = "end" THEN [d EXCEPT !.res = "NO_FILE"]
      ELSE IF /\ e.kind = "sfn"
              /\ \/ ord = 0 /\ sum = sum_sfn(e.name)
                 \/ ~ name.loss /\ e.name = name.fn
        THEN d
      ELSE Search(At(dir_next(d, bad), bad),
                  IF part THEN NextOrder(e, ord, sum, cmp_lfn(name.lfn, e, echo)) ELSE NoOrder,
                  IF part /\ e.islast THEN e.sum ELSE sum, name, echo, bad)

dir_find(d, name, echo, bad) == Search(At(dir_sdi(d), bad), NoOrder, 255, name, echo, bad)

(* The next file or directory of a directory: its entry is the one the     *)
(* result stands on, and lfn its long name if it has one.                  *)
RECURSIVE Scan(_, _, _, _, _)
Scan(d, ord, sum, lfn, bad) ==
  LET e == Entry(d)
      part == e.kind = "lfn"
  IN  IF d.res # "OK" THEN [d |-> [d EXCEPT !.sect = 0], lfn |-> << >>]
      ELSE IF e.kind = "end"
        THEN [d |-> [d EXCEPT !.res = "NO_FILE", !.sect = 0], lfn |-> << >>]
      ELSE IF e.kind = "sfn" /\ e.name[1] # Dot
        THEN [d |-> d, lfn |-> IF ord = 0 /\ sum = sum_sfn(e.name) THEN lfn ELSE << >>]
      ELSE Scan(At(dir_next(d, bad), bad),
                IF part THEN NextOrder(e, ord, sum, pick_lfn(e)) ELSE NoOrder,
                IF part /\ e.islast THEN e.sum ELSE sum,
                IF ~ part THEN << >>
                ELSE SelectSeq(e.part, LAMBDA c : c \notin {0, 65535})
                       \o (IF e.islast THEN << >> ELSE lfn), bad)

\* A DIR that has come to its end stays there.
dir_read(d, bad) ==
  Scan(IF d.sect = 0 THEN [d EXCEPT !.res = "NO_FILE"] ELSE At([d EXCEPT !.res = "OK"], bad),
       NoOrder, 255, << >>, bad)

(* The long name, or the short one with the case its flags ask for.        *)
get_fileinfo(e, lfn) ==
  LET Shown(s, small) == [i \in DOMAIN s |-> IF small /\ s[i] \in 65 .. 90 THEN s[i] + 32
                                                                           ELSE s[i]]
      NotBlank(c) == c # Blank
      body == SelectSeq(SubSeq(e.name, 1, BODY), NotBlank)
      ext  == SelectSeq(SubSeq(e.name, BODY + 1, BODY + EXT), NotBlank)
  IN  IF lfn # << >> THEN lfn
      ELSE Shown(body, e.smallbody)
             \o (IF ext = << >> THEN << >> ELSE <<Dot>> \o Shown(ext, e.smallext))

\* The path without a drive number; a colon stands only behind drive 0.
get_ldnumber(path) ==
  LET colons == {i \in DOMAIN path : path[i] = 58}
  IN  IF colons = {} THEN [res |-> "OK", path |-> path]
      ELSE IF Min(colons) = 2 /\ path[1] = 48
        THEN [res |-> "OK", path |-> SubSeq(path, 3, Len(path))]
        ELSE [res |-> "INVALID_DRIVE"]

\* The name that follows in a path is looked up in the directory found.
RECURSIVE Follow(_, _, _, _)
Enter(at, name, echo, bad) ==
  IF at.res # "OK"
    THEN [at EXCEPT !.res = IF @ = "NO_FILE" /\ ~ name.islast THEN "NO_PATH" ELSE @]
  ELSE IF name.islast THEN at
  ELSE IF ~ Entry(at).dir THEN [at EXCEPT !.res = "NO_PATH"]
  ELSE Follow([at EXCEPT !.sclust = Entry(at).clust], create_name(name.rest), echo, bad)
Follow(d, name, echo, bad) ==
  IF name.res # "OK" THEN [d EXCEPT !.res = name.res]
                     ELSE Enter(dir_find(d, name, echo, bad), name, echo, bad)

follow_path(path, echo, bad) ==
  LET start == {i \in DOMAIN path : path[i] \notin Separators}
      root  == [res |-> "OK", sclust |-> 0, dptr |-> 0, clust |-> 0, sect |-> 0,
                win |-> winsect, noname |-> start = {}]
  IN  IF start = {} THEN dir_sdi(root)
                    ELSE Follow(root, create_name(SubSeq(path, Min(start), Len(path))), echo, bad)

-----------------------------------------------------------------------------
(* The calls. *)

Init ==
  /\ vol \in Volumes
  /\ fs = Unmounted
  /\ winsect = Invalid
  /\ fil = [h \in Handles |-> NoFile]
  /\ dir = NoDir
  /\ errors = 0 /\ opens = 0
  /\ last = [call |-> "none"]

\* A sector may fail in a call, as long as not too many have.
Faults(bad) ==
  /\ Cardinality(bad) <= 1 /\ errors + Cardinality(bad) <= MaxErrors
  /\ errors' = errors + Cardinality(bad)
  /\ UNCHANGED vol

Counted == opens < MaxOpens /\ opens' = opens + 1

\* The file server gives up when the volume is not mounted (vfs.c).
Mounted == fs # Unmounted

f_mount(bad) ==
  LET m == find_volume(bad) IN
  /\ last.call = "none"
  /\ Faults(bad)
  /\ fs' = m.fs /\ winsect' = m.win
  /\ last' = [call |-> "mount", res |-> m.res, faulty |-> bad # {}]
  /\ UNCHANGED <<fil, dir, opens>>

\* What f_open makes of the object found.
FileFound(d) ==
  IF d.res # "OK" THEN [res |-> d.res, win |-> d.win]
  ELSE IF d.noname THEN [res |-> "INVALID_NAME", win |-> d.win]
  ELSE [res |-> IF Entry(d).dir THEN "NO_FILE" ELSE "OK", win |-> d.win, entry |-> Entry(d)]

Opened(ld, echo, bad) ==
  IF ld.res = "OK" THEN FileFound(follow_path(ld.path, echo, bad))
                   ELSE [res |-> ld.res, win |-> winsect]

f_open(h, path, echo, bad) ==
  /\ Mounted /\ ~ fil[h].open
  /\ Faults(bad) /\ Counted
  /\ \E r \in {Opened(get_ldnumber(path), echo, bad)} :
       /\ fil' = [fil EXCEPT ![h] =
            IF r.res # "OK" THEN NoFile
            ELSE [open |-> TRUE, sclust |-> r.entry.clust, size |-> r.entry.size,
                  err |-> "OK", sect |-> 0, fptr |-> 0, clust |-> 0, buf |-> Invalid,
                  path |-> path, want |-> 0]]
       /\ winsect' = r.win
       /\ last' = [call |-> "open", path |-> path, res |-> r.res, faulty |-> bad # {}]
  /\ UNCHANGED <<fs, dir>>

Buffer(f) == IF f.buf = Invalid THEN [i \in 1 .. SS |-> 256] ELSE Bytes(f.buf)

\* An error stays with the file object: every later call reports it.
Abort(f, res, win) == [f |-> [f EXCEPT !.err = res], res |-> res, win |-> win, data |-> << >>]

\* The bytes left in the sector, clipped by those asked for.
Rcnt(f, btr) == Min({btr, SS - (f.fptr % SS)})
Piece(f, btr) == SubSeq(Buffer(f), 1 + (f.fptr % SS), (f.fptr % SS) + Rcnt(f, btr))

\* The place of a sector in its cluster.
Csect(f) == (f.fptr \div SS) % fs.csize

\* The cluster of the file pointer, which is at the top of a sector.
ClusterAt(f, win, bad) ==
  CASE Csect(f) # 0 -> [val |-> f.clust, win |-> win]
    [] Csect(f) = 0 /\ f.fptr = 0 -> [val |-> f.sclust, win |-> win]
    [] OTHER -> get_fat(f.clust, win, bad)

(* The loop of f_read: whole sectors go to the caller's buffer, as many as *)
(* are left in the cluster; parts of a sector come from the file object's  *)
(* own buffer, which is filled when the sector is not there already.       *)
RECURSIVE Reading(_, _, _, _, _)
FromSector(f, sect, cc, btr, data, win, bad) ==
  IF cc > 0
    THEN IF disk_read(sect, cc, bad)
           THEN Reading([f EXCEPT !.fptr = @ + SS * cc], btr - SS * cc,
                        data \o Transferred(sect, cc), win, bad)
           ELSE Abort(f, "DISK_ERR", win)
  ELSE IF f.sect # sect /\ ~ disk_read(sect, 1, bad) THEN Abort(f, "DISK_ERR", win)
  ELSE LET loaded == [f EXCEPT !.sect = sect, !.buf = IF f.sect = sect THEN @ ELSE sect]
       IN  Reading([loaded EXCEPT !.fptr = @ + Rcnt(f, btr)], btr - Rcnt(f, btr),
                   data \o Piece(loaded, btr), win, bad)
FromCluster(f, g, btr, data, bad) ==
  IF g.val < 2 THEN Abort(f, "INT_ERR", g.win)
  ELSE IF g.val = Invalid THEN Abort(f, "DISK_ERR", g.win)
  ELSE IF clst2sect(g.val) = 0 THEN Abort([f EXCEPT !.clust = g.val], "INT_ERR", g.win)
  ELSE FromSector([f EXCEPT !.clust = g.val], clst2sect(g.val) + Csect(f),
                  Min({btr \div SS, fs.csize - Csect(f)}), btr, data, g.win, bad)
Reading(f, btr, data, win, bad) ==
  IF btr = 0 THEN [f |-> f, res |-> "OK", win |-> win, data |-> data]
  ELSE IF f.fptr % SS = 0
    THEN FromCluster(f, ClusterAt(f, win, bad), btr, data, bad)
    ELSE Reading([f EXCEPT !.fptr = @ + Rcnt(f, btr)], btr - Rcnt(f, btr),
                 data \o Piece(f, btr), win, bad)

f_read(h, n, bad) ==
  LET f == fil[h] IN
  /\ Mounted /\ f.open
  /\ Faults(bad)
  /\ \E r \in {IF f.err # "OK" THEN Abort(f, f.err, winsect)
               ELSE Reading(f, Min({n, f.size - f.fptr}), << >>, winsect, bad)} :
       /\ fil' = [fil EXCEPT ![h] = [r.f EXCEPT !.want = @ + Len(r.data)]]
       /\ winsect' = r.win
       /\ last' = [call |-> "read", path |-> f.path, pos |-> f.want, n |-> n,
                   err |-> f.err, res |-> r.res, data |-> r.data, faulty |-> bad # {}]
  /\ UNCHANGED <<opens, fs, dir>>

BytesPerCluster == fs.csize * SS

\* The loop of f_lseek over whole clusters; ofs is what is left of the way.
RECURSIVE Seeking(_, _, _, _)
SeekOn(f, ofs, g, bad) ==
  IF g.val = Invalid THEN Abort(f, "DISK_ERR", g.win) @@ [ofs |-> ofs]
  ELSE IF g.val <= 1 \/ g.val >= fs.n_fatent THEN Abort(f, "INT_ERR", g.win) @@ [ofs |-> ofs]
  ELSE Seeking([f EXCEPT !.clust = g.val], ofs, g.win, bad)
Seeking(f, ofs, win, bad) ==
  IF ofs <= BytesPerCluster THEN [f |-> f, res |-> "OK", win |-> win, ofs |-> ofs]
  ELSE SeekOn([f EXCEPT !.fptr = @ + BytesPerCluster], ofs - BytesPerCluster,
              get_fat(f.clust, win, bad), bad)

\* The sector of the new position is loaded, unless it is there already.
SoughtSector(f, nsect, win, bad) ==
  IF f.fptr % SS = 0 \/ nsect = f.sect THEN [f |-> f, res |-> "OK", win |-> win]
  ELSE IF disk_read(nsect, 1, bad)
    THEN [f |-> [f EXCEPT !.sect = nsect, !.buf = nsect], res |-> "OK", win |-> win]
    ELSE Abort(f, "DISK_ERR", win)

SoughtCluster(s, bad) ==
  IF s.res # "OK" THEN s
  ELSE IF s.ofs % SS # 0 /\ clst2sect(s.f.clust) = 0
    THEN Abort([s.f EXCEPT !.fptr = @ + s.ofs], "INT_ERR", s.win)
  ELSE SoughtSector([s.f EXCEPT !.fptr = @ + s.ofs],
                    clst2sect(s.f.clust) + (s.ofs \div SS), s.win, bad)

(* The cluster chain is followed from the current cluster, or from the     *)
(* first one when the new position lies before it.                         *)
Sought(f, ofs, bad) ==
  LET forward == /\ f.fptr > 0
                 /\ (ofs - 1) \div BytesPerCluster >= (f.fptr - 1) \div BytesPerCluster
      base == IF forward THEN ((f.fptr - 1) \div BytesPerCluster) * BytesPerCluster ELSE 0
      start == [f EXCEPT !.fptr = base, !.clust = IF forward THEN @ ELSE f.sclust]
  IN  IF ofs = 0 THEN [f |-> [f EXCEPT !.fptr = 0], res |-> "OK", win |-> winsect]
      ELSE IF start.clust = 0 THEN [f |-> start, res |-> "OK", win |-> winsect]
      ELSE SoughtCluster(Seeking(start, ofs - base, winsect, bad), bad)

f_lseek(h, ofs, bad) ==
  LET f == fil[h]
      to == Min({ofs, f.size})
  IN
  /\ Mounted /\ f.open
  /\ Faults(bad)
  /\ \E r \in {IF f.err # "OK" THEN Abort(f, f.err, winsect) ELSE Sought(f, to, bad)} :
       /\ fil' = [fil EXCEPT ![h] = [r.f EXCEPT !.want = to]]
       /\ winsect' = r.win
       /\ last' = [call |-> "lseek", path |-> f.path, err |-> f.err, res |-> r.res,
                   faulty |-> bad # {}]
  /\ UNCHANGED <<opens, fs, dir>>

f_close(h) ==
  /\ Mounted /\ fil[h].open
  /\ Faults({})
  /\ fil' = [fil EXCEPT ![h] = NoFile]
  /\ last' = [call |-> "close"]
  /\ UNCHANGED <<opens, fs, winsect, dir>>

\* What f_opendir makes of the object found: a DIR at its first entry.
DirFound(d) ==
  LET first == IF d.noname THEN d ELSE dir_sdi([d EXCEPT !.sclust = Entry(d).clust])
  IN  IF d.res # "OK"
        THEN [res |-> IF d.res = "NO_FILE" THEN "NO_PATH" ELSE d.res, win |-> d.win]
      ELSE IF d.noname \/ Entry(d).dir THEN [res |-> first.res, win |-> d.win, d |-> first]
      ELSE [res |-> "NO_PATH", win |-> d.win]

DirOpened(ld, echo, bad) ==
  IF ld.res = "OK" THEN DirFound(follow_path(ld.path, echo, bad))
                   ELSE [res |-> ld.res, win |-> winsect]

f_opendir(path, echo, bad) ==
  /\ Mounted /\ ~ dir.open
  /\ Faults(bad) /\ Counted
  /\ \E r \in {DirOpened(get_ldnumber(path), echo, bad)} :
       /\ dir' = IF r.res # "OK" THEN NoDir
                 ELSE [open |-> TRUE, d |-> r.d, path |-> path, listed |-> << >>,
                       over |-> FALSE, failed |-> FALSE]
       /\ winsect' = r.win
       /\ last' = [call |-> "opendir", path |-> path, res |-> r.res, faulty |-> bad # {}]
  /\ UNCHANGED <<fs, fil>>

\* The entry read, if any, and the step behind it.
Listed(r, bad) ==
  IF r.d.sect = 0 THEN [d |-> r.d, names |-> << >>]
  ELSE [d |-> dir_next(r.d, bad), names |-> <<get_fileinfo(Entry(r.d), r.lfn)>>]

f_readdir(bad) ==
  /\ Mounted /\ dir.open /\ Len(dir.listed) < MaxListed
  /\ Faults(bad)
  /\ \E r \in {Listed(dir_read([dir.d EXCEPT !.win = winsect], bad), bad)} :
       LET res == IF r.d.res = "NO_FILE" THEN "OK" ELSE r.d.res
       IN  /\ dir' = [dir EXCEPT !.d = r.d, !.listed = @ \o r.names,
                                 !.over = @ \/ (r.names = << >> /\ res = "OK"),
                                 !.failed = @ \/ res # "OK"]
           /\ winsect' = r.d.win
           /\ last' = [call |-> "readdir", path |-> dir.path, res |-> res,
                       faulty |-> bad # {}]
  /\ UNCHANGED <<opens, fs, fil>>

f_closedir ==
  /\ Mounted /\ dir.open
  /\ Faults({})
  /\ dir' = NoDir
  /\ last' = [call |-> "closedir"]
  /\ UNCHANGED <<opens, fs, winsect, fil>>

\* Sectors whose failure can be told apart: those that hold something.
Failures == {{}} \cup {{s} : s \in vol.failing}

Next ==
  \/ \E bad \in Failures : f_mount(bad)
  \/ \E h \in Handles, p \in Paths, echo \in BOOLEAN, bad \in Failures : f_open(h, p, echo, bad)
  \/ \E h \in Handles, n \in Lengths, bad \in Failures : f_read(h, n, bad)
  \/ \E h \in Handles, ofs \in Offsets, bad \in Failures : f_lseek(h, ofs, bad)
  \/ \E h \in Handles : f_close(h)
  \/ \E p \in DirPaths, echo \in BOOLEAN, bad \in Failures : f_opendir(p, echo, bad)
  \/ \E bad \in Failures : f_readdir(bad)
  \/ f_closedir

Spec == Init /\ [][Next]_vars

-----------------------------------------------------------------------------
(* What a volume is meant to hold: vol.root is a tree of nodes, each with    *)
(* its name, its short name as it is displayed, its first cluster, and its *)
(* entries or its bytes.                                                   *)

RECURSIVE Segments(_)
Segments(path) ==
  LET seps == {i \in DOMAIN path : path[i] \in Separators}
      rest == {i \in DOMAIN path : path[i] \notin Separators /\ i > Min(seps)}
  IN  IF seps = {} THEN <<path>>
      ELSE <<SubSeq(path, 1, Min(seps) - 1)>>
             \o Segments(IF rest = {} THEN << >> ELSE SubSeq(path, Min(rest), Len(path)))

Uppers(s) == [i \in DOMAIN s |-> Upper(s[i])]

Matches(node, seg) == Uppers(Trimmed(seg)) \in {Uppers(node.name), node.short}

RECURSIVE Named(_, _)
Named(node, segs) ==
  LET seg == Head(segs)
      hits == {i \in DOMAIN node.entries : Matches(node.entries[i], seg)}
      hit == node.entries[Min(hits)]
  IN  IF \/ Range(seg) \cap Illegal # {} \/ Trimmed(seg) = << >> \/ Len(seg) > FF_MAX_LFN
        THEN [res |-> "INVALID_NAME"]
      ELSE IF hits = {} THEN [res |-> IF Len(segs) = 1 THEN "NO_FILE" ELSE "NO_PATH"]
      ELSE IF Len(segs) = 1 THEN [res |-> "OK", node |-> hit]
      ELSE IF hit.dir THEN Named(hit, Tail(segs)) ELSE [res |-> "NO_PATH"]

\* The node of a path.
Meant(path) ==
  LET colons == {i \in DOMAIN path : path[i] = 58}
      p == IF colons = {} THEN path ELSE SubSeq(path, 3, Len(path))
      start == {i \in DOMAIN p : p[i] \notin Separators}
  IN  IF colons # {} /\ (Min(colons) # 2 \/ path[1] # 48) THEN [res |-> "INVALID_DRIVE"]
      ELSE IF start = {} THEN [res |-> "OK", node |-> vol.root]
      ELSE Named(vol.root, Segments(SubSeq(p, Min(start), Len(p))))

MeantOpen(path) ==
  LET m == Meant(path)
  IN  CASE m.res # "OK" -> m.res
        [] m.res = "OK" /\ m.node = vol.root -> "INVALID_NAME"
        [] OTHER -> IF m.node.dir THEN "NO_FILE" ELSE "OK"

MeantOpenDir(path) ==
  LET m == Meant(path)
  IN  CASE m.res \notin {"OK", "NO_FILE"} -> m.res
        [] m.res = "NO_FILE" -> "NO_PATH"
        [] OTHER -> IF m.node.dir THEN "OK" ELSE "NO_PATH"

(* Every file is found under its long and its short name, in whatever case *)
(* and through whatever directories, and nothing else is: entries of       *)
(* deleted files, long names that belong to no file, labels and the        *)
(* uninitialised end of the name buffer do not get in the way, and a       *)
(* sector that cannot be read is never reported as a file that does not    *)
(* exist.  A directory lists its files in order, each once, up to the end  *)
(* (find_volume, follow_path, dir_find, dir_read).                         *)
FilesAreFound ==
  /\ last.call = "mount" =>
       last.res \in {IF vol.sound THEN "OK" ELSE "NO_FILESYSTEM"}
                      \cup (IF ~ last.faulty THEN {} ELSE {"DISK_ERR", "NO_FILESYSTEM"})
  /\ last.call = "open" =>
       \/ last.res = MeantOpen(last.path)
       \/ last.res = "DISK_ERR" /\ last.faulty
  /\ last.call = "opendir" =>
       \/ last.res = MeantOpenDir(last.path)
       \/ last.res = "DISK_ERR" /\ last.faulty
  /\ \A h \in Handles : fil[h].open =>
       LET node == Meant(fil[h].path).node
       IN  fil[h].sclust = node.clust /\ fil[h].size = Len(node.bytes)
  /\ (dir.open /\ ~ dir.failed) =>
       LET entries == Meant(dir.path).node.entries
           names == [i \in DOMAIN entries |-> entries[i].name]
       IN  IF dir.over THEN dir.listed = names ELSE IsPrefix(dir.listed, names)

(* A read returns the bytes of the file from where the last one ended or   *)
(* from where a seek went, up to the end of the file, across fragments of  *)
(* any shape.  Only the sectors after the first one of a transfer of       *)
(* several sectors are not filled in (diskio.c:68).  A read fails only     *)
(* when a sector failed in it or in an earlier call on the file, when the  *)
(* chain of the file is too short for its size, or when it is for more     *)
(* sectors than diskio.c:62 lets through at once (f_read, f_lseek).        *)
ReadsTheFile ==
  last.call \in {"read", "lseek"} =>
    LET node == Meant(last.path).node
        left == Max({0, Len(node.bytes) - last.pos})
    IN  IF last.res # "OK"
          THEN \/ last.faulty \/ last.err # "OK" \/ node.damaged
               \/ last.call = "read" /\ last.n \div SS > MAX_COUNT
        ELSE last.call = "read" =>
          /\ Len(last.data) = Min({last.n, left})
          /\ \A i \in DOMAIN last.data :
               LET pos == last.pos + i - 1
               IN  \/ last.data[i] = node.bytes[pos + 1]
                   \/ /\ last.data[i] = 256
                      /\ (pos \div SS) % fs.csize # 0
                      /\ pos \div SS > (last.pos + SS - 1) \div SS

=============================================================================
