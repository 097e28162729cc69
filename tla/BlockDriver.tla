---------------------------- MODULE BlockDriver ----------------------------
(***************************************************************************)
(* The reads of userland/blk/blockdrv.c.  perform_read issues one command  *)
(* to the drive at a time, and the drive may give up after any sector.     *)
(***************************************************************************)
EXTENDS Integers, Sequences, FiniteSetsExt

CONSTANTS
    SECTOR_SIZE,
    Device,         \* the bytes on the drive
    Junk            \* what memory fresh from malloc holds

ASSUME DeviceAssumption == SECTOR_SIZE \in Nat \ {0} /\ Len(Device) % SECTOR_SIZE = 0

VARIABLE
    io              \* the read in progress: its stage, the offset, count, room left in
                    \* the buffer, bytes stored, and the bytes skipped as though read

Idle == [stage |-> "idle", off |-> 0, count |-> 0, room |-> 0, buf |-> << >>, ret |-> 0, unread |-> {}]
maxlba28 == Len(Device) \div SECTOR_SIZE
Bytes(from, n) == SubSeq(Device, from + 1, from + n)

(* The outcomes of ata_read_lba28: how many of the sectors it transferred. *)
ata_read_lba28(size, sectors, sector) ==
    IF size < SECTOR_SIZE * sectors THEN {-1}
    ELSE {0} \cup {n \in 1 .. sectors : sector + n <= maxlba28}

(* What the next command of the loop of perform_read is.                   *)
Stage(off, count) ==
    IF count = 0 THEN "finished"
    ELSE IF off % SECTOR_SIZE # 0 \/ count < SECTOR_SIZE THEN "part" ELSE "whole"

perform_read(size, off) ==
    LET count == Min({size, Len(Device) - off})
    IN io' = IF size = 0 THEN [Idle EXCEPT !.stage = "finished", !.ret = -1]
             ELSE IF off < 0 \/ off >= Len(Device) THEN [Idle EXCEPT !.stage = "finished"]
             ELSE [Idle EXCEPT !.stage = Stage(off, count), !.off = off, !.count = count, !.room = size]

Stop == io' = [io EXCEPT !.stage = "finished"]

Advance(bytes, skipped, stage) ==
    io' = [io EXCEPT !.stage = stage, !.off = @ + Len(bytes), !.count = @ - Len(bytes),
                     !.room = @ - Len(bytes), !.buf = @ \o bytes, !.ret = @ + Len(bytes),
                     !.unread = @ \cup skipped]

(* Part of a sector, through a buffer on the stack.  Whole sectors follow  *)
(* in the same turn of the loop when enough is left.                       *)
read_part ==
    /\ io.stage = "part"
    /\ LET within == io.off % SECTOR_SIZE
           n == Min({SECTOR_SIZE - within, io.room, io.count})
       IN \E got \in ata_read_lba28(SECTOR_SIZE, 1, io.off \div SECTOR_SIZE) :
            IF got # 1 THEN Stop
            ELSE Advance(Bytes(io.off, n), {},
                         IF io.count - n >= SECTOR_SIZE THEN "whole" ELSE Stage(io.off + n, io.count - n))

(* Faulty: the offset is rounded up to the next sector. *)
read_whole_up ==
    /\ io.stage = "whole"
    /\ LET sectors == io.count \div SECTOR_SIZE
           start == Min({io.off \div SECTOR_SIZE + 1, maxlba28 - sectors})
       IN \E got \in ata_read_lba28(io.room, sectors, start) :
            IF got <= 0 THEN Stop
            ELSE LET bytes == Bytes(start * SECTOR_SIZE, got * SECTOR_SIZE)
                              \o [i \in 1 .. (sectors - got) * SECTOR_SIZE |-> Junk]
                 IN Advance(bytes, {}, Stage(io.off + Len(bytes), io.count - Len(bytes)))

(* Whole sectors, straight into the caller's buffer.  After a transfer     *)
(* that stops early all of them are counted as read.                       *)
read_whole ==
    /\ io.stage = "whole"
    /\ LET sectors == io.count \div SECTOR_SIZE
           start == io.off \div SECTOR_SIZE
       IN \E got \in ata_read_lba28(io.room, sectors, start) :
            IF got <= 0 THEN Stop
            ELSE LET bytes == Bytes(start * SECTOR_SIZE, got * SECTOR_SIZE)
                              \o [i \in 1 .. (sectors - got) * SECTOR_SIZE |-> Junk]
                 IN Advance(bytes, Len(io.buf) + got * SECTOR_SIZE + 1 .. Len(io.buf) + Len(bytes),
                            Stage(io.off + Len(bytes), io.count - Len(bytes)))

(* handle_blkimpl_read_sector.                                             *)
read_sector(size, sector) ==
    \E got \in ata_read_lba28(size, 1, sector) :
        io' = IF size < SECTOR_SIZE \/ got # 1 THEN [Idle EXCEPT !.stage = "finished", !.ret = -1]
              ELSE [Idle EXCEPT !.stage = "finished", !.buf = Bytes(sector * SECTOR_SIZE, SECTOR_SIZE)]
=============================================================================
