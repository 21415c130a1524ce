----------------------------- MODULE Installer -----------------------------
(***************************************************************************)
(* `limine bios-install` (boot/limine/limine.c): the one-block cache over  *)
(* the device, the log of what every write replaced, the install onto an   *)
(* MBR or a GPT disk, the roll-back of an install that fails, and          *)
(* `--uninstall` from the stored log.  The tool is sequential; what it     *)
(* meets is a device that fails: a block that is not read, or one that is  *)
(* not written.  The device is a stdio stream: the fwrite of a block may   *)
(* fail, or only fill the stream's buffer, to be written when the stream   *)
(* is moved to another block or closed.                                    *)
(*                                                                         *)
(* The device is a row of cells, BLOCK of them to a block.  A cell is a    *)
(* field the tool tells apart: block 0 holds the file system hint, the     *)
(* time stamp, the four fields that locate stage 2 and, per partition, the *)
(* active flag and the start.  A GPT header is five cells, an entry ENTRY. *)
(* Logical and physical blocks have the same size.                         *)
(***************************************************************************)
EXTENDS Integers, SequencesExt

CONSTANTS BLOCK, NBLOCKS,          \* cells of a block, blocks of the device
          NPARTS,                  \* partitions of an MBR (4)
          ENTRY,                   \* cells of a GPT entry
          ARRAY_BLOCKS,            \* blocks of a GPT entry array (32)
          STAGE2_A, STAGE2_B,      \* cells of the halves of stage 2
          UNINSTALL_DATA_MAX,      \* entries of the log
          EXT, GUESS2,             \* cells probed for ext and for a 4 KiB GPT
          Devices,                 \* what the device may hold
          Options,                 \* command lines: [force, part]
          MAX_FAULTS               \* bound: device errors

ASSUME InstallerAssumption ==
  /\ {BLOCK, NBLOCKS, NPARTS, ENTRY, STAGE2_A, STAGE2_B} \subseteq Nat \ {0}
  /\ BLOCK = 6 + 2 * NPARTS /\ BLOCK % ENTRY = 0
  /\ UNINSTALL_DATA_MAX \in Nat /\ MAX_FAULTS \in Nat

VARIABLES device,    \* blocks of the device
          cache,     \* cached_block, cache, cache_state
          log,       \* uninstall_data[0 .. uninstall_data_i - 1]
          file,      \* the stored log, or NoFile
          run,       \* "idle", "install", "undo" or "done"
          prog, ip,  \* what is left to do, as reads and writes
          at,        \* where the current one is: phase, progress, data read
          buf,       \* data read that a later write uses
          res,       \* what the tool returned and what uninstall() reported
          faults,
          before,    \* history: the device before the install
          torn,      \* history: cells of a write that failed half way
          adrift     \* history: cells of blocks the stream took and did not write

vars == <<device, cache, log, file, run, prog, ip, at, buf, res, faults, before, torn, adrift>>

-----------------------------------------------------------------------------
(* The device as cells. *)

Cell(d, c) == d[c \div BLOCK][(c % BLOCK) + 1]
Cells(d, loc, n) == [k \in 1..n |-> Cell(d, loc + k - 1)]
Boot == 9                                \* a cell of the boot loader's image
Image(n) == [k \in 1..n |-> Boot]

FS == 0
STAMP == 1
SIZE_A == 2
TABLE == 6                               \* the partition table, to the block's end
Active(k) == TABLE + 2 * (k - 1)
Start(k) == Active(k) + 1
Table == 1..NPARTS
HEADER == BLOCK                          \* sizeof(struct gpt_table_header) = 5 cells

-----------------------------------------------------------------------------
(* What an install does: reads, writes, and writes of what was read. *)

Op(k, loc, len, data, reg) == [k |-> k, loc |-> loc, len |-> len, data |-> data, reg |-> reg]
device_read(loc, n) == Op("read", loc, n, <<>>, "none")
device_save(loc, n, reg) == Op("read", loc, n, <<>>, reg)
device_write(loc, data) == Op("write", loc, Len(data), data, "none")
write_back(loc, n, reg) == Op("back", loc, n, <<>>, reg)
write_header(loc, head) == Op("header", loc, 5, head, "array")
Refuse == Op("refuse", 0, 0, <<>>, "none")
Complete == Op("flush", 0, 0, <<>>, "none")

If(b, s) == IF b THEN s ELSE <<>>

(* An active flag that is neither 0x00 nor 0x80 is 2 or 3 here; `& 0x80`. *)
Invalid(flag) == flag > 1
Masked(flag) == flag % 2
TooLow(start) == start = 1               \* used, and before sector 63

check_partition(d, o, k) ==
  <<device_read(Active(k), 1)>>
  \o If(Invalid(Cell(d, Active(k))) /\ o.force, <<device_write(Active(k), <<Masked(Cell(d, Active(k)))>>)>>)
  \o <<device_read(Start(k), 1)>>
  \o If(TooLow(Cell(d, Start(k))), <<Refuse>>)

check_hint(d, o, c) == <<device_read(c, 1)>> \o If(Cell(d, c) # 0 /\ o.force, <<device_write(c, <<0>>)>>)

MbrValid(d) == /\ \A k \in Table : ~Invalid(Cell(d, Active(k)))
               /\ Cell(d, FS) = 0 /\ Cell(d, EXT) = 0
AnyActive(d) == \E k \in Table : Masked(Cell(d, Active(k))) = 1

mbr_checks(d, o) ==
  FlattenSeq([k \in Table |-> check_partition(d, o, k)])
  \o check_hint(d, o, FS) \o check_hint(d, o, EXT)
  \o If((o.force \/ MbrValid(d)) /\ ~AnyActive(d), <<device_write(Active(1), <<1>>)>>)
  \o If(~o.force /\ ~MbrValid(d), <<Refuse>>)

(* A GPT header: signature, block of the entries, their number, their crc, *)
(* block of the other header.                                              *)
Header(d, blk) == Cells(d, blk * BLOCK, 5)
IsGpt(h) == h[1] = 1
EntryLoc(h, i) == h[2] * BLOCK + i * ENTRY
EntryUsed(d, h, i) == Cell(d, EntryLoc(h, i)) # 0
crc32(s) == FoldLeft(LAMBDA r, x : (r * 11 + x + 1) % 9973, 0, s)

AlignDown(x) == x - (x % BLOCK)
AlignUp(x) == IF x % BLOCK = 0 THEN x ELSE AlignDown(x + BLOCK)

(* Where the halves of stage 2 go. *)
Embedded(h, size) == AlignDown((h[2] + ARRAY_BLOCKS) * BLOCK - size)
InPartition(d, h, o) == Cell(d, EntryLoc(h, o.part - 1) + 1) * BLOCK
stage2_loc_a(d, o) ==
  LET h == Header(d, 1) IN
  IF ~IsGpt(h) THEN BLOCK
  ELSE IF o.part # 0 THEN InPartition(d, h, o) ELSE Embedded(h, STAGE2_A)
stage2_loc_b(d, o) ==
  LET h == Header(d, 1) IN
  IF ~IsGpt(h) THEN BLOCK + STAGE2_A
  ELSE IF o.part # 0 THEN AlignUp(InPartition(d, h, o) + STAGE2_A)
  ELSE Embedded(Header(d, h[5]), STAGE2_B)

gpt_partition(d, h, o) ==
  IF o.part - 1 > h[3] THEN <<Refuse>>
  ELSE <<device_read(EntryLoc(h, o.part - 1), ENTRY)>>
       \o If(~EntryUsed(d, h, o.part - 1), <<Refuse>>)

NewCount(h) == (Embedded(h, STAGE2_A) \div BLOCK - h[2]) * (BLOCK \div ENTRY)
MaxUsed(d, h) == Max({-1} \cup {i \in 0..(h[3] - 1) : EntryUsed(d, h, i)})
clear_entries(h, from, to) ==
  [i \in 1..(to - from) |-> device_write(EntryLoc(h, from + i - 1), [c \in 1..ENTRY |-> 0])]
resize(h, n) == [h EXCEPT ![3] = n]

gpt_embed(d, h, h2) ==
  [i \in 1..h[3] |-> device_read(EntryLoc(h, i - 1), ENTRY)]
  \o (IF NewCount(h) <= MaxUsed(d, h) THEN <<Refuse>>
      ELSE clear_entries(h, MaxUsed(d, h) + 1, NewCount(h))
           \o clear_entries(h2, MaxUsed(d, h) + 1, NewCount(h))
           \o <<device_save(EntryLoc(h, 0), NewCount(h) * ENTRY, "array"),
                write_header(HEADER, resize(h, NewCount(h))),
                write_header(h[5] * BLOCK, resize(h2, NewCount(h)))>>)

gpt_checks(d, o) ==
  LET h == Header(d, 1)
      h2 == Header(d, h[5])
  IN  <<device_read(h[5] * BLOCK, 5)>>
      \o (IF ~IsGpt(h2) THEN <<Refuse>>
          ELSE IF o.part # 0 THEN gpt_partition(d, h, o)
          ELSE gpt_embed(d, h, h2))

TableEnd_one == TABLE + 2
TableEnd == BLOCK

write_stages(d, o) ==
  << device_save(STAMP, 1, "stamp"),
     device_save(TABLE, BLOCK - TABLE, "table"),
     device_write(0, Image(BLOCK)),
     device_write(stage2_loc_a(d, o), Image(STAGE2_A)),
     device_write(stage2_loc_b(d, o), Image(STAGE2_B)),
     device_write(SIZE_A, <<STAGE2_A>>),
     device_write(SIZE_A + 1, <<STAGE2_B>>),
     device_write(SIZE_A + 2, <<stage2_loc_a(d, o)>>),
     device_write(SIZE_A + 3, <<stage2_loc_b(d, o)>>),
     write_back(STAMP, 1, "stamp"),
     write_back(TABLE, TableEnd - TABLE, "table"),
     Complete >>

Program(d, o) ==
  <<device_read(HEADER, 5)>>
  \o (IF IsGpt(Header(d, 1))
      THEN IF o.force THEN <<Refuse>> ELSE gpt_checks(d, o)
      ELSE <<device_read(GUESS2, 5)>> \o mbr_checks(d, o))
  \o write_stages(d, o)

-----------------------------------------------------------------------------
(* The cache. *)

NoBlock == -1
Empty == [block |-> NoBlock, data |-> <<>>, dirty |-> FALSE]
Flushed == IF cache.dirty THEN [device EXCEPT ![cache.block] = cache.data] ELSE device
Junk == [k \in 1..BLOCK |-> -9]

Faults(n) == faults + n <= MAX_FAULTS /\ faults' = faults + n
Fault == Faults(1)

(* The stream took the cached block, which is clean from then on, and it   *)
(* does not reach the device.                                              *)
Dropped ==
  /\ cache.dirty /\ UNCHANGED device
  /\ adrift' = adrift \cup {cache.block * BLOCK + k : k \in 0..(BLOCK - 1)}

(* The cache after block b has been asked for, on the device as flushed. *)
device_cache_block(b) == IF cache.block = b THEN cache
                         ELSE [block |-> b, data |-> Flushed[b], dirty |-> FALSE]
AfterCaching(b) == IF cache.block = b THEN device ELSE Flushed

(* Asking for block b fails: the old block is not written out, in fwrite   *)
(* or on the way to the new one, or it is and the new one is not read,     *)
(* which leaves the buffer undefined.                                      *)
CachingFails(b) ==
  /\ cache.block # b
  /\ Fault
  /\ \/ cache.dirty /\ device' \in {device, Flushed} /\ UNCHANGED <<cache, adrift>>
     \/ Dropped /\ cache' = [cache EXCEPT !.dirty = FALSE]
     \/ device' = Flushed /\ cache' = [cache EXCEPT !.data = Junk, !.dirty = FALSE] /\ UNCHANGED adrift

-----------------------------------------------------------------------------
(* One block of a read or a write.  A write of an install first reads what *)
(* it will replace; the log takes it when the whole write is in the cache. *)

Running == run \in {"install", "undo"} /\ ip <= Len(prog)
Now == prog[ip]
Reads(i) == i.k = "read"
Writes(i) == i.k \in {"write", "back", "header"}
DataOf(i) == IF i.k = "write" THEN i.data
             ELSE IF i.k = "back" THEN SubSeq(buf[i.reg], 1, i.len)
             ELSE [i.data EXCEPT ![4] = crc32(buf.array)]

Fresh == [phase |-> "start", done |-> 0, got |-> <<>>, retry |-> FALSE]
Goto(n) == ip' = n /\ at' = Fresh

Where == Now.loc + at.done
Offset == Where % BLOCK
Block == Where \div BLOCK
Chunk == Min({Now.len - at.done, BLOCK - Offset})

Reading == Reads(Now) \/ (Writes(Now) /\ run = "install" /\ at.phase = "start")

do_device_read ==
  /\ Running /\ Reading
  /\ Writes(Now) => Len(log) < UNINSTALL_DATA_MAX
  /\ cache' = device_cache_block(Block) /\ device' = AfterCaching(Block)
  /\ \E got \in {at.got \o SubSeq(cache'.data, Offset + 1, Offset + Chunk)} :
       IF at.done + Chunk < Now.len
       THEN at' = [at EXCEPT !.done = @ + Chunk, !.got = got] /\ UNCHANGED <<ip, buf>>
       ELSE IF Reads(Now)
       THEN Goto(ip + 1) /\ buf' = [buf EXCEPT ![Now.reg] = got]
       ELSE at' = [at EXCEPT !.phase = "move", !.done = 0, !.got = got] /\ UNCHANGED <<ip, buf>>
  /\ UNCHANGED <<log, file, run, prog, res, faults, before, torn, adrift>>

Patch(data, off, s) == [k \in 1..BLOCK |-> IF k > off /\ k <= off + Len(s) THEN s[k - off] ELSE data[k]]

do_device_write ==
  /\ Running /\ Writes(Now) /\ ~Reading
  /\ \E c \in {device_cache_block(Block)}, s \in {SubSeq(DataOf(Now), at.done + 1, at.done + Chunk)} :
       cache' = [c EXCEPT !.data = Patch(@, Offset, s), !.dirty = TRUE]
  /\ device' = AfterCaching(Block)
  /\ IF at.done + Chunk < Now.len
     THEN at' = [at EXCEPT !.done = @ + Chunk] /\ UNCHANGED <<ip, log>>
     ELSE /\ Goto(ip + 1)
          /\ log' = IF run = "install" THEN Append(log, [loc |-> Now.loc, data |-> at.got]) ELSE log
  /\ UNCHANGED <<file, run, prog, buf, res, faults, before, torn, adrift>>

-----------------------------------------------------------------------------
(* The end of an install, and uninstall(). *)

reverse_uninstall_data_not(l) == l
reverse_uninstall_data(l) == Reverse(l)

Restores(l) == [k \in 1..Len(l) |-> device_write(l[k].loc, l[k].data)]

(* uninstall() drops what the cache holds and writes the log's entries. *)
uninstall(l) ==
  /\ run' = "undo" /\ prog' = Restores(l) /\ log' = l
  /\ cache' = Empty /\ Goto(1)

cleanup ==
  /\ uninstall(reverse_uninstall_data(log))
  /\ UNCHANGED <<file, buf, res, before, adrift>>

(* A read or a write of the install fails, or the tool refuses the disk. *)
install_io_fails ==
  /\ run = "install" /\ (Reads(Now) \/ Writes(Now))
  /\ \E b \in {Block} :
       /\ cache.block # b /\ Fault
       /\ device' \in {Flushed} \cup (IF cache.dirty THEN {device} ELSE {})
  /\ torn' = IF ~Reading THEN {Now.loc + k : k \in 0..(at.done - 1)} ELSE {}
  /\ cleanup

install_refuses ==
  /\ run = "install"
  /\ Now.k = "refuse" \/ (Writes(Now) /\ at = Fresh /\ Len(log) >= UNINSTALL_DATA_MAX)
  /\ cleanup
  /\ UNCHANGED <<device, faults, torn>>

install_flush_fails ==
  /\ run = "install" /\ Now.k = "flush"
  /\ cache.dirty /\ Fault /\ device' \in {device, Flushed}
  /\ cleanup
  /\ UNCHANGED torn

(* A log that could not be stored whole is one that cannot be loaded. *)
store_uninstall_data(l, ok) == file' = IF ok THEN <<l>> ELSE file

(* What fclose(device) does with a block the stream still holds; nobody    *)
(* asks whether it could.                                                  *)
Closed(ok) == IF ok THEN device' = Flushed /\ UNCHANGED adrift ELSE Dropped

Failures(ok, ok2) == (IF ok THEN 0 ELSE 1) + (IF ok2 THEN 0 ELSE 1)

(* Success: the log is reversed and stored, if it can be. *)
install_done ==
  /\ run = "install" /\ Now.k = "flush"
  /\ run' = "done" /\ res' = [res EXCEPT !.ok = TRUE]
  /\ cache' = [cache EXCEPT !.dirty = FALSE]
  /\ log' = reverse_uninstall_data(log)
  /\ \E stored, closed \in BOOLEAN :
       /\ Faults(Failures(stored, closed))
       /\ store_uninstall_data(log', stored)
       /\ Closed(closed)
  /\ UNCHANGED <<prog, ip, at, buf, before, torn>>

(* An entry fails to be written back: what the cache holds is flushed (a   *)
(* block that could not be written is tried again) and forgotten, and the  *)
(* entry is tried again; the second time it is given up.  A block that the *)
(* stream has dropped is clean: it is not tried again, nor reported.       *)
undo_retries ==
  /\ run = "undo" /\ ip <= Len(prog) /\ ~at.retry /\ cache.block # Block
  /\ cache' = Empty /\ at' = [Fresh EXCEPT !.retry = TRUE]
  /\ \/ Fault /\ device' = Flushed /\ UNCHANGED <<res, adrift>>
     \/ Fault /\ Dropped /\ UNCHANGED res
     \/ /\ cache.dirty /\ Faults(2) /\ device' \in {device, Flushed} /\ UNCHANGED adrift
        /\ res' = [res EXCEPT !.flush_failed = TRUE]
  /\ UNCHANGED <<log, file, run, prog, ip, buf, before, torn>>

(* The flush before the second attempt may only fill the buffer, and the   *)
(* second attempt fails because of that.                                   *)
undo_gives_up ==
  /\ run = "undo" /\ ip <= Len(prog)
  /\ \/ at.retry /\ CachingFails(Block)
     \/ ~at.retry /\ cache.block # Block /\ Faults(2) /\ Dropped /\ cache' = Empty
  /\ res' = [res EXCEPT !.write_failed = TRUE] /\ Goto(ip + 1)
  /\ UNCHANGED <<log, file, run, prog, buf, before, torn>>

undo_done ==
  /\ run = "undo" /\ ip > Len(prog)
  /\ run' = "done"
  /\ \/ Closed(TRUE) /\ UNCHANGED <<faults, res>>
     \/ Closed(FALSE) /\ Fault /\ UNCHANGED res
     \/ /\ cache.dirty /\ Fault /\ device' \in {device, Flushed} /\ UNCHANGED adrift
        /\ res' = [res EXCEPT !.flush_failed = TRUE]
  /\ UNCHANGED <<cache, log, file, prog, ip, at, buf, before, torn>>

-----------------------------------------------------------------------------
(* The command line. *)

NoResult(mode) == [mode |-> mode, ok |-> FALSE, write_failed |-> FALSE, flush_failed |-> FALSE]

(* device_init reads block 0, or the tool gives up at once. *)
device_init(mode) ==
  /\ cache' = [block |-> 0, data |-> device[0], dirty |-> FALSE]
  /\ res' = NoResult(mode)
  /\ UNCHANGED device

bios_install(o) ==
  /\ run = "idle"
  /\ device_init("install")
  /\ prog' = Program(device, o) /\ Goto(1)
  /\ \/ run' = "install" /\ UNCHANGED faults
     \/ run' = "done" /\ Fault
  /\ UNCHANGED <<log, file, buf, before, torn, adrift>>

load_uninstall_data(ok) ==
  /\ ok => file # <<>>
  /\ IF ok \/ file = <<>> THEN UNCHANGED faults ELSE Fault

bios_uninstall ==
  /\ run = "done" /\ res.mode = "install" /\ res.ok
  /\ \/ /\ load_uninstall_data(TRUE) /\ uninstall(file[1])
        /\ res' = NoResult("uninstall") /\ adrift' = {}
     \/ /\ load_uninstall_data(FALSE)
        /\ res' = NoResult("not loaded")
        /\ UNCHANGED <<cache, log, run, prog, ip, at, adrift>>
  /\ UNCHANGED <<device, file, buf, before, torn>>

Init ==
  /\ device \in Devices /\ before = device
  /\ cache = Empty /\ log = <<>> /\ file = <<>> /\ run = "idle"
  /\ prog = <<>> /\ ip = 1 /\ at = Fresh
  /\ buf = [r \in {"none", "stamp", "table", "array"} |-> <<>>]
  /\ res = NoResult("none") /\ faults = 0 /\ torn = {} /\ adrift = {}

Next ==
  \/ \E o \in Options : bios_install(o)
  \/ bios_uninstall
  \/ do_device_read \/ do_device_write
  \/ install_io_fails \/ install_refuses \/ install_flush_fails \/ install_done
  \/ undo_retries \/ undo_gives_up \/ undo_done

Spec == Init /\ [][Next]_vars

-----------------------------------------------------------------------------
(* Properties. *)

AllCells == 0..(NBLOCKS * BLOCK - 1)
Restored(except) == \A c \in AllCells \ except : Cell(device, c) = Cell(before, c)
Reported == res.write_failed \/ res.flush_failed

(* "If we failed, attempt to reverse install process": when an install     *)
(* fails, wherever it does and whatever it had written over what, and the  *)
(* roll-back does not report a failure of its own, the device is as it     *)
(* was, but for two things that are not reported: the blocks of the write  *)
(* that failed half way which had left the cache, since the log takes a    *)
(* write when it is whole; and blocks the stream took and dropped.         *)
FailedInstallUndone ==
  (run = "done" /\ res.mode = "install" /\ ~res.ok /\ ~Reported) => Restored(torn \cup adrift)

(* An install that succeeds, and whose last block fclose could write,      *)
(* keeps the time stamp and the partitions, its boot sector says where the *)
(* image of stage 2 is, and the two GPT headers agree with the entries.    *)
(* Whether or not that block was written, an uninstall that reports no     *)
(* failure gives the device back as it was before the install, but for     *)
(* the blocks the stream drops while it uninstalls.                        *)
Untouched(loc, n) == Cells(device, loc, n) = Cells(before, loc, n)
Loaded(k, size) == Cells(device, Cell(device, SIZE_A + k), size) = Image(size)
HeaderRight(h) == h[4] = crc32(Cells(device, EntryLoc(h, 0), h[3] * ENTRY))

InstalledAndReversible ==
  (run = "done" /\ ~Reported) =>
  /\ (res.mode = "install" /\ res.ok /\ adrift = {}) =>
       /\ Untouched(STAMP, 1)
       /\ \A k \in Table : Untouched(Start(k), 1)
                           /\ Cell(device, Active(k)) \in {Cell(before, Active(k)), 0, 1}
       /\ Loaded(2, STAGE2_A) /\ Loaded(3, STAGE2_B)
       /\ IsGpt(Header(before, 1)) =>
            LET h == Header(device, 1) IN HeaderRight(h) /\ HeaderRight(Header(device, h[5]))
  /\ res.mode = "uninstall" => Restored(adrift)
=============================================================================
