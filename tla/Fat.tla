-------------------------------- MODULE Fat --------------------------------
(***************************************************************************)
(* The FAT16 driver (fat.c) on the ATA driver (ata.c), with the part of    *)
(* the boot that mounts it (kernel.c).  The driver polls the drive, so no  *)
(* other process runs inside a call, but the drive may fail and the power  *)
(* may go between any two sector writes: a call is one step per sector it  *)
(* writes, and `op` is where it stands.  ata_write_sectors flushes after   *)
(* every sector, so sectors reach the disk in program order.               *)
(*                                                                         *)
(* A volume has one sector per cluster.  Directories below the root's own  *)
(* subdirectories are not entered.  A name is told apart by its 8.3 form,  *)
(* Short[n], which is what the directory stores and shows.  Paths resolve  *)
(* "." and ".." without asking the driver, but the last name of a path     *)
(* that is created or removed is handed to it as it stands.                *)
(***************************************************************************)
EXTENDS Integers, FiniteSets, SequencesExt

CONSTANTS NCLUSTERS,      \* clusters of the data area
          SPARE,          \* entries of the FAT's last sector past them
          NUM_FATS,       \* copies of the FAT
          ROOT_SLOTS,     \* entries of the root directory
          DIR_SLOTS,      \* entries of a directory cluster
          CLUSTER_SIZE,   \* bytes of a cluster
          FAT_MAX_NODES,  \* vnodes the driver can hand out between mounts
          Names, Short,   \* names, and the name an 8.3 entry shows for each
          Handles,        \* open files
          Counts, Bytes,  \* lengths and values of a write
          Volumes,        \* what a disk may hold when it is first mounted
          SELFTEST,       \* cluster in which ATA_SELFTEST_LBA lies
          MAX_FAULTS      \* bound: drive errors and power cuts

ASSUME FatAssumption ==
  /\ {NCLUSTERS, NUM_FATS, ROOT_SLOTS, CLUSTER_SIZE} \subseteq Nat \ {0}
  /\ {SPARE, FAT_MAX_NODES, MAX_FAULTS} \subseteq Nat
  /\ DIR_SLOTS \in Nat /\ DIR_SLOTS > 2
  /\ DOMAIN Short = Names
  /\ Counts \subseteq Nat \ {0}

VARIABLES disk,        \* what the sectors hold
          op,          \* the call in progress
          handle,      \* open files: the vnode's fat_meta_t and the offset
          node_count,  \* vnodes handed out since the mount
          mounted,     \* fat_mounted
          faults,      \* drive errors and power cuts so far
          marks        \* history: what has happened that may harm the volume

vars == <<disk, op, handle, node_count, mounted, faults, marks>>

-----------------------------------------------------------------------------
(* The disk. *)

Clusters == 2..(NCLUSTERS + 1)
Table == 2..(NCLUSTERS + 1 + SPARE)
EOC == NCLUSTERS + SPARE + 2        \* FAT16_EOC_MIN
IsCluster(c) == c \in Table

Slot(tag, name, first, size) == [tag |-> tag, name |-> name, first |-> first, size |-> size]
EndSlot == Slot("end", "", 0, 0)           \* name[0] = 0x00
DeletedSlot == Slot("deleted", "", 0, 0)   \* name[0] = 0xE5
LabelSlot == Slot("label", "", 0, 0)       \* FAT_ATTR_LFN, FAT_ATTR_VOLUME_ID
Dots == {".", ".."}
DotSlot(c) == Slot("dir", ".", c, 0)
DotDotSlot == Slot("dir", "..", 0, 0)      \* the parent is the root
ZeroSector == [slots |-> [i \in 1..DIR_SLOTS |-> EndSlot], bytes |-> <<>>]
ByteSector(s) == [slots |-> <<>>, bytes |-> s]

NoLoc == <<0, 0>>
Locs == ({0} \X (1..ROOT_SLOTS)) \cup (Clusters \X (1..DIR_SLOTS))

(* A sector of file data is taken for an empty directory sector, and the   *)
(* other way round for zero bytes, where the driver reads one as the other. *)
SlotsOf(d, c) == IF c = 0 THEN d.root
                 ELSE IF d.data[c].slots = <<>> THEN ZeroSector.slots
                 ELSE d.data[c].slots
BytesOf(d, c) == IF d.data[c].bytes = <<>> THEN [i \in 1..CLUSTER_SIZE |-> 0]
                 ELSE d.data[c].bytes
EntryAt(d, l) == SlotsOf(d, l[1])[l[2]]
PutEntry(d, l, e) ==
  IF l[1] = 0 THEN [d EXCEPT !.root[l[2]] = e]
  ELSE [d EXCEPT !.data[l[1]] = [slots |-> [SlotsOf(d, l[1]) EXCEPT ![l[2]] = e],
                                 bytes |-> <<>>]]

-----------------------------------------------------------------------------
(* Drive errors: a write that fails may have reached the disk or not, and  *)
(* always fails on a cluster the volume does not have.                     *)

Fault == faults < MAX_FAULTS /\ faults' = faults + 1

ata_write_sectors(c, d) == c \in Clusters \cup {0} /\ disk' = d /\ UNCHANGED faults

DriveFails(d) == Fault /\ disk' \in {disk, d}

WriteFails(c, d) ==
  \/ c \notin Clusters /\ UNCHANGED <<disk, faults>>
  \/ c \in Clusters /\ DriveFails(d)

Mark(why) == marks' = marks \cup why

-----------------------------------------------------------------------------
(* Reading the volume. *)

fat_next_cluster(c) == disk.fat[1][c]

(* The chain from c on, cut after as many clusters as the table has. *)
RECURSIVE ChainUpTo(_, _, _)
ChainUpTo(d, c, n) == IF n = 0 \/ ~IsCluster(c) THEN <<>>
                      ELSE <<c>> \o ChainUpTo(d, d.fat[1][c], n - 1)
Chain(d, c) == ChainUpTo(d, c, Cardinality(Table))

(* The places of a directory's entries, in the order they are scanned. *)
DirLocs(d, first) ==
  LET cs == IF first = 0 THEN <<0>>
            ELSE SelectSeq(Chain(d, first), LAMBDA c : c \in Clusters)
  IN  FlattenSeq([k \in 1..Len(cs) |->
                    [i \in 1..Len(SlotsOf(d, cs[k])) |-> <<cs[k], i>>]])

fat_iterate_dir(d, first) ==
  LET L == DirLocs(d, first)
      end == SelectInSeq(L, LAMBDA l : EntryAt(d, l).tag = "end")
      seen == IF end = 0 THEN L ELSE SubSeq(L, 1, end - 1)
  IN  SelectSeq(seen, LAMBDA l : EntryAt(d, l).tag \in {"file", "dir"})

Matches(first, n) ==
  SelectSeq(fat_iterate_dir(disk, first), LAMBDA l : EntryAt(disk, l).name = n)

(* What a lookup may return: the first entry of that name, in a vnode of   *)
(* its own; nothing when there is none, no vnode is left, or a read fails. *)
fat_dir_lookup(first, n, spent) ==
  LET M == Matches(first, n)
      Found(l, cost, why) == [loc |-> l, cost |-> cost, why |-> why]
  IN  { IF M = <<>> THEN Found(NoLoc, spent, {})
        ELSE IF node_count + spent = FAT_MAX_NODES THEN Found(NoLoc, spent, {"no vnode"})
        ELSE Found(M[1], spent + 1, {}) }
      \cup { Found(NoLoc, spent, {"misread"}) : x \in {y \in {faults} : y < MAX_FAULTS} }

(* The effect of a lookup on the pool, and of a misread on the history. *)
LookedUp(r) ==
  /\ node_count' = node_count + r.cost
  /\ IF r.why \cap {"misread", "orphans"} # {} THEN Fault ELSE UNCHANGED faults
  /\ Mark(r.why)

-----------------------------------------------------------------------------
(* Allocation.  A FAT entry is written copy after copy; whether a copy was *)
(* written is not looked at.                                               *)

NoOp == [pc |-> "idle", fatq |-> <<>>, dir |-> 0, loc |-> NoLoc, entry |-> EndSlot,
         cluster |-> 0, index |-> 0, pos |-> 0, left |-> 0, byte |-> 0, copied |-> 0,
         h |-> 0]

fat_write_fat_entry(c, v) == [k \in 1..NUM_FATS |-> [copy |-> k, cluster |-> c, value |-> v]]

FreeClusters == {c \in Table : disk.fat[1][c] = 0}
IsFirstFree(c) == c \in FreeClusters /\ \A x \in FreeClusters : c <= x

Reserve_none(c) == <<>>
Reserve(c) == fat_write_fat_entry(c, EOC)
Link(last, c) == Reserve(c) \o fat_write_fat_entry(last, c)

(* What fat_alloc_cluster may return: 0 when the table is full or unread. *)
Allocated(c) == IsFirstFree(c) \/ (c = 0 /\ FreeClusters = {})
fat_alloc_cluster(c) ==
  \/ Allocated(c) /\ UNCHANGED faults
  \/ c = 0 /\ Fault

(* One copy of one FAT entry. *)
write_fat_copy ==
  /\ op.fatq # <<>>
  /\ op' = [op EXCEPT !.fatq = Tail(@)]
  /\ \E q \in {Head(op.fatq)} : \E d \in {[disk EXCEPT !.fat[q.copy][q.cluster] = q.value]} :
       \/ ata_write_sectors(0, d) /\ UNCHANGED marks
       \/ DriveFails(d) /\ Mark({"fat"})
  /\ UNCHANGED <<handle, node_count, mounted>>

At(pc) == op.pc = pc /\ op.fatq = <<>>
Idle == At("idle") /\ mounted
Finish == op' = NoOp

-----------------------------------------------------------------------------
(* Files: open (fat_lookup_visitor fills the vnode), read, write, close.    *)

NoHandle == [loc |-> NoLoc, first |-> 0, size |-> 0, off |-> 0]

(* A directory of the path: the root, or a subdirectory of it, looked up.  *)
InDir(n, act(_, _)) ==
  \/ n = "" /\ act(0, 0)
  \/ /\ n # "" /\ node_count < FAT_MAX_NODES
     /\ \E k \in {Matches(0, n)} :
          k # <<>> /\ EntryAt(disk, k[1]).tag = "dir" /\ act(EntryAt(disk, k[1]).first, 1)

fat_open(h, first, spent, n, append) ==
  /\ handle[h] = NoHandle
  /\ node_count + spent < FAT_MAX_NODES
  /\ \E M \in {Matches(first, n)} :
       /\ M # <<>> /\ EntryAt(disk, M[1]).tag = "file"
       /\ \E e \in {EntryAt(disk, M[1])} :
            handle' = [handle EXCEPT ![h] = [loc |-> M[1], first |-> e.first, size |-> e.size,
                                             off |-> IF append THEN e.size ELSE 0]]
  /\ node_count' = node_count + spent + 1
  /\ UNCHANGED <<disk, op, mounted, faults, marks>>

fat_close(h) ==
  /\ Idle /\ handle[h] # NoHandle
  /\ handle' = [handle EXCEPT ![h] = NoHandle]
  /\ UNCHANGED <<disk, op, node_count, mounted, faults, marks>>

Least(a, b) == IF a <= b THEN a ELSE b

(* A read stops at the size the vnode has, or where the chain ends. *)
fat_file_read(h, count) ==
  /\ Idle /\ handle[h] # NoHandle
  /\ \E f \in {handle[h]} : \E e \in {Least(f.size, CLUSTER_SIZE * Len(Chain(disk, f.first)))} :
       /\ f.off < e
       /\ handle' = [handle EXCEPT ![h].off = Least(e, @ + count)]
  /\ UNCHANGED <<disk, op, node_count, mounted, faults, marks>>

(* The vnode says what the directory entry says. *)
Fresh(f) ==
  LET e == EntryAt(disk, f.loc) IN e.tag = "file" /\ e.first = f.first /\ e.size = f.size

fat_file_write(h, count, b) ==
  /\ Idle /\ handle[h] # NoHandle
  /\ Mark(IF Fresh(handle[h]) THEN {} ELSE {"stale"})
  /\ \E f \in {handle[h]}, c \in Table \cup {0} :
       /\ IF f.first = 0 THEN fat_alloc_cluster(c) ELSE c = f.first /\ UNCHANGED faults
       /\ \/ c = 0 /\ UNCHANGED <<op, handle>>          \* -ENOSPC
          \/ /\ c # 0
             /\ handle' = [handle EXCEPT ![h].first = c]
             /\ op' = [NoOp EXCEPT !.pc = "write", !.h = h, !.cluster = c,
                          !.fatq = IF f.first = 0 THEN Reserve(c) ELSE <<>>,
                          !.index = f.off \div CLUSTER_SIZE, !.pos = f.off % CLUSTER_SIZE,
                          !.left = count, !.byte = b]
  /\ UNCHANGED <<disk, node_count, mounted>>

write_extend(c) ==
  \/ c # 0 /\ op' = [op EXCEPT !.fatq = Link(op.cluster, c), !.cluster = c, !.index = @ - 1]
  \/ c = 0 /\ op.copied = 0 /\ Finish
  \/ c = 0 /\ op.copied > 0 /\ op' = [op EXCEPT !.pc = "writeback"]

(* On to the next cluster of the chain, which is extended at its end; a    *)
(* FAT entry that cannot be read counts as the end.                        *)
write_next ==
  /\ At("write") /\ op.index > 0
  /\ \E next \in {fat_next_cluster(op.cluster)} :
       \/ /\ IsCluster(next)
          /\ op' = [op EXCEPT !.cluster = next, !.index = @ - 1]
          /\ UNCHANGED <<faults, marks>>
       \/ \E c \in Table \cup {0} :
            /\ \/ ~IsCluster(next) /\ fat_alloc_cluster(c) /\ UNCHANGED marks
               \/ IsCluster(next) /\ Fault /\ Mark({"fat"}) /\ Allocated(c)
            /\ write_extend(c)
  /\ UNCHANGED <<disk, handle, node_count, mounted>>

(* The bytes of the call that fall into this sector, over what it held. *)
Patched(old, pos, n, b) == [i \in 1..CLUSTER_SIZE |-> IF i > pos /\ i <= pos + n THEN b ELSE old[i]]

write_sector ==
  /\ At("write") /\ op.index = 0
  /\ \E c \in {op.cluster}, n \in {Least(op.left, CLUSTER_SIZE - op.pos)} :
     \E d \in {IF c \in Clusters
               THEN [disk EXCEPT !.data[c] = ByteSector(Patched(BytesOf(disk, c), op.pos, n, op.byte))]
               ELSE disk} :
       \/ /\ ata_write_sectors(c, d)
          /\ op' = [op EXCEPT !.copied = @ + n, !.left = @ - n, !.pos = 0,
                       !.index = IF op.left > n THEN 1 ELSE 0,
                       !.pc = IF op.left > n THEN "write" ELSE "writeback"]
       \/ WriteFails(c, d) /\ op' = [op EXCEPT !.pc = "writeback"]
  /\ UNCHANGED <<handle, node_count, mounted, marks>>

Reached_asked(f) == f.off + op.copied + op.left
Reached(f) == f.off + op.copied

(* The end of fat_file_write: the size, then the directory entry. *)
fat_writeback_dirent ==
  /\ At("writeback")
  /\ \E f \in {handle[op.h]} : \E size \in {IF Reached(f) > f.size THEN Reached(f) ELSE f.size} :
       /\ handle' = [handle EXCEPT ![op.h].size = size, ![op.h].off = f.off + op.copied]
       /\ \E d \in {IF EntryAt(disk, f.loc).tag \in {"file", "dir"}
                    THEN PutEntry(disk, f.loc, [EntryAt(disk, f.loc) EXCEPT !.first = f.first, !.size = size])
                    ELSE disk} :
            ata_write_sectors(0, d) \/ DriveFails(d)
  /\ Finish
  /\ UNCHANGED <<node_count, mounted, marks>>

-----------------------------------------------------------------------------
(* Directories. *)

IsShort(n) == Short[n] = n

fat_dir_create(dir, spent, n) ==
  /\ \E r \in fat_dir_lookup(dir, n, spent) :
       /\ LookedUp([r EXCEPT !.why = IF r.loc = NoLoc /\ ~IsShort(n) THEN @ \cup {"long"} ELSE @])
       /\ IF r.loc # NoLoc THEN UNCHANGED op         \* -EEXIST
          ELSE op' = [NoOp EXCEPT !.pc = "slot", !.dir = dir, !.entry = Slot("file", Short[n], 0, 0)]
  /\ UNCHANGED <<disk, handle, mounted>>

fat_dir_mkdir(dir, spent, n) ==
  /\ \E r \in fat_dir_lookup(dir, n, spent) :
       /\ LookedUp([r EXCEPT !.why = IF r.loc = NoLoc /\ ~IsShort(n) THEN @ \cup {"long"} ELSE @])
       /\ \/ r.loc # NoLoc /\ UNCHANGED op
          \/ r.loc = NoLoc /\ FreeClusters = {} /\ UNCHANGED op        \* -ENOSPC
          \/ /\ r.loc = NoLoc
             /\ \E c \in FreeClusters :
                  /\ IsFirstFree(c)
                  /\ op' = [NoOp EXCEPT !.pc = "zero", !.dir = dir, !.cluster = c, !.fatq = Reserve(c),
                               !.entry = Slot("dir", Short[n], c, 0)]
  /\ UNCHANGED <<disk, handle, mounted>>

(* The new directory's cluster: zeroed, then its "." and "..". *)
mkdir_zero ==
  /\ At("zero")
  /\ \E d \in {IF op.cluster \in Clusters THEN [disk EXCEPT !.data[op.cluster] = ZeroSector] ELSE disk} :
       \/ ata_write_sectors(op.cluster, d) /\ op' = [op EXCEPT !.pc = "dots"] /\ UNCHANGED marks
       \/ WriteFails(op.cluster, d) /\ Finish /\ Mark({"leak"})
  /\ UNCHANGED <<handle, node_count, mounted>>

mkdir_dots ==
  /\ At("dots")
  /\ \E d \in {[disk EXCEPT !.data[op.cluster].slots[1] = DotSlot(op.cluster),
                               !.data[op.cluster].slots[2] = DotDotSlot]} :
       \/ ata_write_sectors(op.cluster, d) /\ op' = [op EXCEPT !.pc = "slot"] /\ UNCHANGED marks
       \/ DriveFails(d) /\ Finish /\ Mark({"leak"})
  /\ UNCHANGED <<handle, node_count, mounted>>

(* An entry that was to name a new directory's cluster will not. *)
GiveUp == Finish /\ Mark(IF op.entry.tag = "dir" THEN {"leak"} ELSE {})

(* The FAT entry of a full cluster of the directory cannot be read: that   *)
(* counts as the end of the chain, and the new cluster is linked there,    *)
(* in place of what follows.                                               *)
slot_cut_off ==
  \E j \in 1..(Len(Chain(disk, op.dir)) - 1) : \E ch \in {Chain(disk, op.dir)}, c \in FreeClusters :
    /\ \A i \in 1..j : ch[i] \in Clusters /\
         \A k \in 1..DIR_SLOTS : EntryAt(disk, <<ch[i], k>>).tag \notin {"end", "deleted"}
    /\ IsFirstFree(c)
    /\ Fault /\ Mark({"fat"})
    /\ op' = [op EXCEPT !.pc = "grow", !.cluster = c, !.fatq = Link(ch[j], c)]

fat_find_free_dirent_slot ==
  /\ At("slot")
  /\ \E L \in {DirLocs(disk, op.dir)} :
     \E k \in {SelectInSeq(L, LAMBDA l : EntryAt(disk, l).tag \in {"end", "deleted"})} :
       \/ k # 0 /\ op' = [op EXCEPT !.pc = "entry", !.loc = L[k]] /\ UNCHANGED <<faults, marks>>
       \/ k = 0 /\ op.dir = 0 /\ GiveUp /\ UNCHANGED faults              \* -ENOSPC
       \/ /\ k = 0 /\ op.dir # 0
          /\ \E ch \in {Chain(disk, op.dir)} :
               \/ \E c \in Table \cup {0} :
                    /\ ch[Len(ch)] \in Clusters
                    /\ fat_alloc_cluster(c)
                    /\ \/ c = 0 /\ GiveUp
                       \/ /\ c # 0 /\ UNCHANGED marks
                          /\ op' = [op EXCEPT !.pc = "grow", !.cluster = c,
                                              !.fatq = Link(ch[Len(ch)], c)]
               \/ ch[Len(ch)] \notin Clusters /\ GiveUp /\ UNCHANGED faults    \* -EIO
       \/ GiveUp /\ Fault                                                      \* -EIO
       \/ op.dir # 0 /\ slot_cut_off
  /\ UNCHANGED <<disk, handle, node_count, mounted>>

(* The cluster a directory grows by is linked, and only then zeroed. *)
grow_zero ==
  /\ At("grow")
  /\ \E d \in {IF op.cluster \in Clusters THEN [disk EXCEPT !.data[op.cluster] = ZeroSector] ELSE disk} :
       \/ /\ ata_write_sectors(op.cluster, d) /\ UNCHANGED marks
          /\ op' = [op EXCEPT !.pc = "entry", !.loc = <<op.cluster, 1>>]
       \/ /\ WriteFails(op.cluster, d) /\ Finish
          /\ Mark((IF op.cluster \in Clusters THEN {"unzeroed"} ELSE {})
                  \cup (IF op.entry.tag = "dir" THEN {"leak"} ELSE {}))
  /\ UNCHANGED <<handle, node_count, mounted>>

write_entry ==
  /\ At("entry")
  /\ \E d \in {PutEntry(disk, op.loc, op.entry)} :
       \/ ata_write_sectors(0, d) /\ Finish /\ UNCHANGED marks
       \/ DriveFails(d) /\ GiveUp
  /\ UNCHANGED <<handle, node_count, mounted>>

(* What fat_dot_check_visitor looks for. *)
Remaining(e) == {l \in ToSet(fat_iterate_dir(disk, e.first)) : EntryAt(disk, l).name \notin Dots}

(* The chain is freed cluster by cluster, and then the entry marked.  A    *)
(* directory that cannot be read passes for empty.  "." is an entry like   *)
(* the others: removing it frees the directory it is in.                   *)
fat_dir_unlink(dir, spent, n) ==
  /\ \E r \in fat_dir_lookup(dir, n, spent) :
       \/ r.loc = NoLoc /\ LookedUp(r) /\ UNCHANGED op                     \* -ENOENT
       \/ /\ r.loc # NoLoc
          /\ \E e \in {EntryAt(disk, r.loc)} : \E full \in {e.tag = "dir" /\ Remaining(e) # {}} :
               \/ full /\ LookedUp(r) /\ UNCHANGED op                     \* -ENOTEMPTY
               \/ /\ LookedUp([r EXCEPT !.why = (IF full THEN {"orphans"} ELSE {})
                                               \cup (IF n = "." /\ e.tag = "dir" THEN {"dot"} ELSE {})])
                  /\ op' = [NoOp EXCEPT !.pc = "free", !.loc = r.loc, !.cluster = e.first]
  /\ UNCHANGED <<disk, handle, mounted>>

Freed(c) == fat_write_fat_entry(c, 0)
AfterFreeing_none(c) == EOC
AfterFreeing(c) == fat_next_cluster(c)

unlink_free ==
  /\ At("free") /\ IsCluster(op.cluster)
  /\ \/ op' = [op EXCEPT !.fatq = Freed(op.cluster), !.cluster = AfterFreeing(@)] /\ UNCHANGED <<faults, marks>>
     \/ op' = [op EXCEPT !.fatq = Freed(op.cluster), !.cluster = EOC] /\ Fault /\ Mark({"fat"})
  /\ UNCHANGED <<disk, handle, node_count, mounted>>

unlink_mark ==
  /\ At("free") /\ ~IsCluster(op.cluster)
  /\ Finish
  /\ \E d \in {PutEntry(disk, op.loc, DeletedSlot)} :
       \/ ata_write_sectors(0, d) /\ UNCHANGED marks
       \/ DriveFails(d) /\ Mark({"half unlinked"})
  /\ UNCHANGED <<handle, node_count, mounted>>

-----------------------------------------------------------------------------
(* Power and boot. *)

Off ==
  /\ mounted' = FALSE
  /\ handle' = [h \in Handles |-> NoHandle]
  /\ Finish
  /\ UNCHANGED <<disk, node_count>>

reboot == Idle /\ Off /\ UNCHANGED <<faults, marks>>

power_cut ==
  /\ mounted /\ op.pc # "idle"
  /\ Fault /\ Off
  /\ Mark({"power"} \cup (IF op.pc = "free" THEN {"half unlinked"} ELSE {})
                    \cup (IF op.pc = "grow" THEN {"unzeroed"} ELSE {}))

(* A boot that finds a drive; one that does not leaves the disk alone. *)
ata_init == ~mounted

(* fat_mount reads sector 0 and its geometry. *)
fat_mount ==
  /\ ata_init
  /\ mounted' = TRUE /\ node_count' = 0
  /\ UNCHANGED <<disk, op, handle, faults, marks>>

(* Sector 0 cannot be read: not a FAT volume, and the self-test writes its *)
(* pattern, which a scan of a directory would take for volume labels.      *)
boot_selftest ==
  /\ ata_init /\ Fault
  /\ disk' = [disk EXCEPT !.data[SELFTEST] = [slots |-> [i \in 1..DIR_SLOTS |-> LabelSlot],
                                              bytes |-> [i \in 1..CLUSTER_SIZE |-> 0]]]
  /\ Mark({"selftest"})
  /\ UNCHANGED <<op, handle, node_count, mounted>>

-----------------------------------------------------------------------------
(* A volume, given its FAT, its root directory and its clusters. *)
Formatted(fat, root, data) ==
  [fat |-> [k \in 1..NUM_FATS |-> fat], root |-> root, data |-> data]

Init ==
  /\ disk \in Volumes
  /\ op = NoOp
  /\ handle = [h \in Handles |-> NoHandle]
  /\ node_count = 0 /\ mounted = TRUE /\ faults = 0 /\ marks = {}

Calls ==
  \/ reboot
  \/ \E dn \in Names \cup {""}, n \in Names : Idle /\
       \/ InDir(dn, LAMBDA dir, spent : fat_dir_create(dir, spent, n))
       \/ dn = "" /\ fat_dir_mkdir(0, 0, n)
       \/ InDir(dn, LAMBDA dir, spent : fat_dir_unlink(dir, spent, n))
       \/ \E h \in Handles, append \in BOOLEAN :
            InDir(dn, LAMBDA dir, spent : fat_open(h, dir, spent, n, append))
  \/ \E h \in Handles :
       \/ fat_close(h)
       \/ \E count \in Counts : fat_file_read(h, count) \/ \E b \in Bytes : fat_file_write(h, count, b)

Steps ==
  \/ write_fat_copy
  \/ write_next \/ write_sector \/ fat_writeback_dirent
  \/ mkdir_zero \/ mkdir_dots
  \/ fat_find_free_dirent_slot \/ grow_zero \/ write_entry
  \/ unlink_free \/ unlink_mark
  \/ power_cut \/ fat_mount \/ boot_selftest

Next == Calls \/ Steps

Spec == Init /\ [][Next]_vars

-----------------------------------------------------------------------------
(* Properties. *)

IsLive(l) ==
  /\ EntryAt(disk, l).tag \in {"file", "dir"}
  /\ (l[1] # 0 /\ EntryAt(disk, l).name \in Dots) => EntryAt(disk, l).tag = "file"
  /\ ~(op.pc = "free" /\ op.loc = l)
Live == {l \in Locs : IsLive(l)}
Owned(l) == Chain(disk, EntryAt(disk, l).first)

(* What the code does not guard against, one mark each: a write through a  *)
(* vnode its entry has left behind (every lookup makes a vnode); an unlink *)
(* that is cut short; a FAT sector that cannot be read or written; a       *)
(* directory's new cluster that is not zeroed; a directory removed by the  *)
(* name "." in it, or because it could not be read.                        *)
Harmed == marks \cap {"stale", "half unlinked", "fat", "unzeroed", "dot", "orphans"} # {}

(* No cluster belongs to two entries or twice to one, and none that an     *)
(* entry owns is free to be allocated again: in every state, inside calls, *)
(* after power cuts, and after the drive failed anywhere but where Harmed  *)
(* names.                                                                  *)
EntriesOwnClusters ==
  \/ Harmed
  \/ LET own == [l \in Live |-> Owned(l)] IN
     \A l \in DOMAIN own :
       /\ IsInjective(own[l])
       /\ \A c \in ToSet(own[l]) :
            disk.fat[1][c] # 0 /\ \A k \in DOMAIN own \ {l} : c \notin ToSet(own[k])

(* What a checker of the volume would ask between calls, when the drive    *)
(* has made no error: the copies of the FAT agree, the clusters in use are *)
(* those the entries own (unless mkdir gave up after taking one), a file's *)
(* bytes fit in its clusters, and no directory shows a name twice (unless  *)
(* the name was cut to 8.3 or the vnodes had run out when it was created). *)
VolumeConsistent ==
  (op.pc = "idle" /\ ~Harmed /\ marks \cap {"power", "misread"} = {} /\ faults = 0) =>
  /\ \A k \in 1..NUM_FATS : disk.fat[k] = disk.fat[1]
  /\ "leak" \notin marks =>
       {c \in Table : disk.fat[1][c] # 0} = UNION {ToSet(Owned(l)) : l \in Live}
  /\ \A l \in Live : \E real \in {SelectSeq(Owned(l), LAMBDA c : c \in Clusters)} :
       EntryAt(disk, l).size <= CLUSTER_SIZE * Len(real)
  /\ marks \cap {"long", "no vnode"} = {} =>
       \A k, l \in Live : (k[1] = l[1] /\ EntryAt(disk, k).name = EntryAt(disk, l).name) => k = l

(* The bytes of every file, as a reader of the disk would find them. *)
Contents(l) ==
  LET o == SelectSeq(Owned(l), LAMBDA c : c \in Clusters)
      bytes == FlattenSeq([k \in 1..Len(o) |-> BytesOf(disk, o[k])])
  IN  SubSeq(bytes, 1, Least(Len(bytes), EntryAt(disk, l).size))

V == INSTANCE Volume
       WITH blob <- [l \in Locs |-> IF IsLive(l) /\ EntryAt(disk, l).tag = "file"
                                    THEN Contents(l) ELSE <<-1>>],
            sound <- ~Harmed /\ "selftest" \notin marks

(* Every sector write, power cut and reboot keeps the promise of Volume    *)
(* until the volume is harmed or the self-test of kernel.c, which takes a  *)
(* volume whose sector 0 was not read for none, has written into it: one   *)
(* file at a time, an append all at once.                                  *)
ImplementsVolume == V!Spec
=============================================================================
