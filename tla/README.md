# A TLA+ model of the Isunux kernel

Isunux is a small x86_64 kernel: one CPU, preemptive round-robin scheduling,
fork/exec/waitpid, signals and job control, copy-on-write memory, pipes, a VFS
with tmpfs, devfs and FAT16, a terminal and a shell. This directory models its
concurrent and stateful parts and the installer of its boot loader, checks them
with TLC and proves the central invariants with TLAPS. Paths below are relative to
the repository; `kernel/` is left out where it is clear.

## 1. Inventory

| Part | State | Operations | What is hard about it |
|---|---|---|---|
| Physical memory (`pmm.c`) | bitmap, refcounts, counters, scan hint | init, alloc one, alloc a run, free, ref | hint and skips hiding free pages, shared and double frees, region edges |
| Tasks, scheduler (`task.c`, `irq.c`) | task table, ring, current task | yield, block, wake, allocate and recycle a slot | a block, stop or kill inside the switch; slots reused under zombies; starvation |
| Processes (`process.c`, `fork.c`) | process table, pid counter | alloc, fork, exit, waitpid | lost wake-ups, half-failed fork, zombies and orphans |
| Signals (`process.c`, `keyboard.c`) | stop flags, foreground set | kill, Ctrl-C, Ctrl-Z, SIGCONT | signals to blocked, stopped, dead or current processes, in any order |
| Descriptors (`process.c`) | table per process | open, close, dup2, pipe, read, write | sharing through fork, stale access modes |
| Pipes (`pipe.c`) | pipe pool: ring, two reference counts | read, write, dup, close, create | two kinds of sleeper on one channel, partial writes, EOF, pool reuse |
| Address spaces (`vmm.c`, `exceptions.c`) | page tables, COW bits | clone, fault, map, destroy | reference counts against page tables, memory shortage half way |
| brk, mmap, exec (`process.c`, `exec.c`, `elf.c`, `userstack.c`) | heap end, arena | grow, map, unmap, replace image | unwinding on failure |
| VFS, tmpfs, devfs | nodes, file pages | path walk, create, write, unlink, truncate | open descriptors of unlinked files, memory shortage |
| FAT16, ATA (`fat.c`, `ata.c`) | FAT, directory entries, vnode cache | read, write, create, unlink, mkdir | crash between sector writes, stale cached sizes |
| Terminal (`keyboard.c`) | line buffer, queue, mode | scancode, read, set mode | full queue, mode changes with readers asleep |
| Shell (`bin/sh`) | job table | pipelines, fg, bg, reaping | races of fork, foreground and Ctrl-C |
| Installer (`boot/limine/limine.c`) | block cache, undo log, stored log | install, roll back, uninstall | a device that fails at any block, overlapping writes to undo |
| Boot, GDT/IDT, PIC, PIT, serial, framebuffer | device registers | set-up | none a model would reach |

They interact as follows. System calls and interrupts enter `process.c`,
which calls the scheduler to sleep and to wake, the memory manager for frames
and a file's vnode operations for I/O. Deaths close descriptors (waking pipe
sleepers) and wake the parent; fork copies descriptors and shares frames;
the keyboard interrupt signals the foreground processes.

**Atomicity.** `syscall_init` (`gdt.c:112`) masks IF on entry and the interrupt
gates do the same, so kernel code runs without interruption until it calls
`yield` or `task_block`. User code and `main`'s `hlt` loop can be interrupted
anywhere. One action is therefore one stretch of kernel code, and what a task
does when it gets the CPU back is a field, `kctx`.

## 2. Modules

| Module | Models | State and actions |
|---|---|---|
| `FrameAlloc` | what the memory manager promises | owners per frame; Alloc, Ref, Keep, Release |
| `Pmm`, `MCPmm` | `pmm.c` | the variables of the file, plus the map booted with, the references handed out and the last request; one action per function |
| `PmmProofs` | theorems about `Pmm` | |
| `Proc` | `task.c`, `fork.c`, life cycle and signals of `process.c`, exit and kill of `syscall.c`, timer and Ctrl-C/Z | both tables, field by field; one action per way into the kernel |
| `ProcProofs` | theorems about `Proc` | |
| `Pipe`, `MCPipe` | `pipe.c`, descriptor tables of `process.c` | descriptor tables, pipe pool, place of each process inside a blocking call |
| `PipeProofs` | theorems about `Pipe` | |
| `Memory` | what address spaces promise | a private memory per process; Store, Zero, Fork, Exec, Unmap |
| `Vm`, `MCVm` | `vmm.c`, the COW handler, brk, mmap, munmap, `exec.c`, `elf.c`, `userstack.c` | page tables, frame counts, contents, the call under way; one step per turn of a call's loop |
| `VmLedger`, `VmProofs` | theorems about `Vm` | |
| `Files` | what a file system in memory promises | bytes per file |
| `Fs`, `MCFs` | `vfs.c`, `tmpfs.c`, `devfs.c`, the file system calls of `process.c` | nodes, pages, descriptors with offsets, identities and working directories; one action per call |
| `FsLedger`, `FsProofs`, `FsRefine` | theorems about `Fs` | |
| `Volume` | what a FAT volume promises across sector writes | bytes per directory entry |
| `Fat`, `MCFat` | `fat.c`, `ata.c`, the mount and self-test of `kernel.c` | FAT copies, directories, data, cached vnodes; one step per sector written |
| `Installer`, `MCInstaller` | `bios-install` and `--uninstall` of `limine.c` | device, one-block cache, undo log; one step per block read or written |
| `Tty` | `keyboard.c` | edited line, input queue, modes, sleepers |
| `Shell`, `MCShell` | `bin/sh/main.c` over `Tty`, with the foreground set and the children | job table, the shell's place in its code; one step per system call |

Definitions carry the names of the C functions they stand for; PROJECT.json's
`map` gives the lines. Operators ending in an underscore and a word, commented
"Mutant", are deliberately wrong variants; no specification uses them. They show
that each property fails when the code is wrong in a plausible way.

*Pmm.* A page is its index; index 0 doubles as "out of memory", as in the code.
`refcount` keeps its width and wraps around (`REF_LIMIT`). Nothing is assumed of
the callers: they may free or share any page any number of times, as the kernel
does when it frees page 0 after a file was made without memory. Three variables are
not in the code: `refs` is how many references to a page are out (and stays at
`REF_LIMIT` once there have been so many), `released` the pages somebody freed
without having been given them, `last` the latest request. `pmm_free_pages` is a
loop of `pmm_free_page`.

*Proc.* `yield` takes the task table its caller has prepared. `process_waitpid`
is one round of the loop; a task that blocked there runs the next round when
scheduled (`resume_waitpid`). Fork has four outcomes: success, no process slot
(nothing changes, so no step), no task slot (the child stays without a task) and
no memory for the kernel stack (the task stays READY with no stack). The states
from which the kernel cannot go on are recorded in `panic`. Exit statuses
are abstracted to how the process ended; `process_count` is never read.

*Pipe.* Scheduling is reduced to "any ready process may run", which `Proc`'s
`ReadyRuns` justifies. A byte is its number in the pipe's stream, so order
and loss are visible in the ring. A process may be killed, stopped and
continued in the middle of a blocked call. A child whose fork failed late is
the state "phantom": it holds its references and never runs. All
processes are root; offsets play no part for pipes.

*Vm.* An address space is the frame of its root table. Its tree is one function
from slots to entries: one slot per page, one per region for the tables in
between (the code has up to three levels there), one for the root, so that every
present entry is one reference to a frame and the tables are counted with the
rest. Kernel code is not interrupted, so a call runs to its end, but every
allocation in it may fail. `lost` counts references that nothing records any
more; `mishaps` says what may have lost frames: a brk or an exec that gave up half
way, or a break or a segment asked for on top of other pages, which nothing checks
(`process.c:212`, `elf.c:94`). `down` is set where the machine stops: a kernel fault
that is not handled, a table "allocated" at frame 0 because `vmm.c:31` does not
look at the result, or a frame shared so often that its count overflows. The TLB is not modelled:
the code reloads CR3 or uses `invlpg` after every change, so the tables are the truth.

*Fs.* A system call never blocks here and is one step. A path is a sequence of
names; `Parts` says how the resolver cuts names longer than `VFS_MAX_NAME`, which
creating cuts off instead. Files have pages, sizes and capacities, and grow by moving to a
larger run. `tainted` marks the two ways in which a file comes to share its pages: it
is written after its removal (`tmpfs.c:134` frees the pages of an open file) or
it was made when no page was left (`tmpfs.c:200` takes page 0 for one).

*Fat.* One sector per cluster. A call is one step per sector it writes; the
drive may fail at each, and the power may go between any two. Every lookup makes
a new vnode with its own copy of size and first cluster, as in the code. A
directory has its "." and ".." entries on disk, which lookups find like any other;
a directory that cannot be read passes for empty, and a FAT entry that cannot be
read for the end of a chain, as in the code. `marks` records the events after which the volume may be harmed (section 3). The ATA
handshake is reduced to a sector read or written, or an error.

*Installer.* The device is a row of cells, one per field the tool tells apart.
An install is the list of reads and writes its inputs lead to, executed through
the cache block by block, each of which may fail. The device is a buffered stdio
stream: a flush may only hand the block to the stream, and the write then fails at the
next `set_pos` or at `fclose`, when the cache counts it as written. `adrift` are the
cells of such blocks, `torn` those of a failed write that had left the cache. Logical
and physical blocks are the same size.

*Tty and Shell.* A character is a token of the command line. The keyboard interrupt, the
shell's system calls and the programs interleave. A program may end, fork and wait
for what it forked, read the console, change its mode, set the foreground processes and
signal another process, as a shell started by the shell does; what else it does
touches neither the terminal nor the job table. Nobody signals the shell itself. Scheduling is "any ready process may run".

The composition is by contract rather than by one product: `Vm` uses of the
allocator what `Pmm` is shown to provide as long as page 0 is not freed (the lowest free
frame; no free page below the hint), `Pipe` and `Shell` use of the scheduler what `Proc` provides, and
`Fs` what a run of pages is. The abstract modules say what a component's users
may rely on.

## 3. Runs

| Run | Instance | What it shows |
|---|---|---|
| `pmm` | 4 pages of 4 bytes; a map with a hole and ragged edges, one reaching past the bitmap; counts modulo 3; any page freed and shared any number of times | consistency of bitmap, counters and references; truthful out-of-memory; refinement of `FrameAlloc` |
| `proc` | 3 task slots, 3 process slots, 4 pids, foreground groups of up to 2 | the eight invariants and three action properties of `Proc` |
| `proc_live` | the same, without Ctrl-C/Z | every ready task runs; waitpid for a dead child returns |
| `proc_tasks` | as `proc`, 3 pids | **violated**: a live process without a task |
| `pipe` | 3 processes, 3 descriptors each, 1 pipe of 2 bytes, writes of 3 bytes, 5 bytes in all | references, wake-ups, order, no reuse under a sleeper |
| `pipe_live` | 2 processes, pipe of 1 byte, forks that fail late, files opened read-write | EOF and broken pipe reach everybody |
| `pipe_mode` | 2 processes | **violated**: the write end of a pipe is not writable |
| `vm` | 2 processes, 10 frames, 7 pages, two ELF programs, one with segments that share a page, and a file that is none, a break inside the stack, 5 calls, faults or stores after the boot | counts equal references, nothing writable is shared, frames are lost only after a mishap, refinement of `Memory` |
| `fs` | 2 processes, 3 descriptors, 6 nodes, 5 pages of 2 bytes, files of up to 5 bytes, 5 calls | pages accounted for, offsets inside files, the tree, permissions at the time of the write, refinement of `Files` |
| `fat` | 4 clusters and a spare FAT entry, 2 FATs, 2 open files, one drive error or power cut, 4 calls, until the volume is harmed | cluster ownership in every state, consistency between calls, refinement of `Volume` |
| `installer` | 54 disks (MBR and GPT, good and bad), 5 command lines, up to 3 device errors | a failed install is undone, a good one is complete and can be undone, but for blocks the device or stdio loses without a word |
| `shell` | 31 typed sessions; 4 process slots, 2 jobs, pipelines of 3, lines of 6 tokens, a queue of 8 | the state of terminal and jobs at every prompt, the shell reads line by line, nobody sleeps beside input |

*Bounds.* With three task slots, main and two others, slots run out and are
recycled while zombies are around, and the task table is exhausted with process slots left,
as in the code, where both tables have 16 entries and main has one. Four pids
allow a slot to be used by a second process after a reap. `MaxPid` only stops
fork. In `pipe`, two processes can be inside calls on the pipe while a third closes,
dies or stops; a write of 3 into a ring of 2 must sleep half way and
the ring wraps. `MaxSent` only keeps new writes from starting. dup2 targets
descriptor 0, as the shell does. `pipe_live` reaches a writable end the other way, by
reusing the slot of a file opened read-write.

In `vm` an image takes five of the ten frames, so a fork fits, a second image on
top of a copy does not, and every allocation of every call fails in some behaviour; five calls
are enough for fork, COW fault on either side, exit, reap and reuse.
In `fs` a file of 5 bytes outgrows two runs, nodes and pages run out, and five calls let two
processes open, remove, recreate and write the same name. In `fat` the volume is
nearly full, a file has two clusters, a directory must grow to take a third
entry, and the second name is one that 8.3 cuts to the first's; one fault is enough
to stop any call at any sector and go on with the disk that is left. In `installer`, three
errors allow one in the install, one in the roll-back and one in the flush. In `shell` the
scripts combine background jobs, pipelines, Ctrl-Z, Ctrl-C, kill, fg and bg, two at a time with
two further acts of the programs and four at a time with one; ten odd ones overflow the line, the queue, the
descriptors, the process table and the job table.
In `pmm` a count of 3 wraps on the third reference; four pages are enough for a run next
to a hole and a page 0 that is freed and handed out.

*Fairness.* `Proc` assumes that the timer keeps firing while interrupts
are on and that a task inside the kernel reaches its next block or return
(the CPU executes instructions). Nothing is assumed of programs.
`Pipe` assumes that a ready process inside a pipe call gets the CPU, which is `ReadyRuns`.

*Deadlock* is checked in the runs of `Pmm`, `Proc` and `Pipe`: the idle loop and
the halted kernel are explicit steps. The other runs end when the calls, keys or
errors they are given are used up, so they say CHECK_DEADLOCK FALSE; that nobody
sleeps for ever beside input is part of `InputDelivered`.

### The two violations

- `LiveProcessHasTask` (`process.h:46`): `do_fork` gives up at `fork.c:33` after
  handing out the process slot, and the child stays for ever. `LiveLinkage` and the
  other invariants of `Proc` are stated so that they hold with such processes
  present.
- `WriteEndWritable` (`bin/pipetest/main.c:48`): `process_pipe` never sets
  `access_mode`. Pipelines work because the shell moves each end onto descriptor
  0 or 1 with dup2, which keeps the mode of the descriptor it replaces (against
  the comment at `process.h:15`).

### What the properties except

The models have these behaviours of the code, and the properties name them
instead of denying them. Where a comment of the repository says otherwise, it is
quoted.

- *Pmm.* A page with as many references as the byte counts loses its count
  (`pmm.c:20`: "MAX_PROCESSES is 16, so a page can never be shared by more owners than
  that"; the allocator itself does not check it); once page 0 has been freed, an
  allocation may return it, and its caller takes that for a refusal.
- *Vm.* A brk that runs out of memory keeps the pages it has mapped and a later
  one maps over them; a brk past the stack, or segments that share a page, map over
  pages in use; an exec that fails does not tear down the tree it has
  built (`NoLeakUnlessMishap`). munmap takes any range.
- *Fs.* After a write to a removed file, or a file made without memory, pages
  are shared (`tainted`). O_TRUNC takes effect before the access check. Nodes are never
  given back. dup2 does not copy the access mode, which `process.h:15` says it does.
- *Fat.* `EntriesOwnClusters` excepts a write through a vnode whose entry has
  changed since ("stale"), an unlink that is cut short ("half unlinked"), a FAT sector that
  cannot be read or written ("fat"), a directory's new cluster that is not zeroed
  ("unzeroed"), a directory removed by the "." inside it ("dot"; `fat.c:696` says that
  paths are resolved "before ever calling lookup()", but unlink looks its last name up as it is), and one removed with files in it
  because it could not be read ("orphans"). `ImplementsVolume` also excepts the
  self-test of `kernel.c:119`, which takes a volume whose sector 0 could not be read
  for none ("no real filesystem data here to lose") and overwrites a sector. `VolumeConsistent` speaks of a drive that has made no error, and also excepts the cluster mkdir keeps when it gives
  up (`fat.c:723`), and names made equal by 8.3 or created when the vnode pool, which is never
  refilled (`fat.c:98`), is empty.
- *Installer.* Of a write that fails half way, the blocks that had left the
  cache are not undone (`torn`). A block that stdio had taken and could not write
  (`adrift`) is lost without a report, in an install (`limine.c:1076` ignores what
  `fclose` says, after success was printed) as in a roll-back.
- *Tty.* A full queue cuts the tail off a line, newline included (`cut`), though
  `keyboard.c:67` and `keyboard.c:193` speak of whole lines; what was typed for a raw-mode program and
  left unread begins the shell's next line. A read stops at a newline in raw mode too, where
  `keyboard.h:12` says "no newline significance at all"; `InputDelivered` is about canonical mode.
- *Shell.* A process the shell does not wait for (a background job, something a program
  forked) may set raw mode, echo or the foreground, and leave it so at the prompt when it
  is killed; the comment of `reclaim_foreground` (`sh/main.c:378`) says that "must never" happen.
  A full job table loses its job (`lost`). A stage whose fork failed is -1 in its job
  (`sh/main.c:554`), and fg then waits for any child, may take another job's report
  (`astray`), or wait on. A pipeline that runs out of descriptors leaves pipe ends open
  (`leaked`). Ctrl-C between fork and the hand-over of the foreground reaches nobody.

## 4. Proofs

All theorems are for arbitrary constants that satisfy the named assumptions.

`PmmProofs` (from `PmmAssumption`: positive sizes, a count of at least two, no
usable region at address 0; nothing about what callers pass). The inductive invariant is the conjunction of
`TypeOK`, `Accounting`, `OwnersMatchBitmap` and `OutOfMemoryIsReal`: counters stay
in range because they count the bitmap; a clear bit is a usable page or one somebody
freed, hence below `total_pages`, because references, bitmap and map agree. For
`OutOfMemoryIsReal` the first free run starts at 0 or right after a used page, so
the skipping search tries it (a least-element argument). `PmmImplementsFrameAlloc` maps
each step to a step of `FrameAlloc` or a stutter.

`ProcProofs` (from `ProcAssumption`: at least two task slots and a process slot).
`TypeOK`, `OneRunning`, `LiveLinkage`, `StoppedIsParked`, `NoLostWakeup` and
`PidsUnique` hold in every reachable state. None is inductive alone: that SIGCONT
releases the right task needs the links, that nobody sleeps through
a child's exit needs unique pids and the parent's task to sleep on the
parent's own slot, that a recycled slot is nobody's needs that terminated
tasks have no live process. The invariant adds that main has no process and is always
runnable and that exactly the slots past `task_count` are unused. It is stated
over arbitrary tables, because operations prepare a table and then yield: an
action establishes it for the prepared table, and `YieldKeeps` carries it over.

Its second part adds the ring, for any number of slots: `RingIntact`, `NeverStuck`, and the
action properties `ZombieUntouched`, `OneReportPerStop` and `DeadStayDead`. `hop` is
recursive, so that its walk exists and is unique is shown by least-element
induction (`WalkExists`, `HopWalks`). The invariant says that some list enumerates the
used slots once each, from main on, in the order of `next` (`OneCycle`). Recycling a
slot takes it out of the list (`Unlink`) and puts it behind the current task (`Splice`);
nothing else touches a link. As the walk of a yield then passes main, which is always
runnable, it finds a task. The action properties follow from what one step may
do to one record (`StepRecords`).

`PipeProofs` (from `PipeAssumption`: finitely many processes, a ring of
at least one byte): all five invariants of the run `pipe`. A count of a pipe is
split into the row of one process and the rest of the table, so that a call that changes
one row changes the count by what that row gained or lost. `Gone` (a dead process holds nothing), `EndsOK`
(an end in the table belongs to an existing pipe), `Inside` (a
process inside a pipe call holds the end it uses) and `Asleep` (a sleeper has reason to sleep) make
it inductive: without `Inside` the last close could free a slot under a
sleeper, without `EndsOK` a copied descriptor could count towards no pipe. `FifoOrder` is
arithmetic modulo the size of the ring, for any size.

`VmLedger` and `VmProofs` (from `VmAssumption`): `TypeOK`, `OwnersMatch` and
`WritableIsPrivate`. The invariant is a ledger: for every frame, the page-table
entries that refer to it, the kernel's hold on it and its lost references add up to
its count; a frame that is writable somewhere has one reference, a held one has none. Every operation on
page tables is a short sequence of entries to the ledger (install, share, hold, map
what was held, release, clear), each with a lemma about it in `VmLedger`. Three more facts make it
inductive: every process and the call under way have roots of their
own (`RootsOK`, `CallOK`), so that a fresh root is nobody's, and the run that exec
still has to map, and its file buffer, are held and disjoint (`ExecOK`).

`FsLedger`, `FsProofs` and `FsRefine` (from `FsAssumption`: what boot creates fits, device
nodes are numbered apart from the others, the paths and modes given to calls
are made of names and permission bits): `TypeOK`, `OffsetInFile`, `PagesAccounted`,
`WritesPermitted` and the refinement of `Files`. The invariant `IInv` has three parts. `TreeOK`: only the
nodes made so far are in use, each below a parent made before it, and a file has
pages enough for its size. `FdsOK`: a descriptor points at a node that has been made
and not beyond its end. `Ledger`, until something is tainted: page 0 is nobody's,
every other page in use is behind one linked file. `FsLedger` shows, without
any step in sight, what the operations of tmpfs and boot leave behind (a node added, a
name removed, a file grown in place or moved to a longer run) and that the ledger
survives each. Path resolution is a recursive walk: that it ends in a node of the tree
(`ResolvePlace`), and that doubling the capacity reaches the size that is asked for
(`DoubledEnough`), are shown by induction over sets of numbers (`Inductive`). `FsProofs`
shows that every call has one of these outcomes and keeps the descriptors in order: an outcome never
shrinks a file that a descriptor may point at (`Later`). `FsRefine` maps a file to
the bytes its pages hold: a write changes exactly the bytes from the offset on, and as the
ledger keeps the pages of two files apart, no other file's.

Only model-checked: `NoLeakUnlessMishap`, `TreeIntact` (which compares two recursive
walks), the refinements of `Memory` and `Volume`, everything about `Fat`, `Installer` and
`Shell`, and the liveness properties, which are out of the prover's reach.

## 5. Not modelled

- *Boot and devices.* Descriptor tables, interrupt controller and timer set-up,
  serial and framebuffer output and `term.c`: device programming without protocol
  state. The register-level ATA handshake is a sector read or written, or an
  error. The state boot leaves behind is the initial state of each module.
- *Data formats.* Scancode tables, quotes and `$VAR` of the shell, the environment
  (cd, export and env only decide which words a command has), text formatting, the bytes of the
  initial stack, registers.
- *Read-only calls.* readdir, stat and getcwd; paths longer than `VFS_MAX_PATH`.
- *User programs* other than the shell, and the user library: straight-line users of
  the system calls. stdio's buffers belong to one process and are flushed by it.
- *Limine.* enroll-config (edits one file in place), version, the option parser, block
  sizes that differ between the device and the partition table, and the third-party
  boot code.
- *TLB.* The code reloads CR3 or uses `invlpg` after every change of a table.
