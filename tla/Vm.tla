--------------------------------- MODULE Vm ---------------------------------
(***************************************************************************)
(* Address spaces: kernel/vmm.c and its callers (fork's clone, the         *)
(* copy-on-write fault, brk, mmap, munmap, exec with elf_load, the         *)
(* teardown at waitpid).                                                   *)
(*                                                                         *)
(* An address space is named by the frame of its root table, as pml4_phys  *)
(* names it.  Its tree of tables is one function from slots to entries: a  *)
(* slot per page, one per region for the tables below the root (the code   *)
(* has up to three levels there), and one in which a live root stands for  *)
(* itself.  So every present entry is one reference to its frame.          *)
(*                                                                         *)
(* kop is the system call under way: kernel code is not interrupted, so    *)
(* nothing else happens until it is Idle again; one step is one turn of    *)
(* the handler's loop.  down is set when the machine stops: an unhandled   *)
(* fault in the kernel, or a table "allocated" at frame 0.                 *)
(* The contents of a free frame are not tracked (kept 0).                  *)
(***************************************************************************)
EXTENDS Integers, Sequences, FiniteSets

CONSTANTS
    Procs,         \* slots of process_pool[]
    NFRAMES,       \* frames the allocator manages
    NPAGES,        \* bound: virtual pages of a process
    MMAP_BASE,     \* first page of the mmap arena (MMAP_ARENA_BASE)
    PAGE_SIZE,
    STACK_PAGE, STACK_PAGES,   \* where exec puts the user stack
    Programs,      \* executables: ELF or not, and their PT_LOAD segments
    Values,        \* page contents
    REF_LIMIT,     \* owner counts are bytes: they wrap at this many (2^8)
    Breaks,        \* bound: breaks asked of brk
    Mmaps,         \* bound: sizes and protections asked of mmap
    Ranges,        \* bound: page ranges given to munmap
    Stores         \* bound: values user programs store

Frames == 1 .. NFRAMES
Pages == 0 .. NPAGES - 1
ROOT == -1
TableOf(v) == IF v < MMAP_BASE THEN -2 ELSE -3
Slots == -3 .. NPAGES - 1

(* Nothing keeps segments apart, or them and the break below the stack;    *)
(* the stack lies below the mmap arena.                                    *)
ASSUME VmAssumption ==
    /\ IsFiniteSet(Procs)
    /\ NFRAMES \in Nat /\ NPAGES \in Nat /\ PAGE_SIZE \in Nat \ {0}
    /\ STACK_PAGES \in Nat /\ STACK_PAGE \in Nat /\ REF_LIMIT \in Nat
    /\ MMAP_BASE \in STACK_PAGE + STACK_PAGES .. NPAGES
    /\ 0 \in Values /\ Breaks \subseteq 0 .. NPAGES * PAGE_SIZE
    /\ Stores \subseteq Values /\ Mmaps \subseteq [pages : Nat, write : BOOLEAN]
    /\ Ranges \subseteq [first : 0 .. NPAGES, end : 0 .. NPAGES]
    /\ \A g \in Programs :
          /\ g.elf \in BOOLEAN
          /\ g.segs \in Seq([first : Nat, pages : Nat, write : BOOLEAN, data : Values])
          /\ \A i \in 1 .. Len(g.segs) : g.segs[i].first + g.segs[i].pages <= NPAGES

VARIABLES
    proc,          \* process table: state, pml4, heap_end, mmap_next
    entry,         \* entry[r][s]: slot s of the tree rooted at frame r
    refcount,      \* the allocator's owner counts
    content,       \* what the frames hold
    held,          \* frames exec has allocated and not mapped (yet)
    lost,          \* references that nothing records any more
    mishaps,       \* what has happened that may lose frames, see Mishaps
    kop, down

vars == <<proc, entry, refcount, content, held, lost, mishaps, kop, down>>

(* A brk or an exec gave up half way; a break or a segment was asked for   *)
(* where something else may be mapped.                                     *)
Mishaps == {"brk", "exec", "overlap"}

NoEntry == [frame |-> 0, write |-> FALSE, cow |-> FALSE]
Leaf(f, w) == [frame |-> f, write |-> w, cow |-> FALSE]
TableEntry(f) == Leaf(f, TRUE)
NoTree == [s \in Slots |-> NoEntry]

Unused == [state |-> "unused", pml4 |-> 0, heap_end |-> 0, mmap_next |-> MMAP_BASE]

(* The system call under way.  next .. end - 1 are the pages still to do,  *)
(* frame the next frame of the run they get.                               *)
Idle == [op |-> "none"]
Bounds == 0 .. NPAGES
BrkOp == [op : {"brk"}, p : Procs, next : Bounds, end : Bounds, to : Nat]
MmapOp == [op : {"mmap"}, p : Procs, base : Bounds, next : Bounds, end : Bounds,
           write : BOOLEAN]
ForkOp == [op : {"fork"}, p : Procs, q : Procs, root : Frames, next : Bounds]
ExecOp == [op : {"exec"}, p : Procs, root : Frames, program : Programs, seg : Nat,
           next : Bounds, end : Bounds, frame : Nat, write : BOOLEAN, buf : Frames]

-----------------------------------------------------------------------------
(* The lowest free frame, which is what pmm_alloc_page returns (Pmm: no    *)
(* free page lies below scan_hint), given the counts rc.                   *)
IsFirstFree(rc, f) == rc[f] = 0 /\ \A g \in Frames : rc[g] = 0 => f <= g
NoneFree(rc) == \A f \in Frames : rc[f] > 0

(* pmm_alloc_pages: the first run of n free frames. *)
Run(f, n) == f .. f + n - 1
IsFreeRun(f, n) == Run(f, n) \subseteq {g \in Frames : refcount[g] = 0}
IsFirstRun(f, n) == IsFreeRun(f, n) /\ \A g \in Frames : IsFreeRun(g, n) => f <= g
NoRun(n) == \A f \in Frames : ~IsFreeRun(f, n)

FirstOwner(S) == [f \in Frames |-> IF f \in S THEN 1 ELSE refcount[f]]

CanRun(p) == ~down /\ kop.op = "none" /\ proc[p].state = "live"

Maps(r, v) == entry[r][v].frame # 0
Tree(p) == entry[proc[p].pml4]

(* vmm_map_4k_in: sets the leaf entry of page v in the tree r, adding the  *)
(* table above it when there is none.  ent and rc are the entries and the  *)
(* counts after what the caller has just done.  The table's allocation is  *)
(* not checked: without a frame, the table is at address 0.                *)
vmm_map_4k_in(ent, rc, r, v, leaf) ==
    /\ lost' = IF Maps(r, v) THEN [lost EXCEPT ![entry[r][v].frame] = @ + 1] ELSE lost
    /\ \/ /\ entry[r][TableOf(v)].frame # 0
          /\ entry' = [ent EXCEPT ![r][v] = leaf]
          /\ refcount' = rc
          /\ UNCHANGED down
       \/ /\ entry[r][TableOf(v)].frame = 0
          /\ \E t \in Frames :
                /\ IsFirstFree(rc, t)
                /\ entry' = [ent EXCEPT ![r][v] = leaf, ![r][TableOf(v)] = TableEntry(t)]
                /\ refcount' = [rc EXCEPT ![t] = 1]
          /\ UNCHANGED down
       \/ /\ entry[r][TableOf(v)].frame = 0 /\ NoneFree(rc)
          /\ down' = TRUE
          /\ UNCHANGED <<entry, refcount>>

(* Mutant: the teardown forgets the tables. *)
Drops_pages(r, S, f) == Cardinality({s \in S \cap Pages : entry[r][s].frame = f})

(* How many references to f the slots S of r hold. *)
Drops(r, S, f) == Cardinality({s \in S : entry[r][s].frame = f})

Less(n, k) == IF n > k THEN n - k ELSE 0

(* pmm_free_page for every present entry among the slots S, which are      *)
(* cleared: munmap, the unwinding of mmap and, with S = Slots,             *)
(* vmm_destroy_address_space.                                              *)
Unmap(r, S) ==
    /\ entry' = [entry EXCEPT ![r] = [s \in Slots |-> IF s \in S THEN NoEntry ELSE @[s]]]
    /\ refcount' = [f \in Frames |-> Less(refcount[f], Drops(r, S, f))]
    /\ content' = [f \in Frames |->
                      IF refcount[f] <= Drops(r, S, f) THEN 0 ELSE content[f]]

-----------------------------------------------------------------------------
(* Execution in user mode and faults. *)

(* A store through a writable entry. *)
Store(p, v, x) ==
    /\ CanRun(p)
    /\ Tree(p)[v].write
    /\ content' = [content EXCEPT ![Tree(p)[v].frame] = x]
    /\ UNCHANGED <<proc, entry, refcount, held, lost, mishaps, kop, down>>

(* Mutant: the last test is off by one. *)
SoleOwner_two(f) == refcount[f] <= 2

SoleOwner(f) == refcount[f] <= 1

(* try_handle_cow_fault, a write to a page that is mapped read-only and    *)
(* marked COW.  It is reached from ring 3, and from the kernel's own       *)
(* copies into user buffers.                                               *)
try_handle_cow_fault(p, v) ==
    LET r == proc[p].pml4
        f == entry[r][v].frame
    IN  /\ CanRun(p)
        /\ Maps(r, v) /\ entry[r][v].cow
        /\ \/ /\ SoleOwner(f)
              /\ entry' = [entry EXCEPT ![r][v] = Leaf(f, TRUE)]
              /\ UNCHANGED <<refcount, content>>
           \/ /\ ~SoleOwner(f)
              /\ \E g \in Frames :
                    /\ IsFirstFree(refcount, g)
                    /\ entry' = [entry EXCEPT ![r][v] = Leaf(g, TRUE)]
                    /\ refcount' = [refcount EXCEPT ![g] = 1, ![f] = @ - 1]
                    /\ content' = [content EXCEPT ![g] = content[f]]
        /\ UNCHANGED <<proc, held, lost, mishaps, kop, down>>

Handled(p, v) ==
    /\ Maps(proc[p].pml4, v) /\ Tree(p)[v].cow
    /\ SoleOwner(Tree(p)[v].frame) \/ ~NoneFree(refcount)

(* exception_handler: any other fault kills a process in ring 3            *)
(* (terminate_current_process) and stops the machine in ring 0.            *)
exception_handler(p, v, ring) ==
    /\ CanRun(p)
    /\ ~Tree(p)[v].write /\ ~Handled(p, v)
    /\ ring = 0 => Tree(p)[v].cow
    /\ \/ ring = 3 /\ proc' = [proc EXCEPT ![p].state = "zombie"] /\ UNCHANGED down
       \/ ring = 0 /\ down' = TRUE /\ UNCHANGED proc
    /\ UNCHANGED <<entry, refcount, content, held, lost, mishaps, kop>>

(* exit, or a fatal signal: the address space stays until waitpid. *)
process_terminate(p) ==
    /\ CanRun(p)
    /\ proc' = [proc EXCEPT ![p].state = "zombie"]
    /\ UNCHANGED <<entry, refcount, content, held, lost, mishaps, kop, down>>

(* waitpid reaps a zombie. *)
process_waitpid(p) ==
    /\ ~down /\ kop.op = "none" /\ proc[p].state = "zombie"
    /\ Unmap(proc[p].pml4, Slots)
    /\ proc' = [proc EXCEPT ![p] = Unused]
    /\ UNCHANGED <<held, lost, mishaps, kop, down>>

-----------------------------------------------------------------------------
(* brk and mmap: one page per step. *)

PageUp(b) == (b + PAGE_SIZE - 1) \div PAGE_SIZE

(* The heap may grow up to the stack and go on past it. *)
Overgrown(b) == IF b > STACK_PAGE * PAGE_SIZE THEN {"overlap"} ELSE {}

(* process_brk with new_brk above heap_end (below it is a query). *)
process_brk(p, new_brk) ==
    /\ CanRun(p)
    /\ new_brk > proc[p].heap_end
    /\ kop' = [op |-> "brk", p |-> p, next |-> PageUp(proc[p].heap_end),
               end |-> PageUp(new_brk), to |-> new_brk]
    /\ mishaps' = mishaps \cup Overgrown(new_brk)
    /\ UNCHANGED <<proc, entry, refcount, content, held, lost, down>>

brk_page ==
    /\ ~down /\ kop.op = "brk"
    /\ LET r == proc[kop.p].pml4 IN
       \/ /\ kop.next < kop.end
          /\ \E f \in Frames :
                /\ IsFirstFree(refcount, f)
                /\ vmm_map_4k_in(entry, [refcount EXCEPT ![f] = 1], r, kop.next, Leaf(f, TRUE))
                /\ content' = [content EXCEPT ![f] = 0]
          /\ kop' = [kop EXCEPT !.next = @ + 1]
          /\ UNCHANGED <<proc, mishaps>>
       \/ /\ kop.next < kop.end /\ NoneFree(refcount)    \* the break stays where it was
          /\ kop' = Idle /\ mishaps' = mishaps \cup {"brk"}
          /\ UNCHANGED <<proc, entry, refcount, content, lost, down>>
       \/ /\ kop.next >= kop.end
          /\ proc' = [proc EXCEPT ![kop.p].heap_end = kop.to]
          /\ kop' = Idle
          /\ UNCHANGED <<entry, refcount, content, lost, mishaps, down>>
    /\ UNCHANGED held

(* process_mmap of an anonymous region; EINVAL and ENODEV change nothing. *)
process_mmap(p, pages, write) ==
    /\ CanRun(p)
    /\ proc[p].mmap_next + pages <= NPAGES
    /\ kop' = [op |-> "mmap", p |-> p, base |-> proc[p].mmap_next,
               next |-> proc[p].mmap_next, end |-> proc[p].mmap_next + pages,
               write |-> write]
    /\ UNCHANGED <<proc, entry, refcount, content, held, lost, mishaps, down>>

(* Mutant: the pages of a failed call stay. *)
Unwound_not == {}

(* What mmap takes back when it runs out half way. *)
Unwound == kop.base .. kop.next - 1

mmap_page ==
    /\ ~down /\ kop.op = "mmap"
    /\ LET r == proc[kop.p].pml4 IN
       \/ /\ kop.next < kop.end
          /\ \E f \in Frames :
                /\ IsFirstFree(refcount, f)
                /\ vmm_map_4k_in(entry, [refcount EXCEPT ![f] = 1], r, kop.next, Leaf(f, kop.write))
                /\ content' = [content EXCEPT ![f] = 0]
          /\ kop' = [kop EXCEPT !.next = @ + 1]
          /\ UNCHANGED proc
       \/ /\ kop.next < kop.end /\ NoneFree(refcount)
          /\ Unmap(r, Unwound)
          /\ kop' = Idle
          /\ UNCHANGED <<proc, lost, down>>
       \/ /\ kop.next >= kop.end
          /\ proc' = [proc EXCEPT ![kop.p].mmap_next = kop.end]
          /\ kop' = Idle
          /\ UNCHANGED <<entry, refcount, content, lost, down>>
    /\ UNCHANGED <<held, mishaps>>

(* process_munmap takes any range: pages that are not mapped are skipped,  *)
(* and nothing asks whether mmap made the others.                          *)
process_munmap(p, first, end) ==
    /\ CanRun(p)
    /\ Unmap(proc[p].pml4, first .. end - 1)
    /\ UNCHANGED <<proc, held, lost, mishaps, kop, down>>

-----------------------------------------------------------------------------
(* fork: vmm_new_address_space, then vmm_clone_lower_half page by page. *)

vmm_new_address_space(r) ==
    /\ IsFirstFree(refcount, r)
    /\ entry' = [entry EXCEPT ![r][ROOT] = TableEntry(r)]
    /\ refcount' = [refcount EXCEPT ![r] = 1]

do_fork(p, q) ==
    /\ CanRun(p)
    /\ proc[q].state = "unused"
    /\ \/ \E r \in Frames :
            /\ vmm_new_address_space(r)
            /\ kop' = [op |-> "fork", p |-> p, q |-> q, root |-> r, next |-> 0]
            /\ UNCHANGED down
       \/ /\ NoneFree(refcount)
          /\ down' = TRUE
          /\ UNCHANGED <<entry, refcount, kop>>
    /\ proc' = [proc EXCEPT ![q].state = "embryo"]
    /\ UNCHANGED <<content, held, lost, mishaps>>

(* Mutant: the parent keeps its writable entry. *)
Downgraded_child(r, v, e) == entry

(* The parent's own entry becomes read-only too. *)
Downgraded(r, v, e) == [entry EXCEPT ![r][v] = e]

Shared(e) == IF e.write THEN [e EXCEPT !.write = FALSE, !.cow = TRUE] ELSE e

(* A byte counts the owners.  Sixteen processes cannot make it overflow,   *)
(* references lost on a shared page can (pmm.c:161): the count would wrap  *)
(* to 0 and say nothing any more.  The model ends there.                   *)
vmm_clone_lower_half ==
    /\ ~down /\ kop.op = "fork"
    /\ LET r == proc[kop.p].pml4
           e == Shared(entry[r][kop.next])
       IN  \/ /\ kop.next < NPAGES /\ Maps(r, kop.next)
              /\ refcount[e.frame] + 1 >= REF_LIMIT
              /\ down' = TRUE
              /\ UNCHANGED <<entry, refcount, lost, kop>>
           \/ /\ kop.next < NPAGES /\ Maps(r, kop.next)
              /\ refcount[e.frame] + 1 < REF_LIMIT
              /\ vmm_map_4k_in(Downgraded(r, kop.next, e), [refcount EXCEPT ![e.frame] = @ + 1],
                               kop.root, kop.next, e)
              /\ kop' = [kop EXCEPT !.next = @ + 1]
           \/ /\ kop.next < NPAGES /\ ~Maps(r, kop.next)
              /\ kop' = [kop EXCEPT !.next = @ + 1]
              /\ UNCHANGED <<entry, refcount, lost, down>>
    /\ UNCHANGED <<proc, content, held, mishaps>>

(* The child takes over the copied tree.  Whether it gets a task and a     *)
(* kernel stack is Proc's subject; here it may simply never run.           *)
process_clone_into ==
    /\ ~down /\ kop.op = "fork" /\ kop.next = NPAGES
    /\ proc' = [proc EXCEPT ![kop.q] = [proc[kop.p] EXCEPT !.pml4 = kop.root]]
    /\ kop' = Idle
    /\ UNCHANGED <<entry, refcount, content, held, lost, mishaps, down>>

-----------------------------------------------------------------------------
(* exec *)

(* elf_load does not look whether segments share a page or reach the       *)
(* stack; user_link.ld keeps those of the repository's programs apart.     *)
Overlapping(g) ==
    IF \A i \in 1 .. Len(g.segs) :
          /\ g.segs[i].first + g.segs[i].pages <= STACK_PAGE
          /\ \A j \in 1 .. i - 1 : g.segs[j].first + g.segs[j].pages <= g.segs[i].first
    THEN {} ELSE {"overlap"}

(* do_exec once the file is found and executable: the buffer the file is   *)
(* read into, and the new root.                                            *)
do_exec(p, g) ==
    /\ CanRun(p)
    /\ \/ /\ NoneFree(refcount)           \* no buffer: ENOEXEC, nothing changed
          /\ UNCHANGED <<entry, refcount, held, kop, down>>
       \/ \E b \in Frames :
            /\ IsFirstFree(refcount, b)
            /\ held' = held \cup {b}
            /\ LET rc == [refcount EXCEPT ![b] = 1] IN
               \/ \E r \in Frames :
                    /\ IsFirstFree(rc, r)
                    /\ entry' = [entry EXCEPT ![r][ROOT] = TableEntry(r)]
                    /\ refcount' = [rc EXCEPT ![r] = 1]
                    /\ kop' = [op |-> "exec", p |-> p, root |-> r, program |-> g, seg |-> 0,
                               next |-> 0, end |-> 0, frame |-> 0, write |-> FALSE, buf |-> b]
                    /\ UNCHANGED down
               \/ /\ NoneFree(rc)
                  /\ down' = TRUE /\ refcount' = rc
                  /\ UNCHANGED <<entry, kop>>
    /\ mishaps' = mishaps \cup Overlapping(g)
    /\ UNCHANGED <<proc, content, lost>>

Segments == kop.program.segs

(* The pages of the current segment, or of the stack, are mapped. *)
exec_page ==
    /\ ~down /\ kop.op = "exec" /\ kop.next < kop.end
    /\ vmm_map_4k_in(entry, refcount, kop.root, kop.next, Leaf(kop.frame, kop.write))
    /\ held' = held \ {kop.frame}
    /\ kop' = [kop EXCEPT !.next = @ + 1, !.frame = @ + 1]
    /\ UNCHANGED <<proc, content, mishaps>>

(* The run of frames for pages first .. first + n - 1. *)
TakeRun(f, first, n, write, x) ==
    /\ IsFirstRun(f, n)
    /\ content' = [g \in Frames |-> IF g \in Run(f, n) THEN x ELSE content[g]]
    /\ kop' = [kop EXCEPT !.seg = @ + 1, !.next = first, !.end = first + n,
                          !.frame = f, !.write = write]

ReleaseBuffer ==
    /\ refcount' = [refcount EXCEPT ![kop.buf] = 0]
    /\ held' = held \ {kop.buf}

(* elf_load's loop: the next PT_LOAD segment, the end, or a failure (not   *)
(* an ELF file, no run of frames).  After a failure the tree built so far  *)
(* is not torn down; the old image is untouched.                           *)
elf_load ==
    /\ ~down /\ kop.op = "exec" /\ kop.next = kop.end /\ kop.seg <= Len(Segments)
    /\ \/ /\ kop.program.elf /\ kop.seg < Len(Segments)
          /\ LET s == Segments[kop.seg + 1] IN \E f \in Frames :
                /\ TakeRun(f, s.first, s.pages, s.write, s.data)
                /\ refcount' = FirstOwner(Run(f, s.pages))
                /\ held' = held \cup Run(f, s.pages)
          /\ UNCHANGED mishaps
       \/ /\ kop.program.elf /\ kop.seg = Len(Segments)
          /\ ReleaseBuffer
          /\ kop' = [kop EXCEPT !.seg = @ + 1]
          /\ UNCHANGED <<content, mishaps>>
       \/ /\ \/ ~kop.program.elf
             \/ kop.seg < Len(Segments) /\ NoRun(Segments[kop.seg + 1].pages)
          /\ ReleaseBuffer
          /\ kop' = Idle /\ mishaps' = mishaps \cup {"exec"}
          /\ UNCHANGED content
    /\ UNCHANGED <<proc, entry, lost, down>>

(* The user stack, whose frames are not cleared. *)
exec_stack ==
    /\ ~down /\ kop.op = "exec" /\ kop.next = kop.end /\ kop.seg = Len(Segments) + 1
    /\ \/ /\ \E f \in Frames, x \in Values :
                /\ TakeRun(f, STACK_PAGE, STACK_PAGES, TRUE, x)
                /\ refcount' = FirstOwner(Run(f, STACK_PAGES))
                /\ held' = held \cup Run(f, STACK_PAGES)
          /\ UNCHANGED mishaps
       \/ /\ NoRun(STACK_PAGES)
          /\ kop' = Idle /\ mishaps' = mishaps \cup {"exec"}
          /\ UNCHANGED <<refcount, held, content>>
    /\ UNCHANGED <<proc, entry, lost, down>>

(* highest_vaddr_out, where the heap starts. *)
SegmentEnds == {Segments[i].first + Segments[i].pages : i \in 1 .. Len(Segments)}
IsHeapStart(h) == h \in {0} \cup SegmentEnds /\ \A e \in SegmentEnds : e <= h

(* Nothing can fail any more: the process switches to the new tree, and    *)
(* the old one is torn down.  mmap_next is not reset.                      *)
exec_commit ==
    /\ ~down /\ kop.op = "exec" /\ kop.next = kop.end /\ kop.seg = Len(Segments) + 2
    /\ \E h \in Bounds :
          /\ IsHeapStart(h)
          /\ proc' = [proc EXCEPT ![kop.p].pml4 = kop.root, ![kop.p].state = "live",
                                  ![kop.p].heap_end = h * PAGE_SIZE]
    /\ IF proc[kop.p].pml4 = 0 THEN UNCHANGED <<entry, refcount, content>>
                               ELSE Unmap(proc[kop.p].pml4, Slots)
    /\ kop' = Idle
    /\ UNCHANGED <<held, lost, mishaps, down>>

-----------------------------------------------------------------------------
(* kmain builds the first process with the same elf_load and stack before  *)
(* anything else runs; a failure there halts the boot.                     *)
Init ==
    \E p \in Procs, r, b \in Frames, g \in Programs :
        /\ r = 1 /\ b = 2 /\ g.elf
        /\ proc = [q \in Procs |-> IF q = p THEN [Unused EXCEPT !.state = "embryo"] ELSE Unused]
        /\ entry = [f \in Frames |-> IF f = r THEN [NoTree EXCEPT ![ROOT] = TableEntry(r)]
                                              ELSE NoTree]
        /\ refcount = [f \in Frames |-> IF f \in {r, b} THEN 1 ELSE 0]
        /\ content = [f \in Frames |-> 0]
        /\ held = {b}
        /\ lost = [f \in Frames |-> 0]
        /\ mishaps = Overlapping(g)
        /\ kop = [op |-> "exec", p |-> p, root |-> r, program |-> g, seg |-> 0, next |-> 0,
                  end |-> 0, frame |-> 0, write |-> FALSE, buf |-> b]
        /\ down = FALSE

Next ==
    \/ \E p \in Procs :
        \/ \E v \in Pages :
              \/ \E x \in Stores : Store(p, v, x)
              \/ try_handle_cow_fault(p, v)
              \/ \E ring \in {0, 3} : exception_handler(p, v, ring)
        \/ process_terminate(p) \/ process_waitpid(p)
        \/ \E b \in Breaks : process_brk(p, b)
        \/ \E g \in Mmaps : process_mmap(p, g.pages, g.write)
        \/ \E g \in Ranges : process_munmap(p, g.first, g.end)
        \/ \E q \in Procs : do_fork(p, q)
        \/ \E g \in Programs : do_exec(p, g)
    \/ brk_page \/ mmap_page \/ vmm_clone_lower_half \/ process_clone_into
    \/ elf_load \/ exec_page \/ exec_stack \/ exec_commit

Spec == Init /\ [][Next]_vars

-----------------------------------------------------------------------------
Entry == [frame : 0 .. NFRAMES, write : BOOLEAN, cow : BOOLEAN]
Process == [state : {"unused", "embryo", "live", "zombie"}, pml4 : 0 .. NFRAMES,
            heap_end : Nat, mmap_next : Bounds]

(* Every variable keeps its type. *)
TypeOK ==
    /\ proc \in [Procs -> Process]
    /\ entry \in [Frames -> [Slots -> Entry]]
    /\ refcount \in [Frames -> Nat]
    /\ content \in [Frames -> Values]
    /\ held \subseteq Frames
    /\ lost \in [Frames -> Nat]
    /\ mishaps \in SUBSET Mishaps /\ down \in BOOLEAN
    /\ kop \in {Idle} \cup BrkOp \cup MmapOp \cup ForkOp \cup ExecOp

(* The slots of all trees that refer to f. *)
Uses(f) == {u \in Frames \X Slots : entry[u[1]][u[2]].frame = f}

(* The allocator's count of a frame is the number of page-table entries    *)
(* that refer to it, plus one if the kernel holds it, plus the references  *)
(* the kernel has forgotten: after any order of forks, faults, exits,      *)
(* unmappings and failures.  The copy-on-write handler decides by this     *)
(* count (exceptions.c:50) and pmm_free_page relies on it.                 *)
OwnersMatch ==
    ~down => \A f \in Frames :
        refcount[f] = Cardinality(Uses(f)) + (IF f \in held THEN 1 ELSE 0) + lost[f]

(* A frame that some entry may write to is in nobody else's tables, page   *)
(* tables themselves included ("the physical page is about to have two     *)
(* owners", vmm.c:195), and the kernel does not use it otherwise.          *)
WritableIsPrivate ==
    ~down => \A f \in Frames : LET U == Uses(f) IN
        \A u \in U : entry[u[1]][u[2]].write => U = {u} /\ f \notin held

(* A reference is lost only after a brk has given up half way or a break   *)
(* or segment was asked for on top of something else, a tree without a     *)
(* process only after an exec has given up: the unwinding of mmap, fork,   *)
(* faults, munmap and the teardown at waitpid lose nothing.                *)
NoLeakUnlessMishap ==
    ~down => \A f \in Frames :
        /\ lost[f] > 0 => mishaps \cap {"brk", "overlap"} # {}
        /\ Maps(f, ROOT) => \/ \E p \in Procs : proc[p].pml4 = f
                            \/ kop.op \in {"fork", "exec"} /\ kop.root = f
                            \/ "exec" \in mishaps

(* Each process has a memory of its own (Memory): copy-on-write, in-place  *)
(* take-over and reuse of frames never show through.                       *)
None == -1
Covers(g, v) == {i \in 1 .. Len(g.segs) : v - g.segs[i].first \in 0 .. g.segs[i].pages - 1}
Image(g, x) ==
    [v \in Pages |->
        IF v \in STACK_PAGE .. STACK_PAGE + STACK_PAGES - 1 THEN x
        ELSE IF Covers(g, v) = {} THEN None
        ELSE g.segs[CHOOSE i \in Covers(g, v) : \A j \in Covers(g, v) : j <= i].data]
Seen(p) == [v \in Pages |-> IF proc[p].pml4 # 0 /\ Maps(proc[p].pml4, v)
                            THEN content[Tree(p)[v].frame] ELSE None]
M == INSTANCE Memory WITH
    mem <- [p \in Procs |-> Seen(p)],
    Images <- {Image(g, x) : g \in Programs, x \in Values}

ImplementsMemory == M!Spec
=============================================================================
