------------------------------ MODULE VmProofs ------------------------------
(***************************************************************************)
(* The steps of the longer calls (a page of brk, mmap or fork, and exec)   *)
(* keep the invariant of VmLedger, and with them every step of Vm does.    *)
(* The theorems hold for every number of processes, frames and pages.      *)
(***************************************************************************)
EXTENDS VmLedger

(* vmm_map_4k_in keeps the types, whether the machine stops in it or not. *)
LEMMA MapStepTypes ==
  ASSUME TypeOK, ~down, NEW ent, NEW rc, NEW r \in Frames, NEW v \in Pages, NEW leaf, NEW H,
         vmm_map_4k_in(ent, rc, r, v, leaf), ~down' => Ledger(entry', refcount', H, lost')
  PROVE  /\ entry' \in [Frames -> [Slots -> Entry]] /\ refcount' \in [Frames -> Nat]
         /\ lost' \in [Frames -> Nat] /\ down' \in BOOLEAN
<1>1. /\ lost' \in [Frames -> Nat] /\ down' \in BOOLEAN
      /\ down' /\ ~down => entry' = entry /\ refcount' = refcount
  BY MapTypes, Zenon
<1>2. CASE down'
  BY <1>1, <1>2, Zenon DEF TypeOK
<1>3. CASE ~down'
  BY <1>1, <1>3, Zenon DEF Ledger, Entries
<1> QED
  BY <1>2, <1>3, Zenon

(* A page of brk or mmap. *)
LEMMA FreshPage ==
  ASSUME TypeOK, Ledger(entry, refcount, held, lost), ~down, NEW r \in Frames, NEW v \in Pages,
         NEW w \in BOOLEAN, NEW f \in Frames, IsFirstFree(refcount, f),
         vmm_map_4k_in(entry, [refcount EXCEPT ![f] = 1], r, v, Leaf(f, w)),
         content' = [content EXCEPT ![f] = 0]
  PROVE  /\ ~down' => Ledger(entry', refcount', held, lost') /\ SameRoots
         /\ entry' \in [Frames -> [Slots -> Entry]] /\ refcount' \in [Frames -> Nat]
         /\ lost' \in [Frames -> Nat] /\ down' \in BOOLEAN /\ content' \in [Frames -> Values]
<1>1. ~down' => Ledger(entry', refcount', held, lost') /\ SameRoots
  BY MapFresh, Zenon DEF IsFirstFree, SameRoots
<1>2. content' \in [Frames -> Values]
  BY VmAssumption, Zenon DEF TypeOK
<1> QED
  BY <1>1, <1>2, MapStepTypes, Zenon

(* A turn of brk's loop. *)
LEMMA BrkPageInv ==
  ASSUME Inv, brk_page
  PROVE  Inv'
<1> DEFINE r == proc[kop.p].pml4
<1>1. /\ ~down /\ TypeOK /\ Ledger(entry, refcount, held, lost) /\ RootsOK /\ CallOK
      /\ kop \in BrkOp /\ kop.op = "brk" /\ held' = held
  BY Up, KopTypes, Zenon DEF brk_page
<1>2. /\ kop.p \in Procs /\ kop.next \in Bounds /\ kop.end \in Bounds /\ kop.to \in Nat
      /\ proc[kop.p].state = "live"
  BY <1>1, Zenon DEF BrkOp, CallOK
<1>3. r \in Frames
  BY <1>1, <1>2, LiveRoot, Zenon
<1>4. ASSUME kop.next < kop.end, NEW f \in Frames, IsFirstFree(refcount, f),
             vmm_map_4k_in(entry, [refcount EXCEPT ![f] = 1], r, kop.next, Leaf(f, TRUE)),
             content' = [content EXCEPT ![f] = 0],
             kop' = [kop EXCEPT !.next = @ + 1], UNCHANGED <<proc, mishaps>>
      PROVE  Inv'
  <2>1. kop.next \in Pages /\ kop.next + 1 \in Bounds
    BY <1>2, <1>4, Sizes DEF Bounds, Pages
  <2>2. kop' \in BrkOp /\ kop'.op = "brk" /\ kop'.p = kop.p
    BY <2>1, <1>1, <1>4, Zenon DEF BrkOp
  <2> HIDE DEF r
  <2>3. /\ ~down' => Ledger(entry', refcount', held, lost') /\ SameRoots
        /\ entry' \in [Frames -> [Slots -> Entry]] /\ refcount' \in [Frames -> Nat]
        /\ lost' \in [Frames -> Nat] /\ down' \in BOOLEAN /\ content' \in [Frames -> Values]
    BY <2>1, <1>1, <1>3, <1>4, FreshPage, Zenon
  <2>4. TypeOK'
    BY <2>2, <2>3, <1>1, <1>4, Zenon DEF TypeOK
  <2>5. ~down' => RootsOK'
    BY <2>3, <1>1, <1>4, RootsStay, Zenon DEF SameProcs
  <2>6. CallOK' /\ ExecOK'
    BY <2>2, <1>2, <1>4, Zenon DEF CallOK, ExecOK
  <2> QED
    BY <2>3, <2>4, <2>5, <2>6, <1>1, Zenon DEF Inv
<1>5. ASSUME kop' = Idle, SameProcs, proc' \in [Procs -> Process], mishaps' \in SUBSET Mishaps,
             UNCHANGED <<entry, refcount, content, lost, down>>
      PROVE  Inv'
  <2>1. TypeOK' /\ kop'.op = "none" /\ Ledger(entry', refcount', held', lost')
    BY <1>1, <1>5, Zenon DEF TypeOK, Idle
  <2>2. RootsOK'
    BY <1>1, <1>5, RootsStay, Zenon DEF SameRoots
  <2> QED
    BY <2>1, <2>2, Between, Zenon
<1>6. CASE /\ kop' = Idle /\ mishaps' = mishaps \cup {"brk"}
           /\ UNCHANGED <<proc, entry, refcount, content, lost, down>>
  BY <1>1, <1>5, <1>6, MishapTypes, Zenon DEF SameProcs, TypeOK
<1>7. CASE /\ proc' = [proc EXCEPT ![kop.p].heap_end = kop.to] /\ kop' = Idle
           /\ UNCHANGED <<entry, refcount, content, lost, mishaps, down>>
  <2>1. SameProcs /\ proc' \in [Procs -> Process]
    BY <1>1, <1>2, <1>7 DEF SameProcs, TypeOK, Process
  <2> QED
    BY <2>1, <1>1, <1>5, <1>7, Zenon DEF TypeOK
<1> QED
  BY <1>4, <1>6, <1>7, Zenon DEF brk_page

(* A turn of mmap's loop. *)
LEMMA MmapPageInv ==
  ASSUME Inv, mmap_page
  PROVE  Inv'
<1> DEFINE r == proc[kop.p].pml4
<1>1. /\ ~down /\ TypeOK /\ Ledger(entry, refcount, held, lost) /\ RootsOK /\ CallOK
      /\ kop \in MmapOp /\ kop.op = "mmap" /\ held' = held /\ mishaps' = mishaps
  BY Up, KopTypes, Zenon DEF mmap_page
<1>2. /\ kop.p \in Procs /\ kop.next \in Bounds /\ kop.end \in Bounds /\ kop.base \in Bounds
      /\ kop.write \in BOOLEAN /\ proc[kop.p].state = "live"
  BY <1>1, Zenon DEF MmapOp, CallOK
<1>3. r \in Frames
  BY <1>1, <1>2, LiveRoot, Zenon
<1>4. ASSUME kop.next < kop.end, NEW f \in Frames, IsFirstFree(refcount, f),
             vmm_map_4k_in(entry, [refcount EXCEPT ![f] = 1], r, kop.next, Leaf(f, kop.write)),
             content' = [content EXCEPT ![f] = 0],
             kop' = [kop EXCEPT !.next = @ + 1], UNCHANGED proc
      PROVE  Inv'
  <2>1. kop.next \in Pages /\ kop.next + 1 \in Bounds
    BY <1>2, <1>4, Sizes DEF Bounds, Pages
  <2>2. kop' \in MmapOp /\ kop'.op = "mmap" /\ kop'.p = kop.p
    BY <2>1, <1>1, <1>4, Zenon DEF MmapOp
  <2> HIDE DEF r
  <2>3. /\ ~down' => Ledger(entry', refcount', held, lost') /\ SameRoots
        /\ entry' \in [Frames -> [Slots -> Entry]] /\ refcount' \in [Frames -> Nat]
        /\ lost' \in [Frames -> Nat] /\ down' \in BOOLEAN /\ content' \in [Frames -> Values]
    BY <2>1, <1>1, <1>2, <1>3, <1>4, FreshPage, Zenon
  <2>4. TypeOK'
    BY <2>2, <2>3, <1>1, <1>4, Zenon DEF TypeOK
  <2>5. ~down' => RootsOK'
    BY <2>3, <1>1, <1>4, RootsStay, Zenon DEF SameProcs
  <2>6. CallOK' /\ ExecOK'
    BY <2>2, <1>2, <1>4, Zenon DEF CallOK, ExecOK
  <2> QED
    BY <2>3, <2>4, <2>5, <2>6, <1>1, Zenon DEF Inv
<1>5. CASE Unmap(r, Unwound) /\ kop' = Idle /\ UNCHANGED <<proc, lost, down>>
  <2>1. Unwound \subseteq Pages
    BY <1>2, Sizes DEF Unwound, Bounds, Pages
  <2>2. Unwound \subseteq Slots /\ ROOT \notin Unwound
    BY <2>1, SlotTypes, Zenon
  <2> HIDE DEF r
  <2>3. Ledger(entry', refcount', held, lost)
    BY <2>2, <1>1, <1>3, <1>5, LedgerUnmap, Zenon
  <2>4. SameRoots /\ content' \in [Frames -> Values]
    BY <2>2, <1>1, <1>3, <1>5, UnmapRoots, UnmapTypes, Zenon
  <2>5. TypeOK' /\ kop'.op = "none"
    BY <2>3, <2>4, <1>1, <1>5, Zenon DEF TypeOK, Ledger, Entries, Idle
  <2>6. RootsOK'
    BY <2>4, <1>1, <1>5, RootsStay, Zenon DEF SameProcs
  <2> QED
    BY <2>3, <2>5, <2>6, <1>1, <1>5, Between, Zenon
<1>6. CASE /\ proc' = [proc EXCEPT ![kop.p].mmap_next = kop.end] /\ kop' = Idle
           /\ UNCHANGED <<entry, refcount, content, lost, down>>
  <2>1. SameProcs /\ proc' \in [Procs -> Process]
    BY <1>1, <1>2, <1>6, SMTT(30) DEF SameProcs, TypeOK, Process
  <2>2. TypeOK' /\ kop'.op = "none" /\ Ledger(entry', refcount', held', lost')
    BY <2>1, <1>1, <1>6, Zenon DEF TypeOK, Idle
  <2>3. RootsOK'
    BY <2>1, <1>1, <1>6, RootsStay, Zenon DEF SameRoots
  <2> QED
    BY <2>2, <2>3, Between, Zenon
<1> QED
  BY <1>4, <1>5, <1>6, ZenonT(40) DEF mmap_page

(* A turn of the loop that clones the lower half. *)
LEMMA CloneInv ==
  ASSUME Inv, vmm_clone_lower_half
  PROVE  Inv'
<1> DEFINE r == proc[kop.p].pml4
           v == kop.next
           e == Shared(entry[r][v])
<1>1. /\ ~down /\ TypeOK /\ Ledger(entry, refcount, held, lost) /\ RootsOK /\ CallOK
      /\ kop \in ForkOp /\ kop.op = "fork"
      /\ proc' = proc /\ content' = content /\ held' = held /\ mishaps' = mishaps
  BY Up, KopTypes, ZenonT(40) DEF vmm_clone_lower_half
<1>2. /\ kop.p \in Procs /\ kop.q \in Procs /\ v \in Bounds /\ kop.root \in Frames
      /\ proc[kop.p].state = "live" /\ proc[kop.q].state = "embryo"
      /\ entry[kop.root][ROOT].frame # 0 /\ \A p \in Procs : proc[p].pml4 # kop.root
  BY <1>1, Zenon DEF ForkOp, CallOK, Maps
<1>3. r \in Frames /\ kop.root # r
  BY <1>1, <1>2, LiveRoot, Zenon
<1>4. CASE UNCHANGED <<entry, refcount, lost, kop>> /\ down' = TRUE
  <2>1. TypeOK'
    BY <1>1, <1>4, Zenon DEF TypeOK
  <2> QED
    BY <2>1, <1>4, Zenon DEF Inv
<1>5. SUFFICES ASSUME /\ kop' = [kop EXCEPT !.next = @ + 1]
                      /\ \/ /\ Maps(r, v)
                            /\ vmm_map_4k_in(Downgraded(r, v, e),
                                             [refcount EXCEPT ![e.frame] = @ + 1], kop.root, v, e)
                         \/ UNCHANGED <<entry, refcount, lost, down>>
               PROVE  Inv'
  BY <1>4, ZenonT(40) DEF vmm_clone_lower_half
<1>6. v \in Pages /\ v + 1 \in Bounds
  <2>1. v < NPAGES
    BY ZenonT(40) DEF vmm_clone_lower_half
  <2> QED
    BY <2>1, <1>2, Sizes DEF Bounds, Pages
<1>7. /\ kop' \in ForkOp /\ kop'.op = "fork" /\ kop'.p = kop.p /\ kop'.q = kop.q
      /\ kop'.root = kop.root
  BY <1>1, <1>6, <1>5, Zenon DEF ForkOp
<1>8. ASSUME ~down' => Ledger(entry', refcount', held, lost') /\ SameRoots,
             entry' \in [Frames -> [Slots -> Entry]], refcount' \in [Frames -> Nat],
             lost' \in [Frames -> Nat], down' \in BOOLEAN
      PROVE  Inv'
  <2>1. TypeOK'
    BY <1>1, <1>7, <1>8, Zenon DEF TypeOK
  <2>2. ~down' => RootsOK'
    BY <1>1, <1>8, RootsStay, Zenon DEF SameProcs
  <2>3. ~down' => CallOK'
    BY <1>1, <1>2, <1>7, <1>8, Zenon DEF CallOK, Maps, SameRoots
  <2>4. ExecOK'
    BY <1>7, Zenon DEF ExecOK
  <2> QED
    BY <2>1, <2>2, <2>3, <2>4, <1>1, <1>8, Zenon DEF Inv
<1>9. CASE /\ Maps(r, v)
           /\ vmm_map_4k_in(Downgraded(r, v, e), [refcount EXCEPT ![e.frame] = @ + 1],
                            kop.root, v, e)
  <2> DEFINE c == kop.root
  <2>1. c \in Frames /\ c # r /\ r \in Frames /\ v \in Pages
    BY <1>2, <1>3, <1>6, Zenon
  <2>2. /\ e = Shared(entry[r][v]) /\ Maps(r, v)
        /\ vmm_map_4k_in(Downgraded(r, v, e), [refcount EXCEPT ![e.frame] = @ + 1], c, v, e)
    BY <1>9, ZenonT(40)
  <2> HIDE DEF c, r, v, e
  <2>3. ~down' => Ledger(entry', refcount', held, lost') /\ SameRoots
    BY <2>1, <2>2, <1>1, MapShared, Zenon DEF SameRoots
  <2>4. /\ entry' \in [Frames -> [Slots -> Entry]] /\ refcount' \in [Frames -> Nat]
        /\ lost' \in [Frames -> Nat] /\ down' \in BOOLEAN
    BY <2>1, <2>2, <2>3, <1>1, MapStepTypes, ZenonT(40)
  <2> QED
    BY <2>3, <2>4, <1>8, Zenon
<1>10. CASE UNCHANGED <<entry, refcount, lost, down>>
  BY <1>1, <1>8, <1>10, Zenon DEF SameRoots, TypeOK
<1> QED
  BY <1>9, <1>10, <1>5, Zenon

(* A process gets the tree that was built for it; the trees in use do not  *)
(* change but for the one it had.                                          *)
LEMMA AdoptRoots ==
  ASSUME RootsOK, NEW p \in Procs, NEW r \in Frames, \A q \in Procs : proc[q].pml4 # r,
         entry[r][ROOT].frame # 0, entry'[r] = entry[r],
         proc'[p].pml4 = r, proc'[p].state = "live", \A q \in Procs : q # p => proc'[q] = proc[q],
         \A x \in Frames : x = proc[p].pml4 \/ entry'[x] = entry[x],
         \A x \in Frames : entry'[x][ROOT] = entry[x][ROOT] \/ entry'[x][ROOT].frame = 0
  PROVE  RootsOK'
<1>0. r # 0 /\ 0 \notin Frames
  BY SMTT(30) DEF Frames
<1>1. \A q \in Procs : IF proc'[q].state \in {"live", "zombie"}
                       THEN proc'[q].pml4 \in Frames /\ entry'[proc'[q].pml4][ROOT].frame # 0
                       ELSE proc'[q].pml4 = 0
  <2> TAKE q \in Procs
  <2>1. CASE q = p
    BY <2>1, Zenon
  <2>2. CASE q # p
    BY <2>2, <1>0, SMTT(30) DEF RootsOK, Maps
  <2> QED
    BY <2>1, <2>2, Zenon
<1>2. \A q, x \in Procs : proc'[q].pml4 = proc'[x].pml4 => q = x \/ proc'[q].pml4 = 0
  BY SMTT(30) DEF RootsOK
<1>3. \A x \in Frames : entry'[x][ROOT].frame # 0 => entry'[x][ROOT].frame = x
  BY DEF RootsOK, Maps
<1> QED
  BY <1>1, <1>2, <1>3, Zenon DEF RootsOK, Maps

(* The child takes over the tree that was cloned for it. *)
LEMMA CloneIntoInv ==
  ASSUME Inv, process_clone_into
  PROVE  Inv'
<1>1. /\ ~down /\ TypeOK /\ Ledger(entry, refcount, held, lost) /\ RootsOK /\ CallOK
      /\ kop \in ForkOp /\ kop.op = "fork"
      /\ UNCHANGED <<entry, refcount, content, held, lost, mishaps, down>> /\ kop' = Idle
      /\ proc' = [proc EXCEPT ![kop.q] = [proc[kop.p] EXCEPT !.pml4 = kop.root]]
  BY Up, KopTypes, Zenon DEF process_clone_into
<1>2. /\ kop.p \in Procs /\ kop.q \in Procs /\ kop.root \in Frames
      /\ proc[kop.p].state = "live"
      /\ entry[kop.root][ROOT].frame # 0 /\ \A p \in Procs : proc[p].pml4 # kop.root
  BY <1>1, Zenon DEF ForkOp, CallOK, Maps
<1>3. /\ proc' \in [Procs -> Process]
      /\ proc'[kop.q].pml4 = kop.root /\ proc'[kop.q].state = "live"
      /\ \A q \in Procs : q # kop.q => proc'[q] = proc[q]
  <2>1. proc[kop.p] \in Process /\ kop.root \in 0 .. NFRAMES
    BY <1>1, <1>2, Sizes DEF TypeOK, Frames
  <2>2. [proc[kop.p] EXCEPT !.pml4 = kop.root] \in Process
    BY <2>1, Zenon DEF Process
  <2> QED
    BY <2>1, <2>2, <1>1, <1>2, Zenon DEF TypeOK, Process
<1>4. TypeOK' /\ kop'.op = "none" /\ Ledger(entry', refcount', held', lost')
  BY <1>1, <1>3, Zenon DEF TypeOK, Idle
<1>5. RootsOK'
  <2> DEFINE p == kop.q
             r == kop.root
  <2>1. /\ p \in Procs /\ r \in Frames /\ entry[r][ROOT].frame # 0
        /\ \A q \in Procs : proc[q].pml4 # r
        /\ proc'[p].pml4 = r /\ proc'[p].state = "live"
        /\ \A q \in Procs : q # p => proc'[q] = proc[q]
    BY <1>2, <1>3, Zenon
  <2>2. entry' = entry
    BY <1>1, Zenon
  <2> HIDE DEF p, r
  <2> QED
    BY <2>1, <2>2, <1>1, AdoptRoots, Zenon
<1> QED
  BY <1>4, <1>5, Between, Zenon

(* exec begins with a fresh root, or gives up. *)
LEMMA DoExecInv ==
  ASSUME Inv, NEW p \in Procs, NEW g \in Programs, do_exec(p, g)
  PROVE  Inv'
<1>1. ~down /\ TypeOK /\ Ledger(entry, refcount, held, lost) /\ RootsOK /\ kop.op = "none"
      /\ proc[p].state = "live"
  BY Up, Zenon DEF do_exec, CanRun
<1>2. proc' = proc /\ content' = content /\ lost' = lost /\ mishaps' \in SUBSET Mishaps
  BY <1>1, MishapTypes, Zenon DEF do_exec, TypeOK
<1>3. CASE UNCHANGED <<entry, refcount, held, kop, down>>
  <2>1. TypeOK' /\ kop'.op = "none" /\ Ledger(entry', refcount', held', lost')
    BY <1>1, <1>2, <1>3, Zenon DEF TypeOK
  <2>2. RootsOK'
    BY <1>1, <1>2, <1>3, RootsStay, Zenon DEF SameProcs, SameRoots
  <2> QED
    BY <2>1, <2>2, Between, Zenon
<1>4. ASSUME NEW b \in Frames, refcount[b] = 0, NEW rc, rc = [refcount EXCEPT ![b] = 1]
      PROVE  rc \in [Frames -> Nat] /\ Ledger(entry, rc, held \cup {b}, lost)
  <2>1. rc \in [Frames -> Nat] /\ \A f \in Frames : rc[f] = IF f \in {b} THEN 1 ELSE refcount[f]
    BY <1>1, <1>4, Zenon DEF TypeOK
  <2> QED
    BY <2>1, <1>1, <1>4, LedgerHold, ZenonT(40)
<1>5. ASSUME NEW b \in Frames, refcount[b] = 0, held' = held \cup {b}, down' = TRUE,
             refcount' = [refcount EXCEPT ![b] = 1], UNCHANGED <<entry, kop>>
      PROVE  Inv'
  <2>1. TypeOK'
    BY <1>1, <1>2, <1>4, <1>5, Zenon DEF TypeOK
  <2> QED
    BY <2>1, <1>5, Zenon DEF Inv
<1>6. ASSUME NEW b \in Frames, refcount[b] = 0, held' = held \cup {b},
             NEW rc, rc = [refcount EXCEPT ![b] = 1],
             NEW r \in Frames, rc[r] = 0, entry' = [entry EXCEPT ![r][ROOT] = TableEntry(r)],
             refcount' = [rc EXCEPT ![r] = 1], UNCHANGED down,
             kop' = [op |-> "exec", p |-> p, root |-> r, program |-> g, seg |-> 0,
                     next |-> 0, end |-> 0, frame |-> 0, write |-> FALSE, buf |-> b]
      PROVE  Inv'
  <2>1. Ledger(entry, rc, held', lost)
    BY <1>4, <1>6, ZenonT(40)
  <2>2. /\ Ledger(entry', refcount', held', lost')
        /\ entry'[r][ROOT].frame = r
        /\ \A x \in Frames : x # r => entry'[x] = entry[x]
        /\ \A x \in Procs : proc[x].pml4 # r
    <3>1. /\ Ledger(entry', [rc EXCEPT ![r] = 1], held', lost)
          /\ entry'[r][ROOT].frame = r
          /\ \A x \in Frames : x # r => entry'[x] = entry[x]
          /\ \A x \in Procs : proc[x].pml4 # r
      <4>1. rc[r] = 0 /\ entry' = [entry EXCEPT ![r][ROOT] = TableEntry(r)]
        BY <1>6, Zenon
      <4> QED
        BY <4>1, <2>1, <1>1, NewRoot, ZenonT(40)
    <3> QED
      BY <3>1, <2>1, <1>2, <1>6, Zenon
  <2>3. RootsOK'
    BY <2>2, <1>1, <1>2, NewRootRoots, Zenon DEF SameProcs
  <2>4. kop' \in ExecOp
    BY <1>6, Sizes DEF ExecOp, Bounds
  <2>5. TypeOK'
    BY <2>2, <2>4, <1>1, <1>2, <1>6, ZenonT(40) DEF TypeOK, Ledger, Entries
  <2>6. CallOK'
    <3>1. kop'.op = "exec" /\ kop'.p = p /\ kop'.root = r /\ r # 0
      BY <1>6 DEF Frames
    <3> QED
      BY <3>1, <2>2, <1>1, <1>2, ZenonT(40) DEF CallOK, Maps
  <2>7. ExecOK'
    BY <1>6 DEF ExecOK, Run
  <2> QED
    BY <2>2, <2>3, <2>5, <2>6, <2>7, Zenon DEF Inv
<1> QED
  BY <1>3, <1>5, <1>6, Zenon DEF do_exec, IsFirstFree

(* exec maps a page of the run it holds. *)
LEMMA ExecPageInv ==
  ASSUME Inv, exec_page
  PROVE  Inv'
<1> DEFINE r == kop.root
           v == kop.next
           f == kop.frame
<1>1. /\ ~down /\ TypeOK /\ Ledger(entry, refcount, held, lost) /\ RootsOK /\ CallOK /\ ExecOK
      /\ kop \in ExecOp /\ kop.op = "exec"
      /\ proc' = proc /\ content' = content /\ mishaps' = mishaps
  BY Up, KopTypes, Zenon DEF exec_page
<1>2. /\ v < kop.end /\ held' = held \ {f}
      /\ vmm_map_4k_in(entry, refcount, r, v, Leaf(f, kop.write))
      /\ kop' = [kop EXCEPT !.next = @ + 1, !.frame = @ + 1]
  BY Zenon DEF exec_page
<1>3. /\ v \in Bounds /\ kop.end \in Bounds /\ f \in Nat /\ r \in Frames /\ kop.write \in BOOLEAN
      /\ kop.seg \in Nat /\ kop.buf \in Frames
  BY <1>1, Zenon DEF ExecOp
<1>4. v \in Pages /\ v + 1 \in Bounds
  BY <1>2, <1>3, Sizes, SMTT(30) DEF Bounds, Pages
<1>5. f \in Run(f, kop.end - v) /\ Run(f, kop.end - v) \subseteq held
  <2>1. Run(f, kop.end - v) \subseteq held
    BY <1>1, Zenon DEF ExecOK
  <2>2. f \in Run(f, kop.end - v)
    BY <1>2, <1>3 DEF Run, Bounds
  <2> QED
    BY <2>1, <2>2, Zenon
<1>6. /\ kop' \in ExecOp /\ kop'.op = "exec" /\ kop'.p = kop.p /\ kop'.root = r
      /\ kop'.program = kop.program /\ kop'.seg = kop.seg /\ kop'.next = v + 1
      /\ kop'.end = kop.end /\ kop'.frame = f + 1 /\ kop'.buf = kop.buf
  <2>1. kop' = [kop EXCEPT !.next = v + 1, !.frame = f + 1]
    BY <1>2, Zenon
  <2>2. f + 1 \in Nat
    BY <1>3
  <2> HIDE DEF r, v, f
  <2>3. kop' \in ExecOp
    BY <2>1, <2>2, <1>1, <1>4, Zenon DEF ExecOp
  <2>4. /\ kop'.op = "exec" /\ kop'.p = kop.p /\ kop'.root = kop.root
        /\ kop'.program = kop.program /\ kop'.seg = kop.seg /\ kop'.next = v + 1
        /\ kop'.end = kop.end /\ kop'.frame = f + 1 /\ kop'.buf = kop.buf
    BY <2>1, <1>1, Zenon DEF ExecOp
  <2> QED
    BY <2>3, <2>4, Zenon DEF r
<1>7. ~down' => Ledger(entry', refcount', held', lost') /\ SameRoots
  <2> HIDE DEF r, v, f
  <2> QED
    BY <1>1, <1>2, <1>3, <1>4, <1>5, MapHeld, Zenon DEF SameRoots
<1>8. /\ entry' \in [Frames -> [Slots -> Entry]] /\ refcount' \in [Frames -> Nat]
      /\ lost' \in [Frames -> Nat] /\ down' \in BOOLEAN
  <2> HIDE DEF r, v, f
  <2> QED
    BY <1>1, <1>2, <1>3, <1>4, <1>7, MapStepTypes, ZenonT(40)
<1>9. TypeOK'
  BY <1>1, <1>2, <1>6, <1>8, Zenon DEF TypeOK
<1>10. ~down' => RootsOK'
  BY <1>1, <1>7, RootsStay, Zenon DEF SameProcs
<1>11. ~down' => CallOK'
  BY <1>1, <1>6, <1>7, ZenonT(40) DEF CallOK, Maps, SameRoots, ExecOp
<1>12. ExecOK'
  <2>1. Run(f + 1, kop.end - (v + 1)) = Run(f, kop.end - v) \ {f}
    BY <1>2, <1>3 DEF Run, Bounds
  <2>2. v + 1 <= kop.end
    BY <1>2, <1>3 DEF Bounds
  <2>3. Run(f + 1, kop.end - (v + 1)) \subseteq held'
    BY <2>1, <1>2, <1>5, Zenon
  <2>4. kop.seg <= Len(kop.program.segs) =>
           kop.buf \in held' /\ kop.buf \notin Run(f + 1, kop.end - (v + 1))
    BY <2>1, <1>1, <1>2, <1>5, Zenon DEF ExecOK, Segments
  <2> QED
    BY <2>2, <2>3, <2>4, <1>6, Zenon DEF ExecOK, Segments
<1> QED
  BY <1>7, <1>9, <1>10, <1>11, <1>12, Zenon DEF Inv

(* exec takes a run of frames for a segment or the stack. *)
LEMMA TakeRunInv ==
  ASSUME Inv, ~down, kop.op = "exec", kop.next = kop.end,
         NEW f \in Frames, NEW first \in Nat, NEW n \in Nat, first + n <= NPAGES,
         NEW write \in BOOLEAN, NEW x \in Values, TakeRun(f, first, n, write, x),
         refcount' = FirstOwner(Run(f, n)), held' = held \cup Run(f, n),
         UNCHANGED <<proc, entry, lost, mishaps, down>>
  PROVE  Inv'
<1> DEFINE S == Run(f, n)
<1>1. /\ TypeOK /\ Ledger(entry, refcount, held, lost) /\ RootsOK /\ CallOK /\ ExecOK
      /\ kop \in ExecOp
  BY Up, KopTypes, Zenon
<1>2. S \subseteq Frames /\ \A g \in S : refcount[g] = 0
  BY Zenon DEF TakeRun, IsFirstRun, IsFreeRun
<1>3. first \in Bounds /\ first + n \in Bounds /\ f \in Nat
  BY Sizes, SMTT(30) DEF Bounds, Frames
<1>4. kop.seg \in Nat /\ kop.buf \in Frames /\ kop.p \in Procs /\ kop.root \in Frames
  BY <1>1, Zenon DEF ExecOp
<1>5. /\ kop' \in ExecOp /\ kop'.op = "exec" /\ kop'.p = kop.p /\ kop'.root = kop.root
      /\ kop'.program = kop.program /\ kop'.seg = kop.seg + 1 /\ kop'.next = first
      /\ kop'.end = first + n /\ kop'.frame = f /\ kop'.buf = kop.buf
  <2>1. kop' = [kop EXCEPT !.seg = kop.seg + 1, !.next = first, !.end = first + n,
                           !.frame = f, !.write = write]
    BY Zenon DEF TakeRun
  <2>2. kop.seg + 1 \in Nat
    BY <1>4
  <2>3. kop' \in ExecOp
    BY <2>1, <2>2, <1>1, <1>3, Zenon DEF ExecOp
  <2>4. /\ kop'.op = "exec" /\ kop'.p = kop.p /\ kop'.root = kop.root
        /\ kop'.program = kop.program /\ kop'.seg = kop.seg + 1 /\ kop'.next = first
        /\ kop'.end = first + n /\ kop'.frame = f /\ kop'.buf = kop.buf
    BY <2>1, <1>1, Zenon DEF ExecOp
  <2> QED
    BY <2>3, <2>4, Zenon
<1>6. /\ refcount' \in [Frames -> Nat]
      /\ \A g \in Frames : refcount'[g] = IF g \in S THEN 1 ELSE refcount[g]
  BY <1>1, Zenon DEF FirstOwner, TypeOK
<1>7. content' \in [Frames -> Values]
  BY <1>1, Zenon DEF TakeRun, TypeOK
<1> HIDE DEF S
<1>8. Ledger(entry', refcount', held', lost')
  <2>1. Ledger(entry, refcount', held \cup S, lost)
    BY <1>1, <1>2, <1>6, LedgerHold, ZenonT(40)
  <2> QED
    BY <2>1, Zenon DEF S
<1>9. TypeOK'
  BY <1>1, <1>5, <1>7, <1>8, Zenon DEF TypeOK, Ledger, Entries
<1>10. RootsOK'
  BY <1>1, RootsStay, ZenonT(40) DEF SameProcs, SameRoots
<1>11. CallOK'
  BY <1>1, <1>5, Zenon DEF CallOK, Maps
<1>12. ExecOK'
  <2>1. first + n - first = n /\ first <= first + n
    OBVIOUS
  <2>2. S \subseteq held'
    BY Zenon DEF S
  <2>3. kop.seg + 1 <= Len(Segments) => kop.buf \in held' /\ kop.buf \notin S
    <3> SUFFICES ASSUME kop.seg + 1 <= Len(Segments) PROVE kop.buf \in held' /\ kop.buf \notin S
      BY Zenon
    <3>1. kop.program \in Programs
      BY <1>1, Zenon DEF ExecOp
    <3>2. Len(Segments) \in Nat
      BY <3>1, Sizes DEF Segments
    <3>3. kop.buf \in held
      BY <3>2, <1>1, <1>4, SMTT(30) DEF ExecOK
    <3>4. kop.buf \notin S
      <4> HIDE DEF S
      <4>1. ASSUME NEW g \in S
            PROVE  g \notin held
        <5>1. g \in Frames /\ refcount[g] = 0
          BY <1>2, Zenon
        <5> QED
          BY <5>1, <1>1, Fresh, Zenon
      <4> QED
        BY <4>1, <3>3, Zenon
    <3> QED
      BY <3>3, <3>4, Zenon
  <2> QED
    BY <2>1, <2>2, <2>3, <1>5, SMTT(30) DEF ExecOK, Segments, S
<1> QED
  BY <1>8, <1>9, <1>10, <1>11, <1>12, Zenon DEF Inv

(* exec goes on or gives up once the tables are as the call left them. *)
LEMMA ExecRestInv ==
  ASSUME Inv, ~down, kop.op = "exec", kop.next = kop.end,
         \/ kop' = Idle
         \/ kop' = [kop EXCEPT !.seg = @ + 1] /\ kop.seg = Len(Segments),
         Ledger(entry, refcount', held', lost), mishaps' \in SUBSET Mishaps,
         UNCHANGED <<proc, entry, content, lost, down>>
  PROVE  Inv'
<1>1. /\ TypeOK /\ RootsOK /\ CallOK /\ ExecOK /\ kop \in ExecOp
  BY Up, KopTypes, Zenon
<1>2. RootsOK'
  BY <1>1, RootsStay, Zenon DEF SameProcs, SameRoots
<1>3. Ledger(entry', refcount', held', lost')
  BY Zenon
<1>4. CASE kop' = Idle
  <2>1. TypeOK' /\ kop'.op = "none"
    BY <1>1, <1>3, <1>4, Zenon DEF TypeOK, Ledger, Entries, Idle
  <2> QED
    BY <2>1, <1>2, <1>3, Between, Zenon
<1>5. CASE kop' = [kop EXCEPT !.seg = @ + 1] /\ kop.seg = Len(Segments)
  <2>1. kop.seg \in Nat /\ kop.frame \in Nat /\ kop.end \in Bounds
    BY <1>1, Zenon DEF ExecOp
  <2>2. /\ kop' \in ExecOp /\ kop'.op = "exec" /\ kop'.p = kop.p /\ kop'.root = kop.root
        /\ kop'.program = kop.program /\ kop'.seg = kop.seg + 1 /\ kop'.next = kop.next
        /\ kop'.end = kop.end /\ kop'.frame = kop.frame
    BY <2>1, <1>1, <1>5 DEF ExecOp
  <2>3. TypeOK'
    BY <2>2, <1>1, <1>3, Zenon DEF TypeOK, Ledger, Entries
  <2>4. CallOK'
    BY <2>2, <1>1, Zenon DEF CallOK, Maps
  <2>5. Run(kop.frame, kop.end - kop.next) = {}
    BY <2>1 DEF Run, Bounds
  <2>6. ~(kop.seg + 1 <= Len(Segments)) /\ kop.next <= kop.end
    BY <2>1, <1>5 DEF Bounds
  <2>7. ExecOK'
    BY <2>2, <2>5, <2>6, Zenon DEF ExecOK, Segments
  <2> QED
    BY <2>3, <2>4, <2>7, <1>2, <1>3, Zenon DEF Inv
<1> QED
  BY <1>4, <1>5, Zenon

(* exec takes the frames of the next segment, or gives the buffer of the file *)
(* back. *)
LEMMA ElfLoadInv ==
  ASSUME Inv, elf_load
  PROVE  Inv'
<1>1. /\ ~down /\ TypeOK /\ Ledger(entry, refcount, held, lost) /\ ExecOK
      /\ kop \in ExecOp /\ kop.op = "exec" /\ kop.next = kop.end /\ kop.seg <= Len(Segments)
      /\ UNCHANGED <<proc, entry, lost, down>>
  BY Up, KopTypes, Zenon DEF elf_load
<1>2. kop.program \in Programs /\ kop.seg \in Nat
  BY <1>1, Zenon DEF ExecOp
<1>3. CASE kop.seg < Len(Segments) /\ \E f \in Frames :
             /\ TakeRun(f, Segments[kop.seg + 1].first, Segments[kop.seg + 1].pages,
                        Segments[kop.seg + 1].write, Segments[kop.seg + 1].data)
             /\ refcount' = FirstOwner(Run(f, Segments[kop.seg + 1].pages))
             /\ held' = held \cup Run(f, Segments[kop.seg + 1].pages)
             /\ UNCHANGED mishaps
  <2> DEFINE s == Segments[kop.seg + 1]
  <2>1. /\ s \in [first : Nat, pages : Nat, write : BOOLEAN, data : Values]
        /\ s.first + s.pages <= NPAGES
    <3>1. /\ Segments \in Seq([first : Nat, pages : Nat, write : BOOLEAN, data : Values])
          /\ \A i \in 1 .. Len(Segments) : Segments[i].first + Segments[i].pages <= NPAGES
      BY <1>2, VmAssumption, Zenon DEF Segments
    <3>2. kop.seg + 1 \in 1 .. Len(Segments)
      <4>1. Len(Segments) \in Nat
        BY <3>1
      <4>2. kop.seg \in Nat /\ kop.seg < Len(Segments)
        BY <1>2, <1>3, Zenon
      <4> QED
        BY <4>1, <4>2
    <3>3. ASSUME NEW X, NEW q \in Seq(X), NEW i \in 1 .. Len(q) PROVE q[i] \in X
      OBVIOUS
    <3>4. s \in [first : Nat, pages : Nat, write : BOOLEAN, data : Values]
      BY <3>1, <3>2, <3>3, Zenon
    <3>5. s.first + s.pages <= NPAGES
      BY <3>1, <3>2, Zenon
    <3> QED
      BY <3>4, <3>5, Zenon
  <2>2. PICK f \in Frames : /\ TakeRun(f, s.first, s.pages, s.write, s.data)
                            /\ refcount' = FirstOwner(Run(f, s.pages))
                            /\ held' = held \cup Run(f, s.pages)
                            /\ UNCHANGED mishaps
    BY <1>3, Zenon
  <2> HIDE DEF s
  <2>3. s.first \in Nat /\ s.pages \in Nat /\ s.write \in BOOLEAN /\ s.data \in Values
    BY <2>1, Zenon
  <2> QED
    BY <2>1, <2>2, <2>3, <1>1, TakeRunInv, Zenon
<1>4. CASE /\ ReleaseBuffer /\ UNCHANGED content /\ mishaps' \in SUBSET Mishaps
           /\ kop' = Idle \/ (kop' = [kop EXCEPT !.seg = @ + 1] /\ kop.seg = Len(Segments))
  <2>1. kop.buf \in held
    BY <1>1, Zenon DEF ExecOK
  <2>2. Ledger(entry, refcount', held', lost)
    BY <2>1, <1>1, <1>4, LedgerRelease, ZenonT(40) DEF ReleaseBuffer
  <2> QED
    BY <2>2, <1>1, <1>4, ExecRestInv, Zenon
<1>5. CASE /\ kop.seg = Len(Segments) /\ ReleaseBuffer /\ kop' = [kop EXCEPT !.seg = @ + 1]
           /\ UNCHANGED <<content, mishaps>>
  BY <1>1, <1>4, <1>5, Zenon DEF TypeOK
<1>6. CASE ReleaseBuffer /\ kop' = Idle /\ mishaps' = mishaps \cup {"exec"} /\ UNCHANGED content
  BY <1>1, <1>4, <1>6, MishapTypes, Zenon DEF TypeOK
<1> QED
  BY <1>3, <1>5, <1>6, Zenon DEF elf_load

(* exec takes the frames of the stack. *)
LEMMA ExecStackInv ==
  ASSUME Inv, exec_stack
  PROVE  Inv'
<1>1. /\ ~down /\ TypeOK /\ Ledger(entry, refcount, held, lost)
      /\ kop.op = "exec" /\ kop.next = kop.end
      /\ UNCHANGED <<proc, entry, lost, down>>
  BY Up, Zenon DEF exec_stack
<1>2. CASE \E f \in Frames, x \in Values :
             /\ TakeRun(f, STACK_PAGE, STACK_PAGES, TRUE, x)
             /\ refcount' = FirstOwner(Run(f, STACK_PAGES))
             /\ held' = held \cup Run(f, STACK_PAGES)
             /\ UNCHANGED mishaps
  <2>1. STACK_PAGE \in Nat /\ STACK_PAGES \in Nat /\ STACK_PAGE + STACK_PAGES <= NPAGES
    BY Sizes
  <2> QED
    BY <2>1, <1>1, <1>2, TakeRunInv, ZenonT(40)
<1>3. CASE /\ kop' = Idle /\ mishaps' = mishaps \cup {"exec"}
           /\ UNCHANGED <<refcount, held, content>>
  <2>1. mishaps' \in SUBSET Mishaps
    BY <1>1, <1>3, MishapTypes, Zenon DEF TypeOK
  <2> QED
    BY <2>1, <1>1, <1>3, ExecRestInv, Zenon
<1> QED
  BY <1>2, <1>3, ZenonT(40) DEF exec_stack

(* exec replaces the old address space, which is destroyed. *)
LEMMA ExecCommitInv ==
  ASSUME Inv, exec_commit
  PROVE  Inv'
<1> DEFINE p == kop.p
           r == kop.root
           o == proc[p].pml4
<1>1. /\ ~down /\ TypeOK /\ Ledger(entry, refcount, held, lost) /\ RootsOK /\ CallOK
      /\ kop \in ExecOp /\ kop.op = "exec" /\ kop' = Idle
      /\ held' = held /\ lost' = lost /\ mishaps' = mishaps /\ down' = down
  BY Up, KopTypes, Zenon DEF exec_commit
<1>2. /\ p \in Procs /\ r \in Frames
      /\ entry[r][ROOT].frame # 0 /\ \A q \in Procs : proc[q].pml4 # r
  BY <1>1, Zenon DEF ExecOp, CallOK, Maps
<1>3. PICK h \in Bounds :
         proc' = [proc EXCEPT ![p].pml4 = r, ![p].state = "live", ![p].heap_end = h * PAGE_SIZE]
  BY ZenonT(40) DEF exec_commit
<1>4. h * PAGE_SIZE \in Nat /\ r \in 0 .. NFRAMES
  BY <1>2, Sizes DEF Bounds, Frames
<1>5. o = 0 \/ o \in Frames
  BY <1>1, <1>2, Zenon DEF RootsOK
<1>6. /\ Ledger(entry', refcount', held, lost) /\ content' \in [Frames -> Values]
      /\ \A x \in Frames : x = o \/ entry'[x] = entry[x]
      /\ \A x \in Frames : entry'[x][ROOT] = entry[x][ROOT] \/ entry'[x][ROOT].frame = 0
  <2>1. CASE o = 0
    <3>1. UNCHANGED <<entry, refcount, content>>
      BY <2>1, Zenon DEF exec_commit
    <3> QED
      BY <3>1, <1>1, Zenon DEF TypeOK
  <2>2. CASE o # 0
    <3>1. Unmap(o, Slots) /\ o \in Frames
      BY <2>2, <1>5, Zenon DEF exec_commit
    <3> HIDE DEF o
    <3> QED
      BY <3>1, <1>1, LedgerUnmap, UnmapTypes, UnmapRoots, Zenon
  <2> QED
    BY <2>1, <2>2, ZenonT(40)
<1> HIDE DEF p, r
<1>7. /\ proc' \in [Procs -> Process] /\ proc'[p].pml4 = r /\ proc'[p].state = "live"
      /\ \A q \in Procs : q # p => proc'[q] = proc[q]
  <2>1. proc \in [Procs -> Process]
    BY <1>1, Zenon DEF TypeOK
  <2> QED
    BY <2>1, <1>2, <1>3, <1>4, ZenonT(40) DEF Process
<1>8. TypeOK' /\ kop'.op = "none"
  BY <1>1, <1>6, <1>7, Zenon DEF TypeOK, Ledger, Entries, Idle
<1>9. entry'[r] = entry[r]
  BY <1>2, <1>6, ZenonT(40)
<1>10. RootsOK'
  BY <1>1, <1>2, <1>6, <1>7, <1>9, AdoptRoots, ZenonT(40)
<1> QED
  BY <1>1, <1>6, <1>8, <1>10, Between, Zenon

-----------------------------------------------------------------------------
(* Nothing changes. *)
LEMMA StutterInv ==
  ASSUME Inv, UNCHANGED vars
  PROVE  Inv'
<1>1. /\ proc' = proc /\ entry' = entry /\ refcount' = refcount /\ content' = content
      /\ held' = held /\ lost' = lost /\ mishaps' = mishaps /\ kop' = kop /\ down' = down
  BY Zenon DEF vars
<1>2. TypeOK' /\ (RootsOK' <=> RootsOK) /\ (CallOK' <=> CallOK) /\ (ExecOK' <=> ExecOK)
  BY <1>1, ZenonT(40) DEF Inv, TypeOK, RootsOK, CallOK, ExecOK, Maps, Segments
<1> QED
  BY <1>1, <1>2, Zenon DEF Inv

(* Every step keeps the invariant. *)
LEMMA NextInv ==
  ASSUME Inv, [Next]_vars
  PROVE  Inv'
<1>1. CASE Next
  BY <1>1, StoreInv, CowInv, FaultInv, ExitInv, WaitpidInv, BrkInv, MmapInv, MunmapInv, ForkInv,
     DoExecInv, BrkPageInv, MmapPageInv, CloneInv, CloneIntoInv, ElfLoadInv, ExecPageInv,
     ExecStackInv, ExecCommitInv, Zenon
    DEF Next
<1>2. CASE UNCHANGED vars
  BY <1>2, StutterInv, Zenon
<1> QED
  BY <1>1, <1>2, Zenon

(* The invariant holds in every state. *)
THEOREM VmInvariant == Spec => []Inv
<1> QED
  BY InitInv, NextInv, PTL DEF Spec

(* The variables of vmm.c and of the calls keep their types, whatever the  *)
(* number of processes, frames and pages.                                  *)
THEOREM VmTypeOK == Spec => []TypeOK
<1>1. Inv => TypeOK
  BY Zenon DEF Inv
<1> QED
  BY <1>1, VmInvariant, PTL

(* The allocator's count of a frame is the number of its owners: what      *)
(* try_handle_cow_fault and pmm_free_page decide by.                       *)
THEOREM VmOwnersMatch == Spec => []OwnersMatch
<1>1. Inv => OwnersMatch
  BY ZenonT(40) DEF Inv, Ledger, Counted, OwnersMatch, Uses, UsesIn, Unit
<1> QED
  BY <1>1, VmInvariant, PTL

(* No two owners of a frame that one of them may write to. *)
THEOREM VmWritableIsPrivate == Spec => []WritableIsPrivate
<1>1. ASSUME Inv, ~down, NEW f \in Frames, NEW u \in Uses(f), entry[u[1]][u[2]].write
      PROVE  Uses(f) = {u} /\ f \notin held
  <2>1. Ledger(entry, refcount, held, lost) /\ f # 0
    BY <1>1 DEF Inv, Frames
  <2>2. u \in Frames \X Slots /\ entry[u[1]][u[2]].frame = f
    BY Zenon DEF Uses
  <2>3. PICK r \in Frames, s \in Slots : u = <<r, s>>
    BY <2>2, SMTT(30)
  <2>4. \A q \in Frames, t \in Slots : entry[q][t].frame = f => <<q, t>> = u
    BY <2>1, <2>2, <2>3, <1>1, SMTT(30) DEF Ledger, Private
  <2>5. Uses(f) \subseteq {u}
    BY <2>4, SMTT(30) DEF Uses
  <2>6. f \notin held
    BY <2>1, <2>2, <2>3, Zenon DEF Ledger, HeldUnused
  <2> QED
    BY <2>5, <2>6, Zenon
<1>2. Inv => WritableIsPrivate
  BY <1>1, Zenon DEF WritableIsPrivate
<1> QED
  BY <1>2, VmInvariant, PTL

=============================================================================
