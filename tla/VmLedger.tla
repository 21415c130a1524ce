------------------------------ MODULE VmLedger ------------------------------
(***************************************************************************)
(* Lemmas about Vm's page tables and frame counts, for every number of     *)
(* frames and pages, and the inductive invariant they carry.               *)
(*                                                                         *)
(* The ledger: references in page tables, frames held by the kernel and    *)
(* lost references add up to the allocator's counts; what is writable has  *)
(* one reference; what is held has none.  Each operation on page tables is *)
(* a short sequence of entries to the ledger (install, share, hold, map    *)
(* what was held, release, clear), each with a lemma.                      *)
(*                                                                         *)
(* The inductive invariant is the ledger with what the calls rely on (who  *)
(* owns which root, and what exec holds); the initial state, page faults,  *)
(* exits, waitpid, munmap and the first step of brk, mmap and fork keep it.*)
(***************************************************************************)
EXTENDS Vm, FiniteSetTheorems, TLAPS

Entries == [Frames -> [Slots -> Entry]]
UsesIn(ent, f) == {u \in Frames \X Slots : ent[u[1]][u[2]].frame = f}
With(ent, r, s, e) == [ent EXCEPT ![r][s] = e]
Updates(new, ent, r, s, e) == new = With(ent, r, s, e)
Unit(b) == IF b THEN 1 ELSE 0

Counted(ent, rc, H, L) ==
    \A f \in Frames : rc[f] = Cardinality(UsesIn(ent, f)) + Unit(f \in H) + L[f]
Private(ent) ==
    \A r, q \in Frames, s, t \in Slots :
        (ent[r][s].write /\ ent[r][s].frame # 0 /\ ent[q][t].frame = ent[r][s].frame)
            => q = r /\ t = s
HeldUnused(ent, H, L) ==
    \A f \in H : L[f] = 0 /\ \A r \in Frames, s \in Slots : ent[r][s].frame # f

Ledger(ent, rc, H, L) ==
    /\ ent \in Entries /\ rc \in [Frames -> Nat] /\ L \in [Frames -> Nat] /\ H \subseteq Frames
    /\ Counted(ent, rc, H, L)
    /\ Private(ent)
    /\ HeldUnused(ent, H, L)

-----------------------------------------------------------------------------
(* Facts about sets. *)

(* The sizes are numbers. *)
LEMMA Sizes ==
  /\ NPAGES \in Nat /\ NFRAMES \in Nat /\ PAGE_SIZE \in Nat \ {0}
  /\ STACK_PAGE \in Nat /\ STACK_PAGES \in Nat /\ MMAP_BASE \in STACK_PAGE + STACK_PAGES .. NPAGES
BY VmAssumption, Zenon

(* There are finitely many slots, frames and places for an entry. *)
LEMMA SlotsFinite == IsFiniteSet(Slots) /\ IsFiniteSet(Frames) /\ IsFiniteSet(Frames \X Slots)
<1>1. IsFiniteSet(Slots)
  BY FS_Interval, Sizes DEF Slots
<1>2. IsFiniteSet(Frames)
  BY FS_Interval, Sizes DEF Frames
<1> QED
  BY <1>1, <1>2, FS_Product, Zenon

(* The references to a frame can be counted. *)
LEMMA UsesFinite ==
  ASSUME NEW ent, NEW f
  PROVE  IsFiniteSet(UsesIn(ent, f)) /\ Cardinality(UsesIn(ent, f)) \in Nat
<1>1. UsesIn(ent, f) \subseteq Frames \X Slots
  BY Zenon DEF UsesIn
<1>2. IsFiniteSet(UsesIn(ent, f))
  BY <1>1, SlotsFinite, FS_Subset, Zenon
<1> QED
  BY <1>2, FS_CardinalityType, Zenon

(* Setting one slot moves one reference. *)
LEMMA SetSlot ==
  ASSUME NEW ent \in Entries, NEW r \in Frames, NEW s \in Slots, NEW e \in Entry, NEW f \in Frames,
         NEW new, Updates(new, ent, r, s, e)
  PROVE  Cardinality(UsesIn(new, f))
           = Cardinality(UsesIn(ent, f)) + Unit(e.frame = f) - Unit(ent[r][s].frame = f)
<1> DEFINE u == <<r, s>>
           old == UsesIn(ent, f)
<1>1. /\ new \in Entries
      /\ new[r][s] = e
      /\ \A q \in Frames, t \in Slots : <<q, t>> # u => new[q][t] = ent[q][t]
  BY Zenon DEF Entries, Updates, With
<1>2. IsFiniteSet(old) /\ Cardinality(old) \in Nat
  BY UsesFinite, Zenon
<1>a. \A w \in Frames \X Slots : w # u => (w \in UsesIn(new, f) <=> w \in old)
  <2> SUFFICES ASSUME NEW q \in Frames, NEW t \in Slots, <<q, t>> # u
               PROVE  <<q, t>> \in UsesIn(new, f) <=> <<q, t>> \in old
    OBVIOUS
  <2> QED
    BY <1>1, Zenon DEF UsesIn
<1>b. (u \in UsesIn(new, f) <=> e.frame = f) /\ (u \in old <=> ent[r][s].frame = f)
  BY <1>1, Zenon DEF UsesIn
<1>c. UsesIn(new, f) \subseteq Frames \X Slots /\ old \subseteq Frames \X Slots /\ u \in Frames \X Slots
  BY Zenon DEF UsesIn
<1> HIDE DEF old, u
<1>3. CASE e.frame = f /\ ent[r][s].frame = f
  <2>1. UsesIn(new, f) = old
    BY <1>a, <1>b, <1>c, <1>3
  <2> QED
    BY <2>1, <1>2, <1>3 DEF Unit, old
<1>4. CASE e.frame = f /\ ent[r][s].frame # f
  <2>1. UsesIn(new, f) = old \cup {u} /\ u \notin old
    BY <1>a, <1>b, <1>c, <1>4, Zenon
  <2>2. Cardinality(old \cup {u}) = Cardinality(old) + 1
    BY <2>1, <1>2, FS_AddElement, Zenon
  <2> QED
    BY <2>1, <2>2, <1>2, <1>4 DEF Unit, old
<1>5. CASE e.frame # f /\ ent[r][s].frame = f
  <2>1. UsesIn(new, f) = old \ {u} /\ u \in old
    BY <1>a, <1>b, <1>c, <1>5, Zenon
  <2>2. Cardinality(old \ {u}) = Cardinality(old) - 1
    BY <2>1, <1>2, FS_RemoveElement, Zenon
  <2> QED
    BY <2>1, <2>2, <1>2, <1>5 DEF Unit, old
<1>6. CASE e.frame # f /\ ent[r][s].frame # f
  <2>1. UsesIn(new, f) = old
    BY <1>a, <1>b, <1>c, <1>6
  <2> QED
    BY <2>1, <1>2, <1>6 DEF Unit, old
<1> QED
  BY <1>3, <1>4, <1>5, <1>6, Zenon

(* A frame whose count is zero is in no table, not held and not lost. *)
LEMMA Fresh ==
  ASSUME NEW ent, NEW rc, NEW H, NEW L, Ledger(ent, rc, H, L), NEW f \in Frames, rc[f] = 0
  PROVE  f \notin H /\ L[f] = 0 /\ \A r \in Frames, s \in Slots : ent[r][s].frame # f
<1>1. Cardinality(UsesIn(ent, f)) \in Nat /\ IsFiniteSet(UsesIn(ent, f))
  BY UsesFinite, Zenon
<1>2. rc[f] = Cardinality(UsesIn(ent, f)) + Unit(f \in H) + L[f] /\ L[f] \in Nat
  BY Zenon DEF Ledger, Counted
<1>3. Cardinality(UsesIn(ent, f)) = 0 /\ f \notin H /\ L[f] = 0
  BY <1>1, <1>2 DEF Unit
<1>4. UsesIn(ent, f) = {}
  BY <1>1, <1>3, FS_EmptySet, Zenon
<1> SUFFICES ASSUME NEW r \in Frames, NEW s \in Slots, ent[r][s].frame = f PROVE FALSE
  BY <1>3, Zenon
<1>5. <<r, s>> \in UsesIn(ent, f)
  BY Zenon DEF UsesIn
<1> QED
  BY <1>4, <1>5, Zenon

(* No other slot than <<r, s>> refers to f, or none that may write to it. *)
OnlyHere(ent, r, s, f) == \A q \in Frames, t \in Slots : ent[q][t].frame = f => q = r /\ t = s
NoOtherWriter(ent, r, s, f) ==
    \A q \in Frames, t \in Slots : ent[q][t].frame = f /\ ent[q][t].write => q = r /\ t = s

(* A frame that some table refers to has a positive count, and a count of  *)
(* one means that there is no second reference.                            *)
LEMMA InUse ==
  ASSUME NEW ent, NEW rc, NEW H, NEW L, Ledger(ent, rc, H, L), NEW r \in Frames, NEW s \in Slots,
         ent[r][s].frame \in Frames
  PROVE  /\ rc[ent[r][s].frame] >= 1
         /\ rc[ent[r][s].frame] <= 1 => OnlyHere(ent, r, s, ent[r][s].frame)
<1> DEFINE f == ent[r][s].frame
           U == UsesIn(ent, f)
<1>1. Cardinality(U) \in Nat /\ IsFiniteSet(U)
  BY UsesFinite, Zenon
<1>2. rc[f] = Cardinality(U) + Unit(f \in H) + L[f] /\ L[f] \in Nat
  BY Zenon DEF Ledger, Counted
<1>3. <<r, s>> \in U
  BY Zenon DEF UsesIn
<1>4. Cardinality(U) >= 1
  BY <1>1, <1>3, FS_EmptySet
<1>5. ASSUME Cardinality(U) = 1, NEW q \in Frames, NEW t \in Slots, ent[q][t].frame = f
      PROVE  q = r /\ t = s
  <2>1. <<q, t>> \in U
    BY <1>5, Zenon DEF UsesIn
  <2>2. PICK x : U = {x}
    BY <1>1, <1>5, FS_Singleton, Zenon
  <2> QED
    BY <2>1, <2>2, <1>3
<1>6. Unit(f \in H) \in Nat
  BY Zenon DEF Unit
<1> HIDE DEF f, U
<1>7. rc[f] >= 1 /\ (rc[f] <= 1 => Cardinality(U) = 1)
  BY <1>1, <1>2, <1>4, <1>6
<1>8. rc[f] <= 1 => OnlyHere(ent, r, s, f)
  BY <1>5, <1>7, Zenon DEF OnlyHere
<1> QED
  BY <1>7, <1>8, Zenon DEF f

-----------------------------------------------------------------------------
(* The ledger. *)

(* What is lost when an entry that refers to frame o is overwritten. *)
Forgets(L, o) == IF o # 0 THEN [L EXCEPT ![o] = @ + 1] ELSE L

(* The counts change as the entry e in place of o asks. *)
Balance(rc, H, L, rc2, H2, L2, o, f) ==
    \A g \in Frames : rc2[g] + Unit(g \in H) + L[g] + Unit(o = g)
                        = rc[g] + Unit(g \in H2) + L2[g] + Unit(f = g)

(* Setting one slot keeps the ledger if the counts follow. *)
LEMMA LedgerSet ==
  ASSUME NEW ent, NEW rc, NEW H, NEW L, Ledger(ent, rc, H, L),
         NEW r \in Frames, NEW s \in Slots, NEW e \in Entry, e.frame \in Frames,
         NEW new, Updates(new, ent, r, s, e),
         NEW rc2 \in [Frames -> Nat], NEW H2 \in SUBSET H, NEW L2 \in [Frames -> Nat],
         Balance(rc, H, L, rc2, H2, L2, ent[r][s].frame, e.frame),
         e.write => OnlyHere(ent, r, s, e.frame),
         NoOtherWriter(ent, r, s, e.frame),
         e.frame \notin H2,
         \A g \in H2 : L2[g] = 0
  PROVE  Ledger(new, rc2, H2, L2)
<1>1. ent \in Entries /\ rc \in [Frames -> Nat] /\ L \in [Frames -> Nat] /\ H \subseteq Frames
  BY Zenon DEF Ledger
<1>2. /\ new \in Entries
      /\ new[r][s] = e
      /\ \A q \in Frames, t \in Slots : ~(q = r /\ t = s) => new[q][t] = ent[q][t]
  BY <1>1, Zenon DEF Entries, Updates, With
<1>3. Counted(new, rc2, H2, L2)
  <2> SUFFICES ASSUME NEW f \in Frames
               PROVE  rc2[f] = Cardinality(UsesIn(new, f)) + Unit(f \in H2) + L2[f]
    BY Zenon DEF Counted
  <2>1. Cardinality(UsesIn(new, f))
          = Cardinality(UsesIn(ent, f)) + Unit(e.frame = f) - Unit(ent[r][s].frame = f)
    BY <1>1, SetSlot
  <2>2. rc[f] = Cardinality(UsesIn(ent, f)) + Unit(f \in H) + L[f]
    BY Zenon DEF Ledger, Counted
  <2>3. rc2[f] + Unit(f \in H) + L[f] + Unit(ent[r][s].frame = f)
          = rc[f] + Unit(f \in H2) + L2[f] + Unit(e.frame = f)
    BY Zenon DEF Balance
  <2>4. /\ Cardinality(UsesIn(ent, f)) \in Nat /\ rc[f] \in Nat /\ L[f] \in Nat
        /\ rc2[f] \in Nat /\ L2[f] \in Nat
    BY <1>1, UsesFinite, Zenon
  <2>5. /\ Unit(f \in H) \in Nat /\ Unit(f \in H2) \in Nat
        /\ Unit(e.frame = f) \in Nat /\ Unit(ent[r][s].frame = f) \in Nat
    BY Zenon DEF Unit
  <2> QED
    BY <2>1, <2>2, <2>3, <2>4, <2>5
<1>4. Private(new)
  <2> SUFFICES ASSUME NEW q \in Frames, NEW x \in Frames, NEW t \in Slots, NEW y \in Slots,
                      new[q][t].write, new[q][t].frame # 0, new[x][y].frame = new[q][t].frame
               PROVE  x = q /\ y = t
    BY DEF Private
  <2>1. CASE q = r /\ t = s
    BY <2>1, <1>2 DEF OnlyHere
  <2>2. CASE ~(q = r /\ t = s) /\ x = r /\ y = s
    BY <2>2, <1>2 DEF NoOtherWriter
  <2>3. CASE ~(q = r /\ t = s) /\ ~(x = r /\ y = s)
    BY <2>3, <1>2 DEF Ledger, Private
  <2> QED
    BY <2>1, <2>2, <2>3, Zenon
<1>5. HeldUnused(new, H2, L2)
  <2> SUFFICES ASSUME NEW f \in H2, NEW q \in Frames, NEW t \in Slots
               PROVE  new[q][t].frame # f
    BY Zenon DEF HeldUnused
  <2>1. ent[q][t].frame # f
    BY Zenon DEF Ledger, HeldUnused
  <2> QED
    BY <2>1, <1>2, Zenon
<1> QED
  BY <1>1, <1>2, <1>3, <1>4, <1>5, Zenon DEF Ledger

(* A leaf entry is an entry that refers to its frame. *)
LEMMA LeafIs ==
  ASSUME NEW f \in Frames, NEW w \in BOOLEAN
  PROVE  Leaf(f, w) \in Entry /\ Leaf(f, w).frame = f
BY Sizes DEF Leaf, Entry, Frames

(* The mishaps that are added are mishaps. *)
LEMMA MishapTypes ==
  ASSUME NEW X \in SUBSET Mishaps
  PROVE  /\ X \cup {"brk"} \in SUBSET Mishaps /\ X \cup {"exec"} \in SUBSET Mishaps
         /\ \A b : X \cup Overgrown(b) \in SUBSET Mishaps
         /\ \A g : Overlapping(g) \in SUBSET Mishaps /\ X \cup Overlapping(g) \in SUBSET Mishaps
<1>1. /\ X \cup {"brk"} \in SUBSET Mishaps /\ X \cup {"exec"} \in SUBSET Mishaps
  BY DEF Mishaps
<1>2. \A b : Overgrown(b) \subseteq Mishaps
  BY DEF Mishaps, Overgrown
<1>3. \A g : Overlapping(g) \subseteq Mishaps
  <2> TAKE g
  <2>1. Overlapping(g) = {} \/ Overlapping(g) = {"overlap"}
    BY Zenon DEF Overlapping
  <2> QED
    BY <2>1 DEF Mishaps
<1> QED
  BY <1>1, <1>2, <1>3

(* The breaks and the ranges end in the address space. *)
LEMMA BreakRange ==
  ASSUME NEW b \in Breaks
  PROVE  b \in Nat /\ b <= NPAGES * PAGE_SIZE
BY VmAssumption
LEMMA RangeRange ==
  ASSUME NEW g \in Ranges
  PROVE  g.first \in Nat /\ g.end \in Nat /\ g.end <= NPAGES
BY VmAssumption

(* An entry that is not zero refers to a frame. *)
LEMMA FrameOf ==
  ASSUME NEW e \in Entry, e.frame # 0
  PROVE  e.frame \in Frames
BY Sizes DEF Entry, Frames

(* L2 is L with one more for o, and zero on H; rc2 is rc with one more for *)
(* f.                                                                      *)
Forgot(L2, L, o, H) ==
    /\ L2 \in [Frames -> Nat]
    /\ \A g \in Frames : L2[g] = L[g] + Unit(o = g)
    /\ \A g \in H : L2[g] = 0
Raised(rc2, rc, f) == rc2 \in [Frames -> Nat] /\ \A g \in Frames : rc2[g] = rc[g] + Unit(f = g)

(* A reference more for f and one forgotten for o are in balance. *)
LEMMA RaisedBalance ==
  ASSUME NEW rc \in [Frames -> Nat], NEW rc2, NEW L \in [Frames -> Nat], NEW L2, NEW H, NEW G,
         NEW o, NEW f, Raised(rc2, rc, f), Forgot(L2, L, o, G)
  PROVE  Balance(rc, H, L, rc2, H, L2, o, f)
<1> SUFFICES ASSUME NEW g \in Frames
             PROVE  rc2[g] + Unit(g \in H) + L[g] + Unit(o = g)
                      = rc[g] + Unit(g \in H) + L2[g] + Unit(f = g)
  BY Zenon DEF Balance
<1>1. rc2[g] = rc[g] + Unit(f = g) /\ L2[g] = L[g] + Unit(o = g)
  BY Zenon DEF Raised, Forgot
<1>2. Unit(o = g) \in Nat /\ Unit(f = g) \in Nat /\ Unit(g \in H) \in Nat
  BY Zenon DEF Unit
<1>3. rc[g] \in Nat /\ L[g] \in Nat
  BY Zenon
<1> QED
  BY <1>1, <1>2, <1>3

(* Counting a frame up by one, or a fresh one to one, raises its count. *)
LEMMA CountUp ==
  ASSUME NEW rc \in [Frames -> Nat], NEW f \in Frames
  PROVE  /\ Raised([rc EXCEPT ![f] = @ + 1], rc, f)
         /\ rc[f] = 0 => Raised([rc EXCEPT ![f] = 1], rc, f)
BY DEF Raised, Unit

(* Overwriting an entry adds its reference to those nobody records any     *)
(* more.                                                                   *)
LEMMA Forgotten ==
  ASSUME NEW ent, NEW rc, NEW H, NEW L, Ledger(ent, rc, H, L), NEW r \in Frames, NEW s \in Slots
  PROVE  Forgot(Forgets(L, ent[r][s].frame), L, ent[r][s].frame, H)
<1> DEFINE o == ent[r][s].frame
<1>1. L \in [Frames -> Nat] /\ H \subseteq Frames
  BY Zenon DEF Ledger
<1>2. o \in 0 .. NFRAMES
  <2>1. ent[r][s] \in Entry
    BY Zenon DEF Ledger, Entries
  <2> QED
    BY <2>1, Zenon DEF Entry
<1>3. \A g \in H : L[g] = 0 /\ o # g
  BY Zenon DEF Ledger, HeldUnused
<1> HIDE DEF o
<1>4. CASE o = 0
  <2>1. Forgets(L, o) = L
    BY <1>4, Zenon DEF Forgets
  <2>2. \A g \in Frames : Unit(o = g) = 0 /\ L[g] = L[g] + 0
    BY <1>1, <1>4 DEF Unit, Frames
  <2> QED
    BY <1>1, <1>3, <2>1, <2>2, Zenon DEF Forgot, o
<1>5. CASE o # 0
  <2>1. o \in Frames
    BY <1>2, <1>5, Sizes DEF Frames
  <2>2. Forgets(L, o) = [L EXCEPT ![o] = @ + 1]
    BY <1>5, Zenon DEF Forgets
  <2>3. Raised(Forgets(L, o), L, o)
    BY <1>1, <2>1, <2>2, CountUp, Zenon
  <2>4. \A g \in H : Forgets(L, o)[g] = 0
    BY <1>1, <1>3, <2>1, <2>2, Zenon
  <2> QED
    BY <2>3, <2>4, Zenon DEF Forgot, Raised, o
<1> QED
  BY <1>4, <1>5, Zenon

(* A fresh frame gets its first owner in slot s. *)
LEMMA LedgerInstall ==
  ASSUME NEW ent, NEW rc, NEW H, NEW L, Ledger(ent, rc, H, L),
         NEW r \in Frames, NEW s \in Slots, NEW f \in Frames, rc[f] = 0, NEW w \in BOOLEAN,
         NEW new, Updates(new, ent, r, s, Leaf(f, w))
  PROVE  Ledger(new, [rc EXCEPT ![f] = 1], H, Forgets(L, ent[r][s].frame))
<1> DEFINE o == ent[r][s].frame
           e == Leaf(f, w)
           L2 == Forgets(L, o)
           rc2 == [rc EXCEPT ![f] = 1]
<1>1. rc \in [Frames -> Nat] /\ L \in [Frames -> Nat] /\ H \in SUBSET H
  BY Zenon DEF Ledger
<1>2. f \notin H /\ \A q \in Frames, t \in Slots : ent[q][t].frame # f
  BY Fresh
<1>3. Forgot(L2, L, o, H) /\ Raised(rc2, rc, f)
  BY <1>1, Forgotten, CountUp, Zenon
<1>4. e \in Entry /\ e.frame = f
  BY LeafIs, Zenon
<1> HIDE DEF e, L2, rc2, o
<1>5. Balance(rc, H, L, rc2, H, L2, o, f)
  BY <1>1, <1>3, RaisedBalance, Zenon
<1>6. OnlyHere(ent, r, s, f) /\ NoOtherWriter(ent, r, s, f)
  BY <1>2, Zenon DEF OnlyHere, NoOtherWriter
<1>7. Updates(new, ent, r, s, e)
  BY Zenon DEF e
<1>8. Ledger(new, rc2, H, L2)
  BY <1>1, <1>2, <1>3, <1>4, <1>5, <1>6, <1>7, LedgerSet, Zenon DEF o, Forgot, Raised
<1> QED
  BY <1>8, Zenon DEF rc2, L2, o

(* A frame the kernel holds is put into slot s. *)
LEMMA LedgerMapHeld ==
  ASSUME NEW ent, NEW rc, NEW H, NEW L, Ledger(ent, rc, H, L),
         NEW r \in Frames, NEW s \in Slots, NEW f \in H, NEW w \in BOOLEAN,
         NEW new, Updates(new, ent, r, s, Leaf(f, w))
  PROVE  Ledger(new, rc, H \ {f}, Forgets(L, ent[r][s].frame))
<1> DEFINE o == ent[r][s].frame
           e == Leaf(f, w)
           L2 == Forgets(L, o)
           H2 == H \ {f}
<1>1. rc \in [Frames -> Nat] /\ L \in [Frames -> Nat]
  BY Zenon DEF Ledger
<1>2. f \in Frames /\ \A q \in Frames, t \in Slots : ent[q][t].frame # f
  BY Zenon DEF Ledger, HeldUnused
<1>3. Forgot(L2, L, o, H)
  BY Forgotten, Zenon
<1>4. H2 \in SUBSET H /\ f \notin H2 /\ \A g : g \in H <=> g \in H2 \/ f = g
  BY Zenon
<1>5. e \in Entry /\ e.frame = f
  BY <1>2, LeafIs, Zenon
<1> HIDE DEF e, L2, H2, o
<1>6. Balance(rc, H, L, rc, H2, L2, o, f)
  <2> SUFFICES ASSUME NEW g \in Frames
               PROVE  rc[g] + Unit(g \in H) + L[g] + Unit(o = g)
                        = rc[g] + Unit(g \in H2) + L2[g] + Unit(f = g)
    BY Zenon DEF Balance
  <2>1. rc[g] \in Nat /\ L[g] \in Nat
    BY <1>1, Zenon
  <2>2. Unit(o = g) \in Nat /\ Unit(f = g) \in Nat /\ Unit(g \in H2) \in Nat
    BY Zenon DEF Unit
  <2>3. Unit(g \in H) = Unit(g \in H2) + Unit(f = g)
    <3>1. (g \in H <=> g \in H2 \/ f = g) /\ ~(g \in H2 /\ f = g)
      BY <1>4, Zenon
    <3> QED
      BY <3>1 DEF Unit
  <2>4. L2[g] = L[g] + Unit(o = g)
    BY <1>3, Zenon DEF Forgot
  <2> QED
    BY <2>1, <2>2, <2>3, <2>4
<1>7. OnlyHere(ent, r, s, f) /\ NoOtherWriter(ent, r, s, f)
  BY <1>2, Zenon DEF OnlyHere, NoOtherWriter
<1>8. Updates(new, ent, r, s, e)
  BY Zenon DEF e
<1>9. L2 \in [Frames -> Nat] /\ \A g \in H2 : L2[g] = 0
  BY <1>3, <1>4, Zenon DEF Forgot
<1>10. Ledger(new, rc, H2, L2)
  BY <1>1, <1>2, <1>4, <1>5, <1>6, <1>7, <1>8, <1>9, LedgerSet, Zenon DEF o
<1> QED
  BY <1>10, Zenon DEF H2, L2, o

(* An entry changes its rights: it loses the right to write, or it is the  *)
(* only one that refers to its frame.                                      *)
LEMMA LedgerRights ==
  ASSUME NEW ent, NEW rc, NEW H, NEW L, Ledger(ent, rc, H, L),
         NEW r \in Frames, NEW s \in Slots, NEW e \in Entry,
         e.frame \in Frames, ent[r][s].frame = e.frame,
         e.write => OnlyHere(ent, r, s, e.frame),
         NEW new, Updates(new, ent, r, s, e)
  PROVE  Ledger(new, rc, H, L)
<1>1. rc \in [Frames -> Nat] /\ L \in [Frames -> Nat] /\ H \in SUBSET H
  BY Zenon DEF Ledger
<1>2. Balance(rc, H, L, rc, H, L, ent[r][s].frame, e.frame)
  BY Zenon DEF Balance
<1>3. NoOtherWriter(ent, r, s, e.frame)
  <2> SUFFICES ASSUME NEW q \in Frames, NEW t \in Slots, ent[q][t].frame = e.frame, ent[q][t].write
               PROVE  q = r /\ t = s
    BY Zenon DEF NoOtherWriter
  <2>1. e.frame # 0
    BY DEF Frames
  <2> QED
    BY <2>1 DEF Ledger, Private
<1>4. e.frame \notin H /\ \A g \in H : L[g] = 0
  BY Zenon DEF Ledger, HeldUnused
<1> QED
  BY <1>1, <1>2, <1>3, <1>4, LedgerSet, Zenon

(* A frame that nobody may write to gets one more reference. *)
LEMMA LedgerShare ==
  ASSUME NEW ent, NEW rc, NEW H, NEW L, Ledger(ent, rc, H, L),
         NEW q \in Frames, NEW t \in Slots, ent[q][t].frame \in Frames, ~ent[q][t].write,
         NEW r \in Frames, NEW s \in Slots, NEW new, Updates(new, ent, r, s, ent[q][t])
  PROVE  Ledger(new, [rc EXCEPT ![ent[q][t].frame] = @ + 1], H, Forgets(L, ent[r][s].frame))
<1> DEFINE o == ent[r][s].frame
           e == ent[q][t]
           L2 == Forgets(L, o)
           rc2 == [rc EXCEPT ![e.frame] = @ + 1]
<1>1. ent \in Entries /\ rc \in [Frames -> Nat] /\ L \in [Frames -> Nat] /\ H \in SUBSET H
  BY Zenon DEF Ledger
<1>2. e \in Entry
  BY <1>1, Zenon DEF Entries
<1>3. Forgot(L2, L, o, H) /\ Raised(rc2, rc, e.frame)
  BY <1>1, Forgotten, CountUp, Zenon
<1>4. e.frame \notin H
  BY Zenon DEF Ledger, HeldUnused
<1>5. NoOtherWriter(ent, r, s, e.frame)
  <2>1. e.frame # 0
    BY DEF Frames
  <2> QED
    BY <2>1, Zenon DEF NoOtherWriter, Ledger, Private
<1>6. Updates(new, ent, r, s, e) /\ e.frame \in Frames /\ ~e.write
  BY Zenon
<1> HIDE DEF e, L2, rc2, o
<1>7. Balance(rc, H, L, rc2, H, L2, o, e.frame)
  BY <1>1, <1>3, RaisedBalance, Zenon
<1>8. Ledger(new, rc2, H, L2)
  BY <1>1, <1>2, <1>3, <1>4, <1>5, <1>6, <1>7, LedgerSet, Zenon DEF o, Forgot, Raised
<1> QED
  BY <1>8, Zenon DEF rc2, L2, o, e

(* A reference to f is replaced by one to the fresh frame g. *)
LEMMA LedgerCopy ==
  ASSUME NEW ent, NEW rc, NEW H, NEW L, Ledger(ent, rc, H, L),
         NEW r \in Frames, NEW s \in Slots, NEW f \in Frames, ent[r][s].frame = f,
         NEW g \in Frames, rc[g] = 0, NEW w \in BOOLEAN, NEW new, Updates(new, ent, r, s, Leaf(g, w))
  PROVE  Ledger(new, [rc EXCEPT ![g] = 1, ![f] = @ - 1], H, L)
<1> DEFINE e == Leaf(g, w)
           rc2 == [rc EXCEPT ![g] = 1, ![f] = @ - 1]
<1>1. rc \in [Frames -> Nat] /\ L \in [Frames -> Nat] /\ H \in SUBSET H
  BY Zenon DEF Ledger
<1>2. g \notin H /\ \A q \in Frames, t \in Slots : ent[q][t].frame # g
  BY Fresh
<1>3. f # g /\ rc[f] >= 1
  BY <1>2, InUse, Zenon
<1>4. /\ rc2 \in [Frames -> Nat]
      /\ \A h \in Frames : rc2[h] = IF h = g THEN 1 ELSE IF h = f THEN rc[f] - 1 ELSE rc[h]
  <2>1. rc[f] \in Nat
    BY <1>1, Zenon
  <2>2. rc[f] - 1 \in Nat
    BY <2>1, <1>3
  <2> QED
    BY <1>1, <1>3, <2>2, Zenon
<1>5. e \in Entry /\ e.frame = g
  BY LeafIs, Zenon
<1> HIDE DEF e, rc2
<1>6. Balance(rc, H, L, rc2, H, L, f, g)
  <2> SUFFICES ASSUME NEW h \in Frames
               PROVE  rc2[h] + Unit(h \in H) + L[h] + Unit(f = h)
                        = rc[h] + Unit(h \in H) + L[h] + Unit(g = h)
    BY Zenon DEF Balance
  <2> DEFINE x == Unit(h \in H)
             y == L[h]
  <2>1. rc[h] \in Nat /\ y \in Nat
    BY <1>1, Zenon
  <2>2. x \in Nat
    BY Zenon DEF Unit
  <2>3. rc2[h] = IF h = g THEN 1 ELSE IF h = f THEN rc[f] - 1 ELSE rc[h]
    BY <1>4, Zenon
  <2> HIDE DEF x, y
  <2>4. rc2[h] \in Int /\ rc2[h] + Unit(f = h) = rc[h] + Unit(g = h)
    BY <2>1, <2>3, <1>3 DEF Unit
  <2>5. Unit(f = h) \in Nat /\ Unit(g = h) \in Nat
    BY Zenon DEF Unit
  <2>6. rc2[h] + x + y + Unit(f = h) = rc[h] + x + y + Unit(g = h)
    BY <2>1, <2>2, <2>4, <2>5
  <2> QED
    BY <2>6, Zenon DEF x, y
<1>7. OnlyHere(ent, r, s, g) /\ NoOtherWriter(ent, r, s, g)
  BY <1>2, Zenon DEF OnlyHere, NoOtherWriter
<1>8. Updates(new, ent, r, s, e) /\ ent[r][s].frame = f
  BY Zenon DEF e
<1>9. \A h \in H : L[h] = 0
  BY Zenon DEF Ledger, HeldUnused
<1>10. /\ Balance(rc, H, L, rc2, H, L, ent[r][s].frame, e.frame)
       /\ OnlyHere(ent, r, s, e.frame) /\ NoOtherWriter(ent, r, s, e.frame)
       /\ e.frame \in Frames /\ e.frame \notin H
  BY <1>2, <1>5, <1>6, <1>7, <1>8, Zenon
<1>11. Ledger(new, rc2, H, L)
  BY <1>1, <1>4, <1>5, <1>8, <1>9, <1>10, LedgerSet, Zenon
<1> QED
  BY <1>11, Zenon DEF rc2

(* The kernel takes the fresh frames S. *)
LEMMA LedgerHold ==
  ASSUME NEW ent, NEW rc, NEW H, NEW L, Ledger(ent, rc, H, L),
         NEW S \in SUBSET Frames, \A f \in S : rc[f] = 0,
         NEW rc2 \in [Frames -> Nat], \A f \in Frames : rc2[f] = IF f \in S THEN 1 ELSE rc[f]
  PROVE  Ledger(ent, rc2, H \cup S, L)
<1>1. ent \in Entries /\ rc \in [Frames -> Nat] /\ L \in [Frames -> Nat] /\ H \subseteq Frames
  BY Zenon DEF Ledger
<1>2. \A f \in S : f \notin H /\ L[f] = 0 /\ \A r \in Frames, s \in Slots : ent[r][s].frame # f
  BY Fresh
<1>3. Counted(ent, rc2, H \cup S, L)
  <2> SUFFICES ASSUME NEW f \in Frames
               PROVE  rc2[f] = Cardinality(UsesIn(ent, f)) + Unit(f \in H \cup S) + L[f]
    BY Zenon DEF Counted
  <2>1. rc[f] = Cardinality(UsesIn(ent, f)) + Unit(f \in H) + L[f]
    BY Zenon DEF Ledger, Counted
  <2>2. Cardinality(UsesIn(ent, f)) \in Nat /\ rc[f] \in Nat /\ L[f] \in Nat
    BY <1>1, UsesFinite, Zenon
  <2>3. CASE f \in S
    BY <2>1, <2>2, <2>3, <1>2 DEF Unit
  <2>4. CASE f \notin S
    BY <2>1, <2>2, <2>4, Zenon DEF Unit
  <2> QED
    BY <2>3, <2>4, Zenon
<1>4. HeldUnused(ent, H \cup S, L)
  BY <1>2, Zenon DEF Ledger, HeldUnused
<1> QED
  BY <1>1, <1>3, <1>4, Zenon DEF Ledger

(* The kernel gives a frame back. *)
LEMMA LedgerRelease ==
  ASSUME NEW ent, NEW rc, NEW H, NEW L, Ledger(ent, rc, H, L), NEW f \in H
  PROVE  Ledger(ent, [rc EXCEPT ![f] = 0], H \ {f}, L)
<1> DEFINE rc2 == [rc EXCEPT ![f] = 0]
<1>1. ent \in Entries /\ rc \in [Frames -> Nat] /\ L \in [Frames -> Nat] /\ H \subseteq Frames
  BY Zenon DEF Ledger
<1>2. L[f] = 0 /\ \A r \in Frames, s \in Slots : ent[r][s].frame # f
  BY Zenon DEF Ledger, HeldUnused
<1>3. UsesIn(ent, f) = {}
  BY <1>2, Zenon DEF UsesIn
<1>4. rc2 \in [Frames -> Nat] /\ rc2[f] = 0 /\ \A g \in Frames : g # f => rc2[g] = rc[g]
  BY <1>1, Zenon
<1> HIDE DEF rc2
<1>5. Counted(ent, rc2, H \ {f}, L)
  <2> SUFFICES ASSUME NEW g \in Frames
               PROVE  rc2[g] = Cardinality(UsesIn(ent, g)) + Unit(g \in H \ {f}) + L[g]
    BY Zenon DEF Counted
  <2>1. rc[g] = Cardinality(UsesIn(ent, g)) + Unit(g \in H) + L[g]
    BY Zenon DEF Ledger, Counted
  <2>2. Cardinality(UsesIn(ent, g)) \in Nat /\ rc[g] \in Nat /\ L[g] \in Nat
    BY <1>1, UsesFinite, Zenon
  <2>3. CASE g = f
    BY <2>2, <2>3, <1>2, <1>3, <1>4, FS_EmptySet DEF Unit
  <2>4. CASE g # f
    BY <2>1, <2>2, <2>4, <1>4, Zenon DEF Unit
  <2> QED
    BY <2>3, <2>4, Zenon
<1>6. HeldUnused(ent, H \ {f}, L)
  BY Zenon DEF Ledger, HeldUnused
<1>7. Ledger(ent, rc2, H \ {f}, L)
  BY <1>1, <1>4, <1>5, <1>6, Zenon DEF Ledger
<1> QED
  BY <1>7, Zenon DEF rc2

(* The slots S of the tree r are cleared and their references dropped. *)
LEMMA LedgerUnmap ==
  ASSUME Ledger(entry, refcount, held, lost), NEW r \in Frames, NEW S \in SUBSET Slots, Unmap(r, S)
  PROVE  Ledger(entry', refcount', held, lost)
<1>1. /\ entry \in Entries /\ held \subseteq Frames
      /\ refcount \in [Frames -> Nat] /\ lost \in [Frames -> Nat]
  BY Zenon DEF Ledger
<1>2. NoEntry \in Entry /\ NoEntry.frame = 0 /\ ~NoEntry.write
  BY Sizes DEF NoEntry, Entry
<1>3. /\ entry' \in Entries
      /\ \A q \in Frames, t \in Slots :
            entry'[q][t] = IF q = r /\ t \in S THEN NoEntry ELSE entry[q][t]
  BY <1>1, <1>2, Zenon DEF Entries, Unmap
<1>4. ASSUME NEW f \in Frames
      PROVE  /\ Drops(r, S, f) \in Nat
             /\ Cardinality(UsesIn(entry, f)) = Cardinality(UsesIn(entry', f)) + Drops(r, S, f)
  <2> DEFINE D == {s \in S : entry[r][s].frame = f}
             B == {r} \X D
             U == UsesIn(entry, f)
             U2 == UsesIn(entry', f)
             h == [s \in D |-> <<r, s>>]
  <2>1. IsFiniteSet(D) /\ Cardinality(D) \in Nat
    BY SlotsFinite, FS_Subset, FS_CardinalityType, Zenon
  <2>2. IsFiniteSet(U) /\ IsFiniteSet(U2) /\ Cardinality(U) \in Nat /\ Cardinality(U2) \in Nat
    BY UsesFinite, Zenon
  <2>3. h \in Bijection(D, B)
    <3>1. h \in [D -> B]
      BY Zenon
    <3>2. \A a, b \in D : h[a] = h[b] => a = b
      BY Zenon
    <3>3. \A y \in B : \E a \in D : h[a] = y
      OBVIOUS
    <3> HIDE DEF h, D, B
    <3>4. h \in Injection(D, B)
      BY <3>1, <3>2, Zenon DEF Injection, IsInjective
    <3>5. h \in Surjection(D, B)
      BY <3>1, <3>3, Zenon DEF Surjection
    <3> QED
      BY <3>4, <3>5, Zenon DEF Bijection
  <2>4. IsFiniteSet(B) /\ Cardinality(B) = Cardinality(D)
    BY <2>1, <2>3, FS_Bijection, Zenon DEF ExistsBijection
  <2>5. U = U2 \cup B /\ U2 \cap B = {}
    <3>1. \A q \in Frames, t \in Slots :
             /\ <<q, t>> \in U <=> entry[q][t].frame = f
             /\ <<q, t>> \in U2 <=> entry'[q][t].frame = f
             /\ <<q, t>> \in B <=> q = r /\ t \in S /\ entry[r][t].frame = f
      BY Zenon DEF UsesIn
    <3>2. f # 0
      BY DEF Frames
    <3>4. U \subseteq Frames \X Slots /\ U2 \subseteq Frames \X Slots /\ B \subseteq Frames \X Slots
      BY Zenon DEF UsesIn
    <3> HIDE DEF U, U2, B
    <3>3. \A q \in Frames, t \in Slots :
             /\ <<q, t>> \in U <=> <<q, t>> \in U2 \/ <<q, t>> \in B
             /\ ~(<<q, t>> \in U2 /\ <<q, t>> \in B)
      <4> TAKE q \in Frames, t \in Slots
      <4>0. /\ <<q, t>> \in U <=> entry[q][t].frame = f
            /\ <<q, t>> \in U2 <=> entry'[q][t].frame = f
            /\ <<q, t>> \in B <=> q = r /\ t \in S /\ entry[r][t].frame = f
        BY <3>1, Zenon
      <4>1. CASE q = r /\ t \in S
        <5>1. entry'[q][t].frame = 0
          BY <4>1, <1>2, <1>3, Zenon
        <5> QED
          BY <5>1, <4>0, <4>1, <3>2, Zenon
      <4>2. CASE ~(q = r /\ t \in S)
        <5>1. entry'[q][t] = entry[q][t]
          BY <4>2, <1>3, Zenon
        <5> QED
          BY <5>1, <4>0, <4>2, Zenon
      <4> QED
        BY <4>1, <4>2, Zenon
    <3> QED
      BY <3>3, <3>4, SMTT(30)
  <2> HIDE DEF U, U2, B, D, h
  <2>6. Cardinality(U2 \cup B) = Cardinality(U2) + Cardinality(B) - Cardinality(U2 \cap B)
    BY <2>2, <2>4, FS_Union, Zenon
  <2>7. Cardinality(U2 \cap B) = 0
    BY <2>5, FS_EmptySet, Zenon
  <2>8. Drops(r, S, f) = Cardinality(D)
    BY Zenon DEF Drops, D
  <2>9. Cardinality(U) = Cardinality(U2) + Cardinality(D)
    BY <2>1, <2>2, <2>4, <2>5, <2>6, <2>7
  <2> QED
    BY <2>1, <2>8, <2>9, Zenon DEF U, U2
<1>5. \A f \in Frames : refcount'[f] = Less(refcount[f], Drops(r, S, f))
  BY Zenon DEF Unmap
<1>6. ASSUME NEW f \in Frames
      PROVE  /\ refcount'[f] \in Nat
             /\ refcount'[f] = Cardinality(UsesIn(entry', f)) + Unit(f \in held) + lost[f]
  <2>1. refcount[f] = Cardinality(UsesIn(entry, f)) + Unit(f \in held) + lost[f]
    BY Zenon DEF Ledger, Counted
  <2>2. Cardinality(UsesIn(entry', f)) \in Nat /\ refcount[f] \in Nat /\ lost[f] \in Nat
    BY <1>1, UsesFinite, Zenon
  <2>3. Unit(f \in held) \in Nat
    BY Zenon DEF Unit
  <2> QED
    BY <2>1, <2>2, <2>3, <1>4, <1>5 DEF Less
<1>7. refcount' \in [Frames -> Nat]
  <2>1. refcount' = [f \in Frames |-> Less(refcount[f], Drops(r, S, f))]
    BY Zenon DEF Unmap
  <2>2. refcount' = [f \in Frames |-> refcount'[f]]
    BY <2>1, Zenon
  <2> QED
    BY <2>2, <1>6, Zenon
<1>8. Counted(entry', refcount', held, lost)
  BY <1>6, Zenon DEF Counted
<1>9. Private(entry')
  BY <1>2, <1>3 DEF Ledger, Private
<1>10. HeldUnused(entry', held, lost)
  <2> SUFFICES ASSUME NEW f \in held, NEW q \in Frames, NEW t \in Slots
               PROVE  entry'[q][t].frame # f
    BY Zenon DEF Ledger, HeldUnused
  <2>0. f # 0
    BY <1>1 DEF Frames
  <2>1. entry[q][t].frame # f /\ f # 0
    BY <2>0, Zenon DEF Ledger, HeldUnused
  <2> QED
    BY <2>1, <1>2, <1>3, Zenon
<1> QED
  BY <1>1, <1>3, <1>7, <1>8, <1>9, <1>10, Zenon DEF Ledger

-----------------------------------------------------------------------------
(* vmm_map_4k_in. *)

(* Pages, tables and the root are different slots. *)
LEMMA SlotTypes ==
  /\ Pages \subseteq Slots /\ ROOT \in Slots /\ ROOT \notin Pages
  /\ \A v \in Pages : TableOf(v) \in Slots /\ TableOf(v) # v /\ TableOf(v) # ROOT
BY Sizes DEF Pages, Slots, ROOT, TableOf

(* If setting the leaf keeps the ledger, so does the whole function, which *)
(* leaves all roots and the other trees alone.                             *)
LEMMA MapOne ==
  ASSUME NEW ent \in Entries, NEW rc, NEW H, NEW r \in Frames, NEW v \in Pages, NEW leaf \in Entry,
         vmm_map_4k_in(ent, rc, r, v, leaf), ~down',
         ent[r][TableOf(v)] = entry[r][TableOf(v)],
         Ledger(With(ent, r, v, leaf), rc, H, Forgets(lost, entry[r][v].frame))
  PROVE  /\ Ledger(entry', refcount', H, lost')
         /\ \A q \in Frames : entry'[q][ROOT] = ent[q][ROOT]
<1> DEFINE T == TableOf(v)
           mid == With(ent, r, v, leaf)
           L2 == Forgets(lost, entry[r][v].frame)
<1>1. lost' = L2
  BY Zenon DEF vmm_map_4k_in, Forgets, Maps
<1>2. v \in Slots /\ T \in Slots /\ T # v /\ T # ROOT /\ ROOT \in Slots /\ ROOT # v
  BY SlotTypes, Zenon
<1>3. /\ mid \in Entries
      /\ mid[r][T] = entry[r][T]
      /\ \A q \in Frames : mid[q][ROOT] = ent[q][ROOT]
  BY <1>2, Zenon DEF Entries, With
<1>4. CASE entry' = mid /\ refcount' = rc
  BY <1>1, <1>3, <1>4, Zenon
<1>5. ASSUME NEW t \in Frames, rc[t] = 0, entry[r][T].frame = 0,
             entry' = [ent EXCEPT ![r][v] = leaf, ![r][T] = TableEntry(t)],
             refcount' = [rc EXCEPT ![t] = 1]
      PROVE  /\ Ledger(entry', refcount', H, lost')
             /\ \A q \in Frames : entry'[q][ROOT] = ent[q][ROOT]
  <2>1. Updates(entry', mid, r, T, Leaf(t, TRUE))
    BY <1>5, Zenon DEF Updates, With, TableEntry
  <2>2. Ledger(mid, rc, H, L2)
    BY Zenon
  <2>3. mid[r][T].frame = 0
    BY <1>3, <1>5, Zenon
  <2>4. \A q \in Frames : entry'[q][ROOT] = mid[q][ROOT]
    BY <2>1, <1>2, <1>3, Zenon DEF Updates, With, Entries
  <2> HIDE DEF mid, L2, T
  <2>5. Ledger(entry', [rc EXCEPT ![t] = 1], H, Forgets(L2, mid[r][T].frame))
    BY <2>1, <2>2, <1>2, <1>5, LedgerInstall, Zenon
  <2>6. Forgets(L2, mid[r][T].frame) = L2
    BY <2>3, Zenon DEF Forgets
  <2> QED
    BY <2>4, <2>5, <2>6, <1>1, <1>3, <1>5, Zenon
<1> QED
  BY <1>4, <1>5, Zenon DEF vmm_map_4k_in, IsFirstFree, With

(* Whatever happens, lost keeps its type; without a stop, so do the rest.  *)
LEMMA MapTypes ==
  ASSUME TypeOK, NEW ent, NEW rc, NEW r \in Frames, NEW v \in Pages, NEW leaf,
         vmm_map_4k_in(ent, rc, r, v, leaf)
  PROVE  /\ lost' \in [Frames -> Nat] /\ down' \in BOOLEAN
         /\ down' /\ ~down => entry' = entry /\ refcount' = refcount
<1>1. entry[r][v] \in Entry
  BY SlotTypes, Zenon DEF TypeOK
<1>2. entry[r][v].frame # 0 => entry[r][v].frame \in Frames
  BY <1>1, FrameOf, Zenon
<1>3. lost' \in [Frames -> Nat]
  BY <1>2 DEF vmm_map_4k_in, Maps, TypeOK
<1>4. down' = down \/ (down' = TRUE /\ entry' = entry /\ refcount' = refcount)
  BY Zenon DEF vmm_map_4k_in
<1>5. down' \in BOOLEAN
  BY <1>4, Zenon DEF TypeOK
<1>6. down' /\ ~down => entry' = entry /\ refcount' = refcount
  BY <1>4, Zenon, Zenon
<1> QED
  BY <1>3, <1>5, <1>6, Zenon

(* brk and mmap map a fresh frame. *)
LEMMA MapFresh ==
  ASSUME Ledger(entry, refcount, held, lost), NEW r \in Frames, NEW v \in Pages,
         NEW f \in Frames, refcount[f] = 0, NEW w \in BOOLEAN, ~down',
         vmm_map_4k_in(entry, [refcount EXCEPT ![f] = 1], r, v, Leaf(f, w))
  PROVE  /\ Ledger(entry', refcount', held, lost')
         /\ \A q \in Frames : entry'[q][ROOT] = entry[q][ROOT]
<1>1. v \in Slots
  BY SlotTypes, Zenon
<1>2. Leaf(f, w) \in Entry
  BY LeafIs, Zenon
<1>3. Updates(With(entry, r, v, Leaf(f, w)), entry, r, v, Leaf(f, w))
  BY Zenon DEF Updates
<1>4. Ledger(With(entry, r, v, Leaf(f, w)), [refcount EXCEPT ![f] = 1], held,
             Forgets(lost, entry[r][v].frame))
  BY <1>1, <1>3, LedgerInstall, Zenon
<1>5. entry \in Entries
  BY Zenon DEF Ledger
<1> QED
  BY <1>2, <1>4, <1>5, MapOne, Zenon

(* exec maps a frame it holds. *)
LEMMA MapHeld ==
  ASSUME Ledger(entry, refcount, held, lost), NEW r \in Frames, NEW v \in Pages,
         NEW f \in held, NEW w \in BOOLEAN, ~down',
         vmm_map_4k_in(entry, refcount, r, v, Leaf(f, w))
  PROVE  /\ Ledger(entry', refcount', held \ {f}, lost')
         /\ \A q \in Frames : entry'[q][ROOT] = entry[q][ROOT]
<1>1. v \in Slots /\ f \in Frames
  BY SlotTypes, Zenon DEF Ledger
<1>2. Leaf(f, w) \in Entry
  BY <1>1, LeafIs, Zenon
<1>3. Updates(With(entry, r, v, Leaf(f, w)), entry, r, v, Leaf(f, w))
  BY Zenon DEF Updates
<1>4. Ledger(With(entry, r, v, Leaf(f, w)), refcount, held \ {f},
             Forgets(lost, entry[r][v].frame))
  BY <1>1, <1>3, LedgerMapHeld, Zenon
<1>5. entry \in Entries
  BY Zenon DEF Ledger
<1> QED
  BY <1>2, <1>4, <1>5, MapOne, Zenon

(* fork takes the right to write from the parent's entry and gives the     *)
(* child one more reference.                                               *)
LEMMA MapShared ==
  ASSUME Ledger(entry, refcount, held, lost), NEW r \in Frames, NEW c \in Frames, c # r,
         NEW v \in Pages, Maps(r, v), NEW e, e = Shared(entry[r][v]), ~down',
         vmm_map_4k_in(Downgraded(r, v, e), [refcount EXCEPT ![e.frame] = @ + 1], c, v, e)
  PROVE  /\ Ledger(entry', refcount', held, lost')
         /\ \A q \in Frames : entry'[q][ROOT] = entry[q][ROOT]
<1> DEFINE ent == Downgraded(r, v, e)
<1>1. v \in Slots /\ ROOT # v /\ ROOT \in Slots /\ TableOf(v) \in Slots
  BY SlotTypes, Zenon
<1>2. entry \in Entries /\ entry[r][v] \in Entry
  BY <1>1, Zenon DEF Ledger, Entries
<1>3. e \in Entry /\ e.frame = entry[r][v].frame /\ ~e.write
  <2>1. CASE entry[r][v].write
    BY <1>2, <2>1, Zenon DEF Shared, Entry
  <2>2. CASE ~entry[r][v].write
    BY <1>2, <2>2, Zenon DEF Shared, Entry
  <2> QED
    BY <2>1, <2>2, Zenon
<1>4. e.frame \in Frames
  BY <1>2, <1>3, FrameOf, Zenon DEF Maps
<1>5. Updates(ent, entry, r, v, e)
  BY Zenon DEF Updates, With, Downgraded
<1>6. /\ ent \in Entries /\ ent[r][v] = e
      /\ ent[c] = entry[c]
      /\ \A q \in Frames : ent[q][ROOT] = entry[q][ROOT]
  BY <1>1, <1>2, <1>3, <1>5, SMTT(30) DEF Updates, With, Entries
<1> HIDE DEF ent
<1>7. Ledger(ent, refcount, held, lost)
  BY <1>1, <1>3, <1>4, <1>5, LedgerRights, Zenon
<1>8. Updates(With(ent, c, v, e), ent, c, v, e)
  BY Zenon DEF Updates
<1>9. Ledger(With(ent, c, v, e), [refcount EXCEPT ![e.frame] = @ + 1], held,
             Forgets(lost, entry[c][v].frame))
  <2> DEFINE mid == With(ent, c, v, e)
  <2>1. Updates(mid, ent, c, v, ent[r][v]) /\ ent[r][v].frame \in Frames /\ ~ent[r][v].write
    BY <1>3, <1>4, <1>6, <1>8, ZenonT(40)
  <2> HIDE DEF mid
  <2>2. Ledger(mid, [refcount EXCEPT ![ent[r][v].frame] = @ + 1], held,
               Forgets(lost, ent[c][v].frame))
    BY <2>1, <1>1, <1>7, LedgerShare, ZenonT(40)
  <2> QED
    BY <2>2, <1>6, ZenonT(40) DEF mid
<1>10. vmm_map_4k_in(ent, [refcount EXCEPT ![e.frame] = @ + 1], c, v, e)
  BY Zenon DEF ent
<1>11. /\ Ledger(entry', refcount', held, lost')
       /\ \A q \in Frames : entry'[q][ROOT] = ent[q][ROOT]
  BY <1>3, <1>6, <1>9, <1>10, MapOne, Zenon
<1> QED
  BY <1>6, <1>11, Zenon

-----------------------------------------------------------------------------
(* Every process that has an address space has one of its own, and its     *)
(* root is there; so does the call that builds one.                        *)
RootsOK ==
    /\ \A p \in Procs : IF proc[p].state \in {"live", "zombie"}
                        THEN proc[p].pml4 \in Frames /\ Maps(proc[p].pml4, ROOT)
                        ELSE proc[p].pml4 = 0
    /\ \A p, q \in Procs : proc[p].pml4 = proc[q].pml4 => p = q \/ proc[p].pml4 = 0
    /\ \A r \in Frames : Maps(r, ROOT) => entry[r][ROOT].frame = r

CallOK ==
    /\ kop.op \in {"brk", "mmap", "fork"} => proc[kop.p].state = "live"
    /\ kop.op = "exec" => proc[kop.p].state \in {"live", "embryo"}
    /\ kop.op = "fork" => proc[kop.q].state = "embryo"
    /\ kop.op \in {"fork", "exec"} =>
          Maps(kop.root, ROOT) /\ \A p \in Procs : proc[p].pml4 # kop.root

ExecOK ==
    kop.op = "exec" =>
        /\ kop.next <= kop.end
        /\ Run(kop.frame, kop.end - kop.next) \subseteq held
        /\ kop.seg <= Len(Segments) =>
              kop.buf \in held /\ kop.buf \notin Run(kop.frame, kop.end - kop.next)

Inv ==
    /\ TypeOK
    /\ ~down => Ledger(entry, refcount, held, lost) /\ RootsOK /\ CallOK /\ ExecOK

-----------------------------------------------------------------------------
(* The invariant, action by action. *)

(* The call under way has the fields of its kind. *)
LEMMA KopTypes ==
  ASSUME TypeOK
  PROVE  /\ kop.op = "none" => kop = Idle
         /\ kop.op = "brk" => kop \in BrkOp
         /\ kop.op = "mmap" => kop \in MmapOp
         /\ kop.op = "fork" => kop \in ForkOp
         /\ kop.op = "exec" => kop \in ExecOp
         /\ kop.op \in {"none", "brk", "mmap", "fork", "exec"}
BY DEF TypeOK, Idle, BrkOp, MmapOp, ForkOp, ExecOp

SameProcs == \A p \in Procs : proc'[p].state = proc[p].state /\ proc'[p].pml4 = proc[p].pml4
SameRoots == \A q \in Frames : entry'[q][ROOT] = entry[q][ROOT]

(* A step that moves no root and no process keeps RootsOK. *)
LEMMA RootsStay ==
  ASSUME RootsOK, SameProcs, SameRoots
  PROVE  RootsOK'
BY DEF RootsOK, SameProcs, SameRoots, Maps

(* The first process, still without an image, is in order. *)
LEMMA InitInv == Init => Inv
<1> SUFFICES ASSUME Init PROVE Inv
  BY Zenon
<1>1. PICK p \in Procs, r \in Frames, b \in Frames, g \in Programs :
        /\ r = 1 /\ b = 2 /\ g.elf
        /\ proc = [q \in Procs |-> IF q = p THEN [Unused EXCEPT !.state = "embryo"] ELSE Unused]
        /\ entry = [f \in Frames |-> IF f = r THEN [NoTree EXCEPT ![ROOT] = TableEntry(r)]
                                              ELSE NoTree]
        /\ refcount = [f \in Frames |-> IF f \in {r, b} THEN 1 ELSE 0]
        /\ content = [f \in Frames |-> 0]
        /\ held = {b}
        /\ lost = [f \in Frames |-> 0]
        /\ mishaps = Overlapping(g)
        /\ kop = [op |-> "exec", p |-> p, root |-> r, program |-> g, seg |-> 0, next |-> 0,
                  end |-> 0, frame |-> 0, write |-> FALSE, buf |-> b]
        /\ down = FALSE
  BY Zenon DEF Init
<1>2. NoEntry \in Entry /\ NoEntry.frame = 0 /\ TableEntry(r) \in Entry /\ TableEntry(r).frame = r
  BY Sizes DEF NoEntry, Entry, TableEntry, Leaf, Frames
<1>3. NoTree \in [Slots -> Entry] /\ \A s \in Slots : NoTree[s] = NoEntry
  BY <1>2, Zenon DEF NoTree
<1>4. ROOT \in Slots
  BY SlotTypes, Zenon
<1> DEFINE ent0 == [f \in Frames |-> NoTree]
           rc0 == [f \in Frames |-> 0]
           rc1 == [rc0 EXCEPT ![r] = 1]
<1>5. Ledger(ent0, rc0, {}, rc0)
  <2>1. ent0 \in Entries /\ rc0 \in [Frames -> Nat]
    BY <1>3, Zenon DEF Entries
  <2>2. \A q \in Frames, t \in Slots : ent0[q][t].frame = 0
    BY <1>2, <1>3, Zenon
  <2> HIDE DEF ent0
  <2>3. Counted(ent0, rc0, {}, rc0)
    <3> SUFFICES ASSUME NEW f \in Frames
                 PROVE  0 = Cardinality(UsesIn(ent0, f)) + Unit(f \in {}) + 0
      BY Zenon DEF Counted
    <3>1. f # 0
      BY DEF Frames
    <3>2. UsesIn(ent0, f) = {}
      BY <2>2, <3>1, Zenon DEF UsesIn
    <3> QED
      BY <3>2, FS_EmptySet DEF Unit
  <2>4. Private(ent0) /\ HeldUnused(ent0, {}, rc0)
    BY <2>2, Zenon DEF Private, HeldUnused
  <2> QED
    BY <2>1, <2>3, <2>4, Zenon DEF Ledger
<1>6. entry = With(ent0, r, ROOT, Leaf(r, TRUE)) /\ ent0[r][ROOT].frame = 0
  BY <1>1, <1>2, <1>3, <1>4, Zenon DEF With, TableEntry
<1>7. rc0[r] = 0 /\ rc0 = lost /\ rc1 \in [Frames -> Nat] /\ rc1[b] = 0
  BY <1>1
<1>8. \A f \in Frames : refcount[f] = IF f \in {b} THEN 1 ELSE rc1[f]
  BY <1>1, Zenon
<1>9. refcount \in [Frames -> Nat]
  BY <1>1, Zenon
<1>10. Ledger(entry, rc1, {}, lost)
  <2>1. Updates(entry, ent0, r, ROOT, Leaf(r, TRUE))
    BY <1>6, Zenon DEF Updates
  <2> HIDE DEF ent0, rc0
  <2>2. Ledger(entry, [rc0 EXCEPT ![r] = 1], {}, Forgets(rc0, ent0[r][ROOT].frame))
    BY <1>4, <1>5, <1>7, <2>1, LedgerInstall, Zenon
  <2> QED
    BY <2>2, <1>6, <1>7, Zenon DEF Forgets
<1> HIDE DEF ent0, rc0, rc1
<1>11. Ledger(entry, refcount, {} \cup {b}, lost)
  BY <1>7, <1>8, <1>9, <1>10, LedgerHold, Zenon
<1>12. Ledger(entry, refcount, held, lost)
  <2>1. {} \cup {b} = held
    BY <1>1, Zenon
  <2> QED
    BY <2>1, <1>11, Zenon
<1>13. TypeOK
  <2>1. proc \in [Procs -> Process]
    <3>1. Unused \in Process /\ [Unused EXCEPT !.state = "embryo"] \in Process
      BY Sizes DEF Unused, Process, Bounds
    <3> QED
      BY <3>1, <1>1, Zenon
  <2>2. content \in [Frames -> Values]
    BY <1>1, VmAssumption, Zenon
  <2>3. kop \in ExecOp
    BY <1>1, Sizes DEF ExecOp, Bounds
  <2>4. mishaps \in SUBSET Mishaps
    <3>1. {} \in SUBSET Mishaps
      BY Zenon
    <3> QED
      BY <3>1, <1>1, MishapTypes, Zenon
  <2> QED
    BY <2>1, <2>2, <2>3, <2>4, <1>1, <1>12, Zenon DEF TypeOK, Ledger, Entries
<1>14. /\ \A q \in Procs : proc[q].pml4 = 0 /\ proc[q].state \in {"unused", "embryo"}
       /\ proc[p].state = "embryo"
  BY <1>1, Zenon DEF Unused
<1>15. \A q \in Frames : IF q = r THEN entry[q][ROOT].frame = q ELSE entry[q][ROOT].frame = 0
  BY <1>1, <1>2, <1>3, <1>4, Zenon
<1>16. RootsOK
  BY <1>14, <1>15, Zenon DEF RootsOK, Maps
<1>17. CallOK
  BY <1>1, <1>14, <1>15 DEF CallOK, Maps, Frames
<1>18. ExecOK
  BY <1>1 DEF ExecOK, Run
<1> QED
  BY <1>12, <1>13, <1>16, <1>17, <1>18, Zenon DEF Inv

(* What is known before every action. *)
LEMMA Up ==
  ASSUME Inv, ~down
  PROVE  TypeOK /\ Ledger(entry, refcount, held, lost) /\ RootsOK /\ CallOK /\ ExecOK
BY Zenon DEF Inv

(* Between calls only the tables and the processes are left to check. *)
LEMMA Between ==
  ASSUME TypeOK', kop'.op = "none", ~down' => Ledger(entry', refcount', held', lost') /\ RootsOK'
  PROVE  Inv'
BY Zenon DEF Inv, CallOK, ExecOK

(* A process that is not yet reaped has a root table. *)
LEMMA LiveRoot ==
  ASSUME TypeOK, RootsOK, NEW p \in Procs, proc[p].state \in {"live", "zombie"}
  PROVE  proc[p].pml4 \in Frames /\ entry[proc[p].pml4][ROOT].frame = proc[p].pml4
BY Zenon DEF RootsOK, Maps

(* A store by a program touches contents only. *)
LEMMA StoreInv ==
  ASSUME Inv, NEW p \in Procs, NEW v \in Pages, NEW x \in Stores, Store(p, v, x)
  PROVE  Inv'
<1>1. ~down /\ TypeOK /\ Ledger(entry, refcount, held, lost) /\ RootsOK
  BY Up, Zenon DEF Store, CanRun
<1>2. content' \in [Frames -> Values]
  BY <1>1, VmAssumption, ZenonT(40) DEF Store, TypeOK
<1>3. TypeOK'
  BY <1>1, <1>2, Zenon DEF Store, TypeOK
<1>4. RootsOK'
  BY <1>1, RootsStay, Zenon DEF Store, SameProcs, SameRoots
<1>5. Ledger(entry', refcount', held', lost')
  BY <1>1, Zenon DEF Store
<1> QED
  BY <1>3, <1>4, <1>5, Between, Zenon DEF Store, CanRun

(* The COW fault handler copies a shared page, or takes over one that has *)
(* a single reference. *)
LEMMA CowInv ==
  ASSUME Inv, NEW p \in Procs, NEW v \in Pages, try_handle_cow_fault(p, v)
  PROVE  Inv'
<1> DEFINE r == proc[p].pml4
           f == entry[r][v].frame
<1>1. ~down /\ TypeOK /\ Ledger(entry, refcount, held, lost) /\ RootsOK
  BY Up, ZenonT(40) DEF try_handle_cow_fault, CanRun
<1>2. r \in Frames /\ v \in Slots /\ v # ROOT /\ ROOT \in Slots
  BY <1>1, LiveRoot, SlotTypes, Zenon DEF try_handle_cow_fault, CanRun
<1>3. entry \in Entries /\ entry[r][v] \in Entry
  BY <1>1, <1>2, Zenon DEF TypeOK, Entries
<1>4. f \in Frames
  <2>1. f # 0
    BY Zenon DEF try_handle_cow_fault, Maps
  <2> QED
    BY <1>3, <2>1, FrameOf, Zenon
<1>5. held' = held /\ lost' = lost /\ proc' = proc /\ kop' = kop /\ down' = down /\ mishaps' = mishaps
  BY Zenon DEF try_handle_cow_fault
<1> HIDE DEF f
<1>6. ASSUME SoleOwner(f), entry' = [entry EXCEPT ![r][v] = Leaf(f, TRUE)],
             refcount' = refcount, content' = content
      PROVE  Ledger(entry', refcount', held, lost) /\ SameRoots /\ content' \in [Frames -> Values]
  <2>1. Leaf(f, TRUE) \in Entry /\ Leaf(f, TRUE).frame = f
    BY <1>4, LeafIs, Zenon
  <2>2. OnlyHere(entry, r, v, f)
    <3>1. refcount[f] <= 1
      BY <1>6, Zenon DEF SoleOwner
    <3> QED
      BY <1>1, <1>2, <1>4, <3>1, InUse, Zenon DEF f
  <2>3. Updates(entry', entry, r, v, Leaf(f, TRUE))
    BY <1>6, Zenon DEF Updates, With
  <2>4. entry[r][v].frame = f
    BY Zenon DEF f
  <2> HIDE DEF r
  <2>5. Ledger(entry', refcount, held, lost)
    BY <2>1, <2>2, <2>3, <2>4, <1>1, <1>2, <1>4, LedgerRights, Zenon
  <2>6. SameRoots
    BY <2>3, <1>2, <1>3, Zenon DEF SameRoots, Updates, With, Entries
  <2>7. content' \in [Frames -> Values]
    BY <1>1, <1>6, Zenon DEF TypeOK
  <2> QED
    BY <2>5, <2>6, <2>7, <1>6, Zenon
<1>7. ASSUME NEW g \in Frames, IsFirstFree(refcount, g),
             entry' = [entry EXCEPT ![r][v] = Leaf(g, TRUE)],
             refcount' = [refcount EXCEPT ![g] = 1, ![f] = @ - 1],
             content' = [content EXCEPT ![g] = content[f]]
      PROVE  Ledger(entry', refcount', held, lost) /\ SameRoots /\ content' \in [Frames -> Values]
  <2>1. Updates(entry', entry, r, v, Leaf(g, TRUE))
    BY <1>7, Zenon DEF Updates, With
  <2>2. entry[r][v].frame = f /\ refcount[g] = 0
    BY <1>7, Zenon DEF f, IsFirstFree
  <2> HIDE DEF r
  <2>3. Ledger(entry', refcount', held, lost)
    BY <2>1, <2>2, <1>1, <1>2, <1>4, <1>7, LedgerCopy, Zenon
  <2>4. SameRoots
    BY <2>1, <1>2, <1>3, ZenonT(40) DEF SameRoots, Updates, With, Entries
  <2>5. content' \in [Frames -> Values]
    BY <1>1, <1>4, <1>7, Zenon DEF TypeOK
  <2> QED
    BY <2>3, <2>4, <2>5, Zenon
<1>8. Ledger(entry', refcount', held', lost') /\ SameRoots /\ content' \in [Frames -> Values]
  BY <1>5, <1>6, <1>7, Zenon DEF try_handle_cow_fault, f
<1>9. TypeOK'
  BY <1>1, <1>5, <1>8, Zenon DEF TypeOK, Ledger, Entries
<1>10. RootsOK'
  BY <1>1, <1>5, <1>8, RootsStay, Zenon DEF SameProcs
<1> QED
  BY <1>5, <1>8, <1>9, <1>10, Between, Zenon DEF try_handle_cow_fault, CanRun

(* The roots stay right while no process gains or loses its tree. *)
LEMMA TreesStay ==
  ASSUME RootsOK, SameRoots,
         \A q \in Procs :
            /\ proc'[q].pml4 = proc[q].pml4
            /\ proc'[q].state \in {"live", "zombie"} <=> proc[q].state \in {"live", "zombie"}
  PROVE  RootsOK'
BY DEF RootsOK, SameRoots, Maps

(* The death of a process changes only its state. *)
LEMMA DieInv ==
  ASSUME Inv, NEW p \in Procs, CanRun(p), proc' = [proc EXCEPT ![p].state = "zombie"],
         UNCHANGED <<entry, refcount, content, held, lost, mishaps, kop, down>>
  PROVE  Inv'
<1>1. ~down /\ TypeOK /\ Ledger(entry, refcount, held, lost) /\ RootsOK
  BY Up, Zenon DEF CanRun
<1>2. proc' \in [Procs -> Process]
  BY <1>1, Zenon DEF TypeOK, Process
<1>3. TypeOK'
  BY <1>1, <1>2, Zenon DEF TypeOK
<1>4. \A q \in Procs :
         /\ proc'[q].pml4 = proc[q].pml4
         /\ proc'[q].state \in {"live", "zombie"} <=> proc[q].state \in {"live", "zombie"}
  BY <1>1, Zenon DEF CanRun, TypeOK, Process
<1>5. RootsOK'
  <2>1. SameRoots
    BY Zenon DEF SameRoots
  <2> QED
    BY <1>1, <1>4, <2>1, TreesStay
<1>6. Ledger(entry', refcount', held', lost')
  BY <1>1, Zenon
<1> QED
  BY <1>3, <1>5, <1>6, Between, Zenon DEF CanRun

(* Any other fault kills the process or stops the machine. *)
LEMMA FaultInv ==
  ASSUME Inv, NEW p \in Procs, NEW v \in Pages, NEW ring \in {0, 3}, exception_handler(p, v, ring)
  PROVE  Inv'
<1>1. CASE proc' = [proc EXCEPT ![p].state = "zombie"] /\ UNCHANGED down
  BY <1>1, DieInv, Zenon DEF exception_handler
<1>2. CASE down' = TRUE /\ UNCHANGED proc
  <2>1. TypeOK
    BY Zenon DEF Inv
  <2>2. TypeOK'
    BY <2>1, <1>2, Zenon DEF exception_handler, TypeOK
  <2> QED
    BY <2>2, <1>2, Zenon DEF Inv
<1> QED
  BY <1>1, <1>2, Zenon DEF exception_handler

(* A process ends; its tables stay until it is reaped. *)
LEMMA ExitInv ==
  ASSUME Inv, NEW p \in Procs, process_terminate(p)
  PROVE  Inv'
BY DieInv, Zenon DEF process_terminate

(* Freed frames keep some content. *)
LEMMA UnmapTypes ==
  ASSUME TypeOK, NEW r, NEW S, Unmap(r, S)
  PROVE  content' \in [Frames -> Values]
BY VmAssumption, Zenon DEF TypeOK, Unmap

(* Unmapping takes no root but, with all slots, that of the tree itself. *)
LEMMA UnmapRoots ==
  ASSUME TypeOK, NEW r \in Frames, NEW S, Unmap(r, S)
  PROVE  /\ \A q \in Frames : q # r => entry'[q] = entry[q]
         /\ ROOT \notin S => SameRoots
         /\ \A q \in Frames : entry'[q][ROOT] = entry[q][ROOT] \/ entry'[q][ROOT].frame = 0
<1>1. ROOT \in Slots
  BY SlotTypes, Zenon
<1>2. entry \in [Frames -> [Slots -> Entry]]
  BY Zenon DEF TypeOK
<1>3. /\ \A q \in Frames : q # r => entry'[q] = entry[q]
      /\ entry'[r][ROOT] = IF ROOT \in S THEN NoEntry ELSE entry[r][ROOT]
  BY <1>1, <1>2, Zenon DEF Unmap
<1> QED
  BY <1>3 DEF SameRoots, NoEntry

(* Reaping a zombie destroys its address space. *)
LEMMA WaitpidInv ==
  ASSUME Inv, NEW p \in Procs, process_waitpid(p)
  PROVE  Inv'
<1> DEFINE r == proc[p].pml4
<1>1. ~down /\ TypeOK /\ Ledger(entry, refcount, held, lost) /\ RootsOK
  BY Up, Zenon DEF process_waitpid
<1>2. r \in Frames /\ Unmap(r, Slots)
  BY <1>1, LiveRoot, Zenon DEF process_waitpid
<1>3. /\ held' = held /\ lost' = lost /\ mishaps' = mishaps /\ kop' = kop /\ down' = down
      /\ proc' = [proc EXCEPT ![p] = Unused]
  BY Zenon DEF process_waitpid
<1>4. Ledger(entry', refcount', held', lost')
  BY <1>1, <1>2, <1>3, LedgerUnmap, Zenon
<1>5. Unused \in Process /\ Unused.pml4 = 0 /\ Unused.state = "unused"
  BY Sizes DEF Unused, Process, Bounds
<1>6. proc' \in [Procs -> Process] /\ proc'[p] = Unused /\ \A q \in Procs : q # p => proc'[q] = proc[q]
  BY <1>1, <1>3, <1>5, Zenon DEF TypeOK
<1>7. content' \in [Frames -> Values]
  BY <1>1, <1>2, UnmapTypes, Zenon
<1>8. TypeOK'
  BY <1>1, <1>3, <1>4, <1>6, <1>7, Zenon DEF TypeOK, Ledger, Entries
<1>9. /\ \A q \in Frames : q # r => entry'[q] = entry[q]
      /\ \A q \in Frames : entry'[q][ROOT] = entry[q][ROOT] \/ entry'[q][ROOT].frame = 0
  BY <1>1, <1>2, UnmapRoots, Zenon
<1>10. \A q \in Procs : q # p => proc[q].pml4 # r
  BY <1>1, <1>2, SMTT(30) DEF RootsOK, Frames
<1> HIDE DEF r
<1>11. RootsOK'
  <2>1. \A q \in Procs : IF proc'[q].state \in {"live", "zombie"}
                         THEN proc'[q].pml4 \in Frames /\ entry'[proc'[q].pml4][ROOT].frame # 0
                         ELSE proc'[q].pml4 = 0
    <3> TAKE q \in Procs
    <3>1. CASE q = p
      BY <3>1, <1>5, <1>6, Zenon
    <3>2. CASE q # p
      BY <3>2, <1>1, <1>6, <1>9, <1>10, SMTT(30) DEF RootsOK, Maps
    <3> QED
      BY <3>1, <3>2, Zenon
  <2>2. \A q, x \in Procs : proc'[q].pml4 = proc'[x].pml4 => q = x \/ proc'[q].pml4 = 0
    BY <1>1, <1>5, <1>6, SMTT(30) DEF RootsOK
  <2>3. \A q \in Frames : entry'[q][ROOT].frame # 0 => entry'[q][ROOT].frame = q
    BY <1>1, <1>9, Zenon DEF RootsOK, Maps
  <2> QED
    BY <2>1, <2>2, <2>3, Zenon DEF RootsOK, Maps
<1> QED
  BY <1>3, <1>4, <1>8, <1>11, Between, Zenon DEF process_waitpid

(* Division of natural numbers, for the rounding of addresses to pages. *)
LEMMA DivNat ==
  ASSUME NEW n \in Nat, NEW P \in Nat \ {0}
  PROVE  n \div P \in Nat
OBVIOUS

(* Division is monotone. *)
LEMMA DivMonotone ==
  ASSUME NEW n \in Nat, NEW m \in Nat, n <= m, NEW P \in Nat \ {0}
  PROVE  n \div P <= m \div P
OBVIOUS

(* A number below k + 1 pages rounds down to k at most. *)
LEMMA DivBelow ==
  ASSUME NEW n \in Nat, NEW P \in Nat \ {0}, NEW k \in Nat, n < (k + 1) * P
  PROVE  n \div P <= k
OBVIOUS

(* Rounding breaks up to pages stays in the address space. *)
LEMMA PageUpBounds ==
  ASSUME NEW a \in Nat, NEW b \in Breaks, a <= b
  PROVE  PageUp(a) \in Nat /\ PageUp(b) \in Nat /\ PageUp(a) <= PageUp(b) /\ PageUp(b) <= NPAGES
<1>1. b \in Nat /\ b <= NPAGES * PAGE_SIZE /\ NPAGES \in Nat /\ PAGE_SIZE \in Nat \ {0}
  BY Sizes, BreakRange
<1>2. /\ a + PAGE_SIZE - 1 \in Nat /\ b + PAGE_SIZE - 1 \in Nat
      /\ a + PAGE_SIZE - 1 <= b + PAGE_SIZE - 1
  BY <1>1
<1>3. b + PAGE_SIZE - 1 < (NPAGES + 1) * PAGE_SIZE
  BY <1>1
<1> QED
  BY <1>1, <1>2, <1>3, DivNat, DivMonotone, DivBelow, Zenon DEF PageUp

(* The calls that only begin. *)
LEMMA BeginInv ==
  ASSUME Inv, NEW p \in Procs, CanRun(p), kop' \in BrkOp \cup MmapOp, kop'.p = p,
         mishaps' \in SUBSET Mishaps, UNCHANGED <<proc, entry, refcount, content, held, lost, down>>
  PROVE  Inv'
<1>1. ~down /\ TypeOK /\ Ledger(entry, refcount, held, lost) /\ RootsOK
  BY Up, Zenon DEF CanRun
<1>2. kop'.op \in {"brk", "mmap"}
  BY Zenon DEF BrkOp, MmapOp
<1>3. TypeOK'
  BY <1>1, Zenon DEF TypeOK
<1>4. RootsOK'
  BY <1>1, RootsStay, Zenon DEF SameProcs, SameRoots
<1>5. CallOK' /\ ExecOK'
  BY <1>1, <1>2, Zenon DEF CallOK, ExecOK, CanRun
<1>6. Ledger(entry', refcount', held', lost')
  BY <1>1, Zenon
<1> QED
  BY <1>3, <1>4, <1>5, <1>6, Zenon DEF Inv

(* brk begins to grow the heap. *)
LEMMA BrkInv ==
  ASSUME Inv, NEW p \in Procs, NEW b \in Breaks, process_brk(p, b)
  PROVE  Inv'
<1>1. proc[p].heap_end \in Nat /\ b \in Nat /\ proc[p].heap_end <= b
  <2>1. proc[p] \in Process
    BY Zenon DEF Inv, TypeOK
  <2>2. proc[p].heap_end \in Nat
    BY <2>1, Zenon DEF Process
  <2>3. b \in Nat /\ b > proc[p].heap_end
    BY BreakRange DEF process_brk
  <2> QED
    BY <2>2, <2>3
<1>2. PageUp(proc[p].heap_end) \in Bounds /\ PageUp(b) \in Bounds
  <2> DEFINE h == proc[p].heap_end
  <2> HIDE DEF h
  <2>1. h \in Nat /\ h <= b
    BY <1>1, Zenon DEF h
  <2>2. PageUp(h) \in Nat /\ PageUp(b) \in Nat /\ PageUp(h) <= PageUp(b) /\ PageUp(b) <= NPAGES
    BY <2>1, PageUpBounds, Zenon
  <2>3. NPAGES \in Nat
    BY Sizes
  <2>4. PageUp(h) \in Bounds /\ PageUp(b) \in Bounds
    BY <2>2, <2>3 DEF Bounds
  <2> QED
    BY <2>4, Zenon DEF h
<1>3. kop' \in BrkOp /\ kop'.p = p
  BY <1>1, <1>2, Zenon DEF process_brk, BrkOp
<1>4. mishaps' \in SUBSET Mishaps
  BY MishapTypes, Zenon DEF process_brk, Inv, TypeOK
<1> QED
  BY <1>3, <1>4, BeginInv, Zenon DEF process_brk

(* mmap begins. *)
LEMMA MmapInv ==
  ASSUME Inv, NEW p \in Procs, NEW g \in Mmaps, process_mmap(p, g.pages, g.write)
  PROVE  Inv'
<1>1. proc[p].mmap_next \in Bounds /\ g.pages \in Nat /\ g.write \in BOOLEAN
  BY VmAssumption, Zenon DEF Inv, TypeOK, Process
<1>2. proc[p].mmap_next + g.pages \in Bounds
  <2>1. proc[p].mmap_next + g.pages <= NPAGES
    BY Zenon DEF process_mmap
  <2>2. proc[p].mmap_next \in Nat
    BY <1>1 DEF Bounds
  <2> QED
    BY <1>1, <2>1, <2>2, Sizes DEF Bounds
<1>3. kop' \in MmapOp /\ kop'.p = p
  BY <1>1, <1>2, Zenon DEF process_mmap, MmapOp
<1>4. mishaps' \in SUBSET Mishaps
  BY Zenon DEF process_mmap, Inv, TypeOK
<1> QED
  BY <1>3, <1>4, BeginInv, Zenon DEF process_mmap

(* munmap drops the references of its range. *)
LEMMA MunmapInv ==
  ASSUME Inv, NEW p \in Procs, NEW g \in Ranges, process_munmap(p, g.first, g.end)
  PROVE  Inv'
<1> DEFINE r == proc[p].pml4
           S == g.first .. g.end - 1
<1>1. ~down /\ TypeOK /\ Ledger(entry, refcount, held, lost) /\ RootsOK
  BY Up, Zenon DEF process_munmap, CanRun
<1>2. r \in Frames /\ Unmap(r, S)
  BY <1>1, LiveRoot, Zenon DEF process_munmap, CanRun
<1>3. S \subseteq Pages
  BY RangeRange, Sizes DEF Pages
<1>4. S \subseteq Slots /\ ROOT \notin S
  BY <1>3, SlotTypes, Zenon
<1> HIDE DEF r, S
<1>5. Ledger(entry', refcount', held, lost)
  BY <1>1, <1>2, <1>4, LedgerUnmap, Zenon
<1>6. SameRoots /\ content' \in [Frames -> Values]
  BY <1>1, <1>2, <1>4, UnmapRoots, UnmapTypes, Zenon
<1>7. TypeOK'
  BY <1>1, <1>5, <1>6, Zenon DEF TypeOK, Ledger, Entries, process_munmap
<1>8. RootsOK'
  BY <1>1, <1>6, RootsStay, Zenon DEF SameProcs, process_munmap
<1> QED
  BY <1>5, <1>7, <1>8, Between, Zenon DEF process_munmap, CanRun

(* A fresh frame becomes the root of a tree that no process has yet. *)
LEMMA NewRoot ==
  ASSUME NEW rc, NEW H, Ledger(entry, rc, H, lost), RootsOK, NEW r \in Frames, rc[r] = 0,
         entry' = [entry EXCEPT ![r][ROOT] = TableEntry(r)]
  PROVE  /\ Ledger(entry', [rc EXCEPT ![r] = 1], H, lost)
         /\ entry'[r][ROOT].frame = r
         /\ \A q \in Frames : q # r => entry'[q] = entry[q]
         /\ \A p \in Procs : proc[p].pml4 # r
<1>1. ROOT \in Slots
  BY SlotTypes, Zenon
<1>2. \A q \in Frames, t \in Slots : entry[q][t].frame # r
  BY Fresh
<1>3. entry[r][ROOT].frame = 0
  BY <1>1, <1>2, Zenon DEF RootsOK, Maps
<1>4. Updates(entry', entry, r, ROOT, Leaf(r, TRUE))
  BY Zenon DEF Updates, With, TableEntry
<1>5. Ledger(entry', [rc EXCEPT ![r] = 1], H, Forgets(lost, entry[r][ROOT].frame))
  BY <1>1, <1>4, LedgerInstall, ZenonT(40)
<1>6. entry'[r][ROOT].frame = r /\ \A q \in Frames : q # r => entry'[q] = entry[q]
  BY <1>1, Zenon DEF Ledger, Entries, TableEntry, Leaf
<1>7. \A p \in Procs : proc[p].pml4 # r
  <2>1. r # 0
    BY DEF Frames
  <2> QED
    BY <2>1, <1>3, Zenon DEF RootsOK, Maps
<1> QED
  BY <1>3, <1>5, <1>6, <1>7, Zenon DEF Forgets

(* The other roots are where they were. *)
LEMMA NewRootRoots ==
  ASSUME RootsOK, SameProcs, NEW r \in Frames, entry'[r][ROOT].frame = r,
         \A q \in Frames : q # r => entry'[q] = entry[q], \A p \in Procs : proc[p].pml4 # r
  PROVE  RootsOK'
<1>1. \A p \in Procs : IF proc'[p].state \in {"live", "zombie"}
                       THEN proc'[p].pml4 \in Frames /\ entry'[proc'[p].pml4][ROOT].frame # 0
                       ELSE proc'[p].pml4 = 0
  BY DEF RootsOK, SameProcs, Maps
<1>2. \A p, q \in Procs : proc'[p].pml4 = proc'[q].pml4 => p = q \/ proc'[p].pml4 = 0
  BY DEF RootsOK, SameProcs
<1>3. \A q \in Frames : entry'[q][ROOT].frame # 0 => entry'[q][ROOT].frame = q
  BY Zenon DEF RootsOK, Maps
<1> QED
  BY <1>1, <1>2, <1>3, Zenon DEF RootsOK, Maps

(* fork begins with a fresh root for the child, or gives up. *)
LEMMA ForkInv ==
  ASSUME Inv, NEW p \in Procs, NEW q \in Procs, do_fork(p, q)
  PROVE  Inv'
<1>1. ~down /\ TypeOK /\ Ledger(entry, refcount, held, lost) /\ RootsOK
  BY Up, Zenon DEF do_fork, CanRun
<1>2. /\ proc' = [proc EXCEPT ![q].state = "embryo"]
      /\ proc[q].state = "unused" /\ proc[p].state = "live"
      /\ content' = content /\ held' = held /\ lost' = lost /\ mishaps' = mishaps
  BY Zenon DEF do_fork, CanRun
<1>3. /\ proc' \in [Procs -> Process]
      /\ proc'[q].state = "embryo" /\ proc'[p].state = "live"
      /\ \A x \in Procs : proc'[x].pml4 = proc[x].pml4
      /\ \A x \in Procs : x # q => proc'[x] = proc[x]
  BY <1>1, <1>2, Zenon DEF TypeOK, Process
<1>4. CASE down' = TRUE /\ UNCHANGED <<entry, refcount, kop>>
  <2>1. TypeOK'
    BY <1>1, <1>2, <1>3, <1>4, Zenon DEF TypeOK
  <2> QED
    BY <2>1, <1>4, Zenon DEF Inv
<1>5. ASSUME NEW r \in Frames, vmm_new_address_space(r), UNCHANGED down,
             kop' = [op |-> "fork", p |-> p, q |-> q, root |-> r, next |-> 0]
      PROVE  Inv'
  <2>1. refcount[r] = 0 /\ refcount' = [refcount EXCEPT ![r] = 1]
        /\ entry' = [entry EXCEPT ![r][ROOT] = TableEntry(r)]
    BY <1>5, Zenon DEF vmm_new_address_space, IsFirstFree
  <2>2. /\ Ledger(entry', refcount', held', lost')
        /\ entry'[r][ROOT].frame = r
        /\ \A x \in Frames : x # r => entry'[x] = entry[x]
        /\ \A x \in Procs : proc[x].pml4 # r
    <3>1. /\ Ledger(entry', [refcount EXCEPT ![r] = 1], held, lost)
          /\ entry'[r][ROOT].frame = r
          /\ \A x \in Frames : x # r => entry'[x] = entry[x]
          /\ \A x \in Procs : proc[x].pml4 # r
      BY <2>1, <1>1, NewRoot, Zenon
    <3> QED
      BY <3>1, <2>1, <1>2, Zenon
  <2>3. RootsOK'
    <3>1. \A x \in Procs : IF proc'[x].state \in {"live", "zombie"}
                           THEN proc'[x].pml4 \in Frames /\ entry'[proc'[x].pml4][ROOT].frame # 0
                           ELSE proc'[x].pml4 = 0
      <4> TAKE x \in Procs
      <4>1. CASE x = q
        BY <4>1, <1>1, <1>2, <1>3, Zenon DEF RootsOK
      <4>2. CASE x # q
        <5>1. proc'[x] = proc[x] /\ proc[x].pml4 # r
          BY <4>2, <1>3, <2>2, Zenon
        <5>2. IF proc[x].state \in {"live", "zombie"}
              THEN proc[x].pml4 \in Frames /\ entry[proc[x].pml4][ROOT].frame # 0
              ELSE proc[x].pml4 = 0
          BY <1>1, Zenon DEF RootsOK, Maps
        <5> QED
          BY <5>1, <5>2, <2>2, Zenon
      <4> QED
        BY <4>1, <4>2, Zenon
    <3>2. \A x, y \in Procs : proc'[x].pml4 = proc'[y].pml4 => x = y \/ proc'[x].pml4 = 0
      BY <1>1, <1>3, SMTT(30) DEF RootsOK
    <3>3. \A x \in Frames : entry'[x][ROOT].frame # 0 => entry'[x][ROOT].frame = x
      BY <1>1, <2>2, Zenon DEF RootsOK, Maps
    <3> QED
      BY <3>1, <3>2, <3>3, Zenon DEF RootsOK, Maps
  <2>4. kop' \in ForkOp
    BY <1>5, Sizes DEF ForkOp, Bounds
  <2>5. TypeOK'
    BY <2>2, <2>4, <1>1, <1>2, <1>3, <1>5, Zenon DEF TypeOK, Ledger, Entries
  <2>6. CallOK' /\ ExecOK'
    <3>1. kop'.op = "fork" /\ kop'.p = p /\ kop'.q = q /\ kop'.root = r /\ r # 0
      BY <1>5, SMTT(30) DEF Frames
    <3> QED
      BY <3>1, <2>2, <1>3, Zenon DEF CallOK, ExecOK, Maps
  <2> QED
    BY <2>2, <2>3, <2>5, <2>6, Zenon DEF Inv
<1> QED
  BY <1>4, <1>5, Zenon DEF do_fork
=============================================================================
