----------------------------- MODULE PmmProofs ------------------------------
(* Proofs about Pmm, for every memory map, page size and bitmap size. *)
EXTENDS Pmm, TLAPS, FiniteSetTheorems, WellFoundedInduction

(* The inductive invariant: the four invariants support one another. *)
IInv == TypeOK /\ Accounting /\ OwnersMatchBitmap /\ OutOfMemoryIsReal

Requests == [count : 0 .. MAX_PAGES, page : Pages, granted : BOOLEAN]

-----------------------------------------------------------------------------
(* A non-empty set of naturals has a least element: what a first-fit loop  *)
(* over page indices stops at.                                             *)
LEMMA LeastExists ==
  ASSUME NEW S \in SUBSET Nat, S # {}
  PROVE  \E m \in S : \A k \in S : m <= k
<1> DEFINE R == OpToRel(<, Nat)
<1>1. IsWellFoundedOn(R, Nat)
  BY NatLessThanWellFounded, Zenon
<1>2. PICK m \in S : \A k \in S : ~(<<k, m>> \in R)
  <2> HIDE DEF R
  <2> QED BY <1>1, WFMin, Zenon
<1>3. \A k \in S : <<k, m>> \in R <=> k < m
  BY Zenon DEF OpToRel
<1> HIDE DEF R
<1>4. \A k \in S : ~(k < m)
  BY <1>2, <1>3, Zenon
<1>5. ASSUME NEW k \in S PROVE m <= k
  <2>1. m \in Nat /\ k \in Nat /\ ~(k < m)
    BY <1>4, Zenon
  <2> QED BY <2>1
<1> QED BY <1>5, Zenon

(* Rounding down to whole pages preserves the order of addresses. *)
LEMMA PagesOfMonotone ==
  ASSUME NEW a \in Nat, NEW b \in Nat, NEW P \in Nat \ {0}, a <= b
  PROVE  a \div P \in Nat /\ a \div P <= b \div P
  BY Z3

(* A page between the rounded ends of a region lies inside the region. *)
LEMMA PageInside ==
  ASSUME NEW b \in Nat, NEW l \in Nat, NEW P \in Nat \ {0}, NEW i \in Nat,
         (b + P - 1) \div P <= i, i < (b + l) \div P
  PROVE  b <= i * P /\ (i + 1) * P <= b + l
<1>1. b <= i * P
  BY Z3
<1>2. (i + 1) * P <= b + l
  <2>1. b + l \in Nat
    OBVIOUS
  <2> QED BY <2>1, Z3
<1> QED BY <1>1, <1>2, Zenon

(* A set of page indices below n has at most n elements. *)
LEMMA CountBelow ==
  ASSUME NEW n \in Nat, NEW S \in SUBSET (0 .. n - 1)
  PROVE  IsFiniteSet(S) /\ Cardinality(S) \in 0 .. n
<1>1. IsFiniteSet(0 .. n - 1) /\ Cardinality(0 .. n - 1) = n
  BY FS_Interval
<1>2. IsFiniteSet(S) /\ Cardinality(S) <= n
  BY <1>1, FS_Subset, Zenon
<1>3. Cardinality(S) \in Nat
  BY <1>2, FS_CardinalityType, Zenon
<1> QED BY <1>2, <1>3

(* A free page is one the boot map made available, so it is tracked. *)
LEMMA ClearIsTracked ==
  ASSUME TypeOK, OwnersMatchBitmap
  PROVE  /\ \A i \in Pages : i \notin bitmap => i < total_pages
         /\ Clear(0, MAX_PAGES) = Clear(0, total_pages)
         /\ IsFiniteSet(Clear(0, MAX_PAGES))
         /\ Cardinality(Clear(0, MAX_PAGES)) \in 0 .. total_pages
<1> USE PmmAssumption
<1>1. \A i \in Pages : i \notin bitmap => i < total_pages
  BY Zenon DEF OwnersMatchBitmap
<1>2. total_pages \in Nat /\ total_pages <= MAX_PAGES
  BY DEF TypeOK
<1>3. Clear(0, MAX_PAGES) = Clear(0, total_pages)
  BY <1>1, <1>2 DEF Clear, Pages
<1>4. Clear(0, total_pages) \in SUBSET (0 .. total_pages - 1)
  BY Zenon DEF Clear
<1>5. /\ IsFiniteSet(Clear(0, total_pages))
      /\ Cardinality(Clear(0, total_pages)) \in 0 .. total_pages
  BY <1>2, <1>4, CountBelow, Zenon
<1> QED BY <1>1, <1>2, <1>3, <1>5, Zenon

-----------------------------------------------------------------------------
(* pmm_init sets up a state that satisfies the invariant. *)
LEMMA InitEstablishes == pmm_init => IInv
<1> USE PmmAssumption
<1> SUFFICES ASSUME pmm_init PROVE IInv
  BY Zenon
<1>1. PICK h \in {0} \cup {r.base + r.length : r \in memmap} :
         /\ \A r \in memmap : r.base + r.length <= h
         /\ total_pages = Least(h \div PAGE_SIZE, MAX_PAGES)
  BY Zenon DEF pmm_init
<1>2. h \in Nat
  BY DEF pmm_init
<1>3. h \div PAGE_SIZE \in Nat
  BY <1>2, PagesOfMonotone
<1>4. /\ total_pages \in 0 .. MAX_PAGES
      /\ total_pages <= h \div PAGE_SIZE
      /\ total_pages = MAX_PAGES \/ total_pages = h \div PAGE_SIZE
  BY <1>1, <1>3 DEF Least
<1>5. ASSUME NEW i \in UsablePages(memmap)
      PROVE  i \in Pages /\ i < total_pages /\ Whole(i)
  <2>1. PICK r \in memmap : r.usable /\ i \in mark_region_free(r)
    BY Zenon DEF UsablePages
  <2>2. r.base + r.length \in Nat /\ r.base + r.length <= h
    BY <1>1 DEF pmm_init
  <2>3. /\ (r.base + r.length) \div PAGE_SIZE \in Nat
        /\ (r.base + r.length) \div PAGE_SIZE <= h \div PAGE_SIZE
    BY <1>2, <2>2, PagesOfMonotone, Zenon
  <2>4. /\ i \in Pages /\ i < (r.base + r.length) \div PAGE_SIZE
        /\ (r.base + PAGE_SIZE - 1) \div PAGE_SIZE <= i
    BY <2>1, Zenon DEF mark_region_free
  <2>5. i \in Pages /\ i < total_pages
    BY <1>3, <1>4, <2>3, <2>4 DEF Pages
  <2>6. i \in Nat /\ r.base \in Nat /\ r.length \in Nat
    BY <2>4 DEF pmm_init, Pages
  <2>7. r.base <= i * PAGE_SIZE /\ (i + 1) * PAGE_SIZE <= r.base + r.length
    BY <2>4, <2>6, PageInside, Zenon
  <2> QED BY <2>1, <2>5, <2>7, Zenon DEF Whole
<1>6. OwnersMatchBitmap
  <2>1. Pool = UsablePages(memmap)
    BY Zenon DEF Pool, pmm_init
  <2>2. \A i \in Pages : refs[i] = 0 /\ refcount[i] = 0 /\ ~(refs[i] > 0)
    BY DEF pmm_init
  <2>3. bitmap = Pages \ UsablePages(memmap)
    BY Zenon DEF pmm_init
  <2> QED BY <1>5, <2>1, <2>2, <2>3, Zenon DEF OwnersMatchBitmap
<1>7. UsablePages(memmap) = Clear(0, MAX_PAGES)
  BY Zenon DEF pmm_init, Clear, UsablePages, Pages
<1>8. Clear(0, MAX_PAGES) \in SUBSET (0 .. total_pages - 1)
  <2>1. \A i \in Clear(0, MAX_PAGES) : i \in 0 .. total_pages - 1
    BY <1>4, <1>5, <1>7 DEF Pages
  <2> QED BY <2>1, Zenon
<1>9. Cardinality(Clear(0, MAX_PAGES)) \in 0 .. total_pages
  BY <1>4, <1>8, CountBelow
<1>10. free_pages \in 0 .. total_pages /\ Accounting
  BY <1>4, <1>7, <1>9, Zenon DEF pmm_init, Accounting
<1>11. TypeOK
  <2>1. /\ refcount \in [Pages -> 0 .. REF_LIMIT - 1] /\ bitmap \subseteq Pages
        /\ refs \in [Pages -> 0 .. REF_LIMIT] /\ released \in SUBSET Pages
    BY DEF pmm_init
  <2>2. last \in [count : 0 .. MAX_PAGES, page : Pages, granted : BOOLEAN]
    BY DEF pmm_init, NoRequest, OOM, Pages
  <2>3. used_pages \in 0 .. total_pages /\ scan_hint \in 0 .. total_pages
    BY <1>4, <1>10 DEF pmm_init
  <2> QED BY <1>4, <1>10, <2>1, <2>2, <2>3, Zenon DEF pmm_init, TypeOK
<1>12. OutOfMemoryIsReal
  BY DEF pmm_init, OutOfMemoryIsReal, NoRequest
<1> QED BY <1>6, <1>10, <1>11, <1>12, Zenon DEF IInv

-----------------------------------------------------------------------------
(* The invariant after a step, from the parts a step has to establish: the *)
(* counters' types follow from the accounting.                             *)
LEMMA CountersFollow ==
  ASSUME IInv, UNCHANGED <<memmap, total_pages>>,
         bitmap' \subseteq Pages, OwnersMatchBitmap', Accounting',
         refcount' \in [Pages -> 0 .. REF_LIMIT - 1],
         refs' \in [Pages -> 0 .. REF_LIMIT], released' \in SUBSET Pages,
         scan_hint' \in 0 .. total_pages, last' \in Requests
  PROVE  TypeOK'
<1> USE PmmAssumption
<1>1. total_pages' \in 0 .. MAX_PAGES /\ memmap' \in MemMaps
  BY Zenon DEF IInv, TypeOK
<1>2. \A i \in Pages : i \notin bitmap' => i < total_pages'
  BY Zenon DEF OwnersMatchBitmap
<1> DEFINE C == Clear(0, MAX_PAGES)'
<1>3. C \in SUBSET (0 .. total_pages - 1)
  <2>1. \A i \in C : i \in 0 .. total_pages - 1
    BY <1>1, <1>2 DEF Clear, Pages
  <2> QED BY <2>1, Zenon
<1>4. Cardinality(C) \in 0 .. total_pages
  <2>1. total_pages \in Nat
    BY <1>1
  <2> HIDE DEF C
  <2> QED BY <1>3, <2>1, CountBelow, Zenon
<1>5. free_pages' \in 0 .. total_pages' /\ used_pages' \in 0 .. total_pages'
  BY <1>1, <1>4 DEF Accounting
<1> QED BY <1>1, <1>5, Zenon DEF TypeOK, Requests

(* The pool and the whole pages depend on the boot map and on what has     *)
(* been released only.                                                     *)
LEMMA PoolKept ==
  ASSUME UNCHANGED <<memmap, released>>
  PROVE  Pool' = Pool /\ UsablePages(memmap)' = UsablePages(memmap)
         /\ \A i : Whole(i)' = Whole(i)
  BY Zenon DEF Pool, UsablePages, Whole

(* Taking a set of n free pages keeps counters, bitmap and refcounts in    *)
(* step: the common part of both allocation calls.                         *)
LEMMA TakePages ==
  ASSUME IInv, NEW S \in SUBSET Pages, S \cap bitmap = {},
         NEW n \in Nat, IsFiniteSet(S), Cardinality(S) = n,
         bitmap' = bitmap \cup S,
         refcount' = FirstOwner(refcount, S), refs' = FirstOwner(refs, S),
         free_pages' = free_pages - n, used_pages' = used_pages + n,
         UNCHANGED <<memmap, total_pages, released>>
  PROVE  /\ OwnersMatchBitmap'
         /\ Accounting'
         /\ refcount' \in [Pages -> 0 .. REF_LIMIT - 1]
         /\ refs' \in [Pages -> 0 .. REF_LIMIT] /\ released' \in SUBSET Pages
         /\ bitmap' \subseteq Pages
<1> USE PmmAssumption
<1>1. OwnersMatchBitmap'
  <2> SUFFICES ASSUME NEW i \in Pages
               PROVE  /\ i \in Pool => /\ i < total_pages
                                       /\ Whole(i) \/ i \in released
                                       /\ i \in bitmap' <=> refs'[i] > 0
                      /\ i \notin Pool => i \in bitmap'
                      /\ refs'[i] < REF_LIMIT => refcount'[i] = refs'[i]
    BY PoolKept, Zenon DEF OwnersMatchBitmap
  <2>1. /\ refcount'[i] = IF i \in S THEN 1 ELSE refcount[i]
        /\ refs'[i] = IF i \in S THEN 1 ELSE refs[i]
    BY Zenon DEF FirstOwner
  <2>2. i \in S => refs'[i] > 0
    BY <2>1
  <2> QED BY <2>1, <2>2, Zenon DEF IInv, OwnersMatchBitmap
<1>2. Clear(0, MAX_PAGES)' = Clear(0, MAX_PAGES) \ S
  BY Zenon DEF Clear
<1>3. Clear(0, MAX_PAGES) \cap S = S
  BY Zenon DEF Clear, Pages
<1>4. /\ IsFiniteSet(Clear(0, MAX_PAGES))
      /\ Cardinality(Clear(0, MAX_PAGES)) \in Nat
  BY ClearIsTracked DEF IInv
<1>5. Cardinality(Clear(0, MAX_PAGES)') = Cardinality(Clear(0, MAX_PAGES)) - n
  BY <1>2, <1>3, <1>4, FS_Difference, Zenon
<1>6. Accounting'
  BY <1>4, <1>5 DEF IInv, Accounting, TypeOK
<1>7. /\ refcount' \in [Pages -> 0 .. REF_LIMIT - 1]
      /\ refs' \in [Pages -> 0 .. REF_LIMIT]
  BY DEF FirstOwner, IInv, TypeOK
<1>8. bitmap' \subseteq Pages /\ released' \in SUBSET Pages
  BY Zenon DEF IInv, TypeOK
<1> QED BY <1>1, <1>6, <1>7, <1>8, Zenon

(* A failed request leaves the allocator alone. *)
LEMMA NothingTaken ==
  ASSUME IInv, UNCHANGED <<memmap, bitmap, refcount, total_pages, free_pages,
                           used_pages, scan_hint, refs, released>>,
         last' \in Requests
  PROVE  TypeOK' /\ Accounting' /\ OwnersMatchBitmap'
<1>1. TypeOK' /\ Accounting'
  BY Zenon DEF IInv, TypeOK, Accounting, Clear, Requests
<1> QED BY <1>1, PoolKept, Zenon DEF IInv, OwnersMatchBitmap

(* Page 0 belongs to no usable region: when it is free it was released. *)
LEMMA PageZeroReleased ==
  ASSUME IInv, 0 \notin bitmap
  PROVE  0 \in released
<1> USE PmmAssumption
<1>1. 0 \notin UsablePages(memmap)
  <2> SUFFICES ASSUME NEW r \in memmap, r.usable, 0 \in mark_region_free(r)
               PROVE  FALSE
    BY Zenon DEF UsablePages
  <2>1. r.base \in Nat /\ r.base > 0
    BY Zenon DEF IInv, TypeOK
  <2>2. /\ r.base + PAGE_SIZE - 1 \in Nat
        /\ PAGE_SIZE <= r.base + PAGE_SIZE - 1
    BY <2>1
  <2>3. PAGE_SIZE \div PAGE_SIZE <= (r.base + PAGE_SIZE - 1) \div PAGE_SIZE
    BY <2>2, PagesOfMonotone, Zenon
  <2>4. PAGE_SIZE \div PAGE_SIZE = 1
    BY Z3
  <2>5. (r.base + PAGE_SIZE - 1) \div PAGE_SIZE \in Nat
    BY <2>2, PagesOfMonotone
  <2>6. (r.base + PAGE_SIZE - 1) \div PAGE_SIZE <= 0
    BY Zenon DEF mark_region_free
  <2> QED BY <2>3, <2>4, <2>5, <2>6
<1>2. 0 \in Pages
  BY DEF Pages
<1> QED BY <1>1, <1>2, Zenon DEF IInv, OwnersMatchBitmap, Pool

(* A request that is granted is answered truthfully. *)
LEMMA GrantedIsReal ==
  ASSUME IInv, last'.granted, last'.page \notin bitmap, released' = released
  PROVE  OutOfMemoryIsReal'
  BY PageZeroReleased, Zenon DEF OutOfMemoryIsReal, OOM

-----------------------------------------------------------------------------
(* pmm_alloc_page preserves the invariant. *)
LEMMA AllocPagePreserves ==
  ASSUME IInv, pmm_alloc_page
  PROVE  IInv'
<1> USE PmmAssumption
<1>0. /\ total_pages \in 0 .. MAX_PAGES /\ scan_hint \in 0 .. total_pages
      /\ UNCHANGED <<memmap, total_pages, released>>
  BY Zenon DEF IInv, TypeOK, pmm_alloc_page
<1>1. ASSUME NEW i \in Pages, IsScanHit(i),
             bitmap' = bitmap \cup {i},
             refcount' = FirstOwner(refcount, {i}), refs' = FirstOwner(refs, {i}),
             free_pages' = free_pages - 1, used_pages' = used_pages + 1,
             scan_hint' = i + 1, last' = [count |-> 1, page |-> i, granted |-> TRUE]
      PROVE  IInv'
  <2>2. i \notin bitmap /\ i < total_pages
    BY <1>0, <1>1 DEF IsScanHit, Clear
  <2>4. IsFiniteSet({i}) /\ Cardinality({i}) = 1
    BY FS_Singleton, Zenon
  <2>5. {i} \in SUBSET Pages /\ {i} \cap bitmap = {} /\ 1 \in Nat
    BY <2>2
  <2>6. /\ OwnersMatchBitmap' /\ Accounting' /\ bitmap' \subseteq Pages
        /\ refcount' \in [Pages -> 0 .. REF_LIMIT - 1]
        /\ refs' \in [Pages -> 0 .. REF_LIMIT] /\ released' \in SUBSET Pages
    BY <1>0, <1>1, <2>4, <2>5, TakePages, Zenon
  <2>7. scan_hint' \in 0 .. total_pages
    BY <1>0, <1>1, <2>2 DEF Pages
  <2>8. last' \in Requests
    BY <1>1 DEF Requests
  <2>9. TypeOK'
    BY <1>0, <2>6, <2>7, <2>8, CountersFollow, Zenon
  <2>10. last'.granted /\ last'.page \notin bitmap
    BY <1>1, <2>2
  <2>11. OutOfMemoryIsReal'
    BY <1>0, <2>10, GrantedIsReal, Zenon
  <2> QED BY <2>6, <2>9, <2>11, Zenon DEF IInv
<1>2. CASE /\ Clear(scan_hint, total_pages) = {}
           /\ Clear(0, scan_hint) = {}
           /\ last' = [count |-> 1, page |-> OOM, granted |-> FALSE]
           /\ UNCHANGED <<bitmap, refcount, free_pages, used_pages, scan_hint, refs>>
  <2>2. last' \in Requests
    BY <1>2 DEF OOM, Pages, Requests
  <2>3. TypeOK' /\ Accounting' /\ OwnersMatchBitmap'
    BY <1>0, <1>2, <2>2, NothingTaken, Zenon
  <2>4. ASSUME NEW s \in Pages, s + 1 <= total_pages PROVE s \in bitmap
    BY <1>0, <1>2, <2>4 DEF Clear, Pages
  <2>5. OutOfMemoryIsReal'
    BY <1>0, <1>2, <2>4 DEF OutOfMemoryIsReal, Run, Pages
  <2> QED BY <2>3, <2>5, Zenon DEF IInv
<1> QED BY <1>1, <1>2, Zenon DEF pmm_alloc_page

(* First fit looks only at 0 and at the pages after a used one; that is    *)
(* enough to find a run if there is any.                                   *)
LEMMA FirstFitIsComplete ==
  ASSUME IInv, NEW count \in Nat, FreeRuns(count) = {}
  PROVE  \A s \in Pages : s + count <= total_pages => Run(s, count) \cap bitmap # {}
<1> USE PmmAssumption
<1> DEFINE T == {s \in Pages : s + count <= total_pages /\ Run(s, count) \cap bitmap = {}}
<1> SUFFICES ASSUME T # {} PROVE FALSE
  BY Zenon
<1>1. T \in SUBSET Nat
  BY DEF Pages
<1>2. PICK m \in T : \A k \in T : m <= k
  <2> HIDE DEF T
  <2> QED BY <1>1, LeastExists, Zenon
<1>3. m \in Pages /\ m + count <= total_pages /\ Run(m, count) \cap bitmap = {}
  BY Zenon
<1>4. m # 0 /\ m - 1 \notin bitmap
  BY <1>3, Zenon DEF FreeRuns, RunStarts
<1>5. m - 1 \in Pages /\ total_pages \in Nat
  BY <1>3, <1>4 DEF Pages, IInv, TypeOK
<1>6. m \in Nat /\ (m - 1) + count <= total_pages
  BY <1>3, <1>5 DEF Pages
<1>7. Run(m - 1, count) \subseteq Run(m, count) \cup {m - 1}
  BY <1>6 DEF Run
<1>8. Run(m - 1, count) \cap bitmap = {}
  BY <1>3, <1>4, <1>7, Zenon
<1>9. m - 1 \in T
  BY <1>5, <1>6, <1>8, Zenon
<1>10. m <= m - 1
  BY <1>2, <1>9, Zenon
<1> QED BY <1>6, <1>10

(* pmm_alloc_pages preserves the invariant. *)
LEMMA AllocPagesPreserves ==
  ASSUME IInv, NEW count \in 0 .. MAX_PAGES, pmm_alloc_pages(count)
  PROVE  IInv'
<1> USE PmmAssumption
<1>0. /\ UNCHANGED <<memmap, total_pages, scan_hint, released>>
      /\ total_pages \in 0 .. MAX_PAGES
  BY Zenon DEF pmm_alloc_pages, IInv, TypeOK
<1>1. ASSUME NEW s \in FreeRuns(count),
             count > 0, count <= total_pages,
             bitmap' = bitmap \cup Run(s, count),
             refcount' = FirstOwner(refcount, Run(s, count)),
             refs' = FirstOwner(refs, Run(s, count)),
             free_pages' = free_pages - count,
             used_pages' = used_pages + count,
             last' = [count |-> count, page |-> s, granted |-> TRUE]
      PROVE  IInv'
  <2>1. /\ s \in Pages /\ s + count <= total_pages
        /\ Run(s, count) \cap bitmap = {}
    BY Zenon DEF FreeRuns, RunStarts
  <2>2. Run(s, count) \in SUBSET Pages
    BY <1>0, <2>1 DEF Run, Pages
  <2>3. s \in Int /\ s + count - 1 \in Int /\ s <= s + count - 1
    BY <1>1, <2>1 DEF Pages
  <2>4. IsFiniteSet(Run(s, count)) /\ Cardinality(Run(s, count)) = count
    BY <2>3, FS_Interval DEF Run
  <2>5. /\ OwnersMatchBitmap' /\ Accounting' /\ bitmap' \subseteq Pages
        /\ refcount' \in [Pages -> 0 .. REF_LIMIT - 1]
        /\ refs' \in [Pages -> 0 .. REF_LIMIT] /\ released' \in SUBSET Pages
    <3> DEFINE S == Run(s, count)
    <3>1. S \in SUBSET Pages /\ S \cap bitmap = {} /\ count \in Nat
      BY <2>1, <2>2
    <3> HIDE DEF S
    <3> QED BY <1>0, <1>1, <2>4, <3>1, TakePages, Zenon DEF S
  <2>6. last' \in Requests
    BY <1>1, <2>1, Zenon DEF Requests
  <2>7. TypeOK'
    BY <1>0, <2>5, <2>6, CountersFollow, Zenon DEF IInv, TypeOK
  <2>8. s \in Run(s, count)
    BY <2>3 DEF Run
  <2>9. last'.granted /\ last'.page \notin bitmap
    BY <1>1, <2>1, <2>8
  <2>10. OutOfMemoryIsReal'
    BY <1>0, <2>9, GrantedIsReal, Zenon
  <2> QED BY <2>5, <2>7, <2>10, Zenon DEF IInv
<1>2. CASE /\ count = 0 \/ count > total_pages \/ FreeRuns(count) = {}
           /\ last' = [count |-> count, page |-> OOM, granted |-> FALSE]
           /\ UNCHANGED <<bitmap, refcount, free_pages, used_pages, refs>>
  <2>1. last' \in Requests
    BY <1>2 DEF OOM, Pages, Requests
  <2>2. TypeOK' /\ Accounting' /\ OwnersMatchBitmap'
    BY <1>0, <1>2, <2>1, NothingTaken, Zenon
  <2>3. last'.count = count /\ ~last'.granted /\ bitmap' = bitmap
    BY <1>2
  <2>4. CASE count > total_pages
    <3>1. \A s \in Pages : ~(s + count <= total_pages)
      BY <1>0, <2>4 DEF Pages
    <3> QED BY <1>0, <2>2, <2>3, <3>1, Zenon DEF OutOfMemoryIsReal, IInv
  <2>5. CASE FreeRuns(count) = {}
    <3>1. \A s \in Pages : s + count <= total_pages => Run(s, count) \cap bitmap # {}
      BY <2>5, FirstFitIsComplete
    <3> QED BY <1>0, <2>2, <2>3, <3>1, Zenon DEF OutOfMemoryIsReal, IInv, Run
  <2>6. count = 0 => OutOfMemoryIsReal'
    BY <2>3 DEF OutOfMemoryIsReal
  <2> QED BY <1>2, <2>2, <2>4, <2>5, <2>6, Zenon DEF IInv
<1> QED BY <1>1, <1>2, Zenon DEF pmm_alloc_pages

(* What a free or a reference does to the answer of the last request. *)
LEMMA NoRequestIsReal ==
  ASSUME last' = NoRequest
  PROVE  last' \in Requests /\ OutOfMemoryIsReal'
  BY PmmAssumption DEF NoRequest, OOM, Pages, Requests, OutOfMemoryIsReal

(* The references out after one is given back. *)
LEMMA GivenBackCases ==
  ASSUME IInv, NEW i \in Pages, i \in bitmap
  PROVE  /\ refs[i] \in 0 .. REF_LIMIT /\ refcount[i] \in 0 .. REF_LIMIT - 1
         /\ StillShared(i) /\ refs[i] = REF_LIMIT => GivenBack(i) = REF_LIMIT
         /\ StillShared(i) /\ refs[i] # REF_LIMIT =>
               refs[i] > 1 /\ refcount[i] = refs[i] /\ GivenBack(i) = refs[i] - 1
         /\ ~StillShared(i) => /\ refs[i] <= 1 \/ refs[i] = REF_LIMIT
                               /\ GivenBack(i) = 0
<1> USE PmmAssumption
<1>1. refs[i] \in 0 .. REF_LIMIT /\ refcount[i] \in 0 .. REF_LIMIT - 1
  BY Zenon DEF IInv, TypeOK
<1>2. refs[i] < REF_LIMIT => refcount[i] = refs[i]
  BY Zenon DEF IInv, OwnersMatchBitmap
<1> QED BY <1>1, <1>2 DEF StillShared, GivenBack

(* pmm_free_page preserves the invariant, whatever page it is given. *)
LEMMA FreePagePreserves ==
  ASSUME IInv, NEW i \in Indices, pmm_free_page(i)
  PROVE  IInv'
<1> USE PmmAssumption
<1>1. /\ UNCHANGED <<memmap, total_pages>> /\ last' \in Requests /\ OutOfMemoryIsReal'
  BY NoRequestIsReal, Zenon DEF pmm_free_page
<1>2. Allocated(i) => i \in Pages /\ i \in bitmap /\ i < total_pages
  BY Zenon DEF Allocated, IInv, TypeOK
<1>3. CASE UNCHANGED <<bitmap, refcount, free_pages, used_pages, scan_hint, refs, released>>
  BY <1>1, <1>3, NothingTaken, Zenon DEF IInv
<1>4. CASE /\ Allocated(i) /\ StillShared(i)
           /\ refcount' = [refcount EXCEPT ![i] = @ - 1]
           /\ refs' = [refs EXCEPT ![i] = GivenBack(i)]
           /\ UNCHANGED <<bitmap, free_pages, used_pages, scan_hint, released>>
  <2>1. /\ refcount \in [Pages -> 0 .. REF_LIMIT - 1] /\ refcount[i] > 1
        /\ refs \in [Pages -> 0 .. REF_LIMIT] /\ i \in Pages
    BY <1>2, <1>4, Zenon DEF StillShared, IInv, TypeOK
  <2>2. /\ GivenBack(i) \in 1 .. REF_LIMIT /\ refs[i] > 0
        /\ GivenBack(i) < REF_LIMIT => refcount[i] - 1 = GivenBack(i)
    BY <1>2, <1>4, GivenBackCases
  <2>3. /\ refcount' \in [Pages -> 0 .. REF_LIMIT - 1]
        /\ refs' \in [Pages -> 0 .. REF_LIMIT]
    BY <1>4, <2>1, <2>2
  <2>4. ASSUME NEW j \in Pages
        PROVE  /\ refs'[j] > 0 <=> refs[j] > 0
               /\ (refs[j] < REF_LIMIT => refcount[j] = refs[j])
                     => (refs'[j] < REF_LIMIT => refcount'[j] = refs'[j])
    BY <1>4, <2>1, <2>2
  <2>5. OwnersMatchBitmap'
    BY <1>1, <1>4, <2>4, PoolKept, Zenon DEF IInv, OwnersMatchBitmap
  <2>6. Accounting'
    BY <1>1, <1>4, Zenon DEF IInv, Accounting, Clear
  <2>7. TypeOK'
    BY <1>1, <1>4, <2>3, Zenon DEF IInv, TypeOK, Requests
  <2> QED BY <1>1, <2>5, <2>6, <2>7, Zenon DEF IInv
<1>5. CASE /\ Allocated(i) /\ ~StillShared(i)
           /\ bitmap' = bitmap \ {i}
           /\ refcount' = [refcount EXCEPT ![i] = 0]
           /\ free_pages' = free_pages + 1
           /\ used_pages' = used_pages - 1
           /\ scan_hint' = Least(i, scan_hint)
           /\ refs' = [refs EXCEPT ![i] = GivenBack(i)]
           /\ released' = released \cup ({i} \ UsablePages(memmap))
  <2>1. /\ refcount \in [Pages -> 0 .. REF_LIMIT - 1]
        /\ refs \in [Pages -> 0 .. REF_LIMIT] /\ released \in SUBSET Pages
        /\ i \in Pages /\ i \in bitmap /\ i < total_pages
    BY <1>2, <1>5, Zenon DEF IInv, TypeOK
  <2>2. refs' = [refs EXCEPT ![i] = 0]
    BY <1>5, <2>1, GivenBackCases, Zenon
  <2>3. /\ Pool' = Pool \cup {i}
        /\ \A j : Whole(j)' = Whole(j)
        /\ UsablePages(memmap)' = UsablePages(memmap)
    BY <1>1, <1>5, Zenon DEF Pool, UsablePages, Whole
  <2>4. OwnersMatchBitmap'
    <3> SUFFICES ASSUME NEW j \in Pages
                 PROVE  /\ j \in Pool' => /\ j < total_pages
                                          /\ Whole(j) \/ j \in released'
                                          /\ j \in bitmap' <=> refs'[j] > 0
                        /\ j \notin Pool' => j \in bitmap'
                        /\ refs'[j] < REF_LIMIT => refcount'[j] = refs'[j]
      BY <1>1, <2>3, Zenon DEF OwnersMatchBitmap
    <3>1. /\ j \in Pool => /\ j < total_pages
                           /\ Whole(j) \/ j \in released
                           /\ j \in bitmap <=> refs[j] > 0
          /\ j \notin Pool => j \in bitmap
          /\ refs[j] < REF_LIMIT => refcount[j] = refs[j]
      BY Zenon DEF IInv, OwnersMatchBitmap
    <3>2. CASE j = i
      <4>1. refs'[i] = 0 /\ refcount'[i] = 0 /\ ~(refs'[i] > 0)
        BY <1>5, <2>1, <2>2
      <4> QED BY <1>5, <2>1, <2>3, <3>1, <3>2, <4>1, Zenon DEF Pool
    <3>3. CASE j # i
      <4>1. refs'[j] = refs[j] /\ refcount'[j] = refcount[j]
        BY <1>5, <2>1, <2>2, <3>3, Zenon
      <4> QED BY <1>5, <2>3, <3>1, <3>3, <4>1, Zenon
    <3> QED BY <3>2, <3>3, Zenon
  <2>5. Clear(0, MAX_PAGES)' = Clear(0, MAX_PAGES) \cup {i} /\ i \notin Clear(0, MAX_PAGES)
    BY <1>5, <2>1, Zenon DEF Clear, Pages
  <2>6. Cardinality(Clear(0, MAX_PAGES)') = Cardinality(Clear(0, MAX_PAGES)) + 1
    BY <2>5, ClearIsTracked, FS_AddElement, Zenon DEF IInv
  <2>7. Accounting'
    BY <1>1, <1>5, <2>6, ClearIsTracked DEF IInv, Accounting, TypeOK
  <2>8. /\ refcount' \in [Pages -> 0 .. REF_LIMIT - 1]
        /\ refs' \in [Pages -> 0 .. REF_LIMIT]
    BY <1>5, <2>1, <2>2
  <2>9. bitmap' \subseteq Pages /\ released' \in SUBSET Pages
    BY <1>5, <2>1, Zenon DEF IInv, TypeOK
  <2>10. scan_hint' \in 0 .. total_pages
    BY <1>5, <2>1 DEF Least, IInv, TypeOK, Pages
  <2>11. TypeOK'
    BY <1>1, <2>4, <2>7, <2>8, <2>9, <2>10, CountersFollow, Zenon
  <2> QED BY <1>1, <2>4, <2>7, <2>11, Zenon DEF IInv
<1> QED BY <1>3, <1>4, <1>5, Zenon DEF pmm_free_page

(* Sharing one page more, in range or by wrapping. *)
LEMMA RefCases ==
  ASSUME NEW c \in 0 .. REF_LIMIT - 1, NEW n \in 0 .. REF_LIMIT,
         n < REF_LIMIT => c = n
  PROVE  /\ (c + 1) % REF_LIMIT \in 0 .. REF_LIMIT - 1
         /\ Least(n + 1, REF_LIMIT) \in 1 .. REF_LIMIT
         /\ Least(n + 1, REF_LIMIT) < REF_LIMIT
               => (c + 1) % REF_LIMIT = Least(n + 1, REF_LIMIT)
<1> USE PmmAssumption
<1>1. CASE c + 1 < REF_LIMIT
  <2>1. (c + 1) % REF_LIMIT = c + 1
    BY <1>1
  <2> QED BY <1>1, <2>1 DEF Least
<1>2. CASE c + 1 = REF_LIMIT
  <2>1. (c + 1) % REF_LIMIT = 0
    BY <1>2
  <2> QED BY <1>2, <2>1 DEF Least
<1> QED BY <1>1, <1>2

(* pmm_page_ref preserves the invariant, whatever page it is given. *)
LEMMA PageRefPreserves ==
  ASSUME IInv, NEW i \in Indices, pmm_page_ref(i)
  PROVE  IInv'
<1> USE PmmAssumption
<1>1. /\ last' \in Requests /\ OutOfMemoryIsReal'
      /\ UNCHANGED <<memmap, bitmap, total_pages, free_pages, used_pages, scan_hint, released>>
  BY NoRequestIsReal, Zenon DEF pmm_page_ref
<1>2. CASE /\ Allocated(i)
           /\ refcount' = [refcount EXCEPT ![i] = (@ + 1) % REF_LIMIT]
           /\ refs' = [refs EXCEPT ![i] = Least(@ + 1, REF_LIMIT)]
  <2>1. /\ refcount \in [Pages -> 0 .. REF_LIMIT - 1] /\ i \in bitmap
        /\ refs \in [Pages -> 0 .. REF_LIMIT] /\ i \in Pages
    BY <1>2, Zenon DEF Allocated, IInv, TypeOK
  <2> DEFINE c == (refcount[i] + 1) % REF_LIMIT
             n == Least(refs[i] + 1, REF_LIMIT)
  <2>2. /\ c \in 0 .. REF_LIMIT - 1
        /\ n \in 1 .. REF_LIMIT
        /\ n < REF_LIMIT => c = n
    <3>1. refcount[i] \in 0 .. REF_LIMIT - 1 /\ refs[i] \in 0 .. REF_LIMIT
      BY <2>1, Zenon
    <3>2. refs[i] < REF_LIMIT => refcount[i] = refs[i]
      BY <2>1, Zenon DEF IInv, OwnersMatchBitmap
    <3> QED BY <3>1, <3>2, RefCases, Zenon
  <2>3. refcount' = [refcount EXCEPT ![i] = c] /\ refs' = [refs EXCEPT ![i] = n]
    BY <1>2, Zenon
  <2> HIDE DEF c, n
  <2>4. /\ refcount' \in [Pages -> 0 .. REF_LIMIT - 1]
        /\ refs' \in [Pages -> 0 .. REF_LIMIT]
    BY <2>1, <2>2, <2>3
  <2>5. OwnersMatchBitmap'
    <3> SUFFICES ASSUME NEW j \in Pages
                 PROVE  /\ j \in Pool => /\ j < total_pages
                                         /\ Whole(j) \/ j \in released
                                         /\ j \in bitmap <=> refs'[j] > 0
                        /\ j \notin Pool => j \in bitmap
                        /\ refs'[j] < REF_LIMIT => refcount'[j] = refs'[j]
      BY <1>1, PoolKept, Zenon DEF OwnersMatchBitmap
    <3>1. /\ j \in Pool => /\ j < total_pages
                           /\ Whole(j) \/ j \in released
                           /\ j \in bitmap <=> refs[j] > 0
          /\ j \notin Pool => j \in bitmap
          /\ refs[j] < REF_LIMIT => refcount[j] = refs[j]
      BY Zenon DEF IInv, OwnersMatchBitmap
    <3>2. CASE j = i
      <4>1. refs'[i] = n /\ refcount'[i] = c /\ refs'[i] > 0
        BY <2>1, <2>2, <2>3
      <4> QED BY <2>1, <2>2, <3>1, <3>2, <4>1, Zenon
    <3>3. CASE j # i
      <4>1. refs'[j] = refs[j] /\ refcount'[j] = refcount[j]
        BY <2>1, <2>3, <3>3, Zenon
      <4> QED BY <3>1, <4>1, Zenon
    <3> QED BY <3>2, <3>3, Zenon
  <2>6. TypeOK' /\ Accounting'
    BY <1>1, <2>4, Zenon DEF IInv, TypeOK, Accounting, Clear, Requests
  <2> QED BY <1>1, <2>5, <2>6, Zenon DEF IInv
<1>3. CASE ~Allocated(i)
  <2>1. refcount' = refcount /\ refs' = refs
    BY <1>3, Zenon DEF pmm_page_ref
  <2> QED BY <1>1, <2>1, NothingTaken, Zenon DEF IInv
<1> QED BY <1>2, <1>3, Zenon DEF pmm_page_ref

-----------------------------------------------------------------------------
(* Every step of the allocator preserves the invariant. *)
LEMMA StepPreserves == IInv /\ [Next]_vars => IInv'
<1> SUFFICES ASSUME IInv, [Next]_vars PROVE IInv'
  BY Zenon
<1>1. CASE pmm_alloc_page
  BY <1>1, AllocPagePreserves, Zenon
<1>2. ASSUME NEW count \in 0 .. MAX_PAGES, pmm_alloc_pages(count) PROVE IInv'
  BY <1>2, AllocPagesPreserves, Zenon
<1>3. ASSUME NEW i \in Indices, pmm_free_page(i) PROVE IInv'
  BY <1>3, FreePagePreserves, Zenon
<1>4. ASSUME NEW i \in Indices, pmm_page_ref(i) PROVE IInv'
  BY <1>4, PageRefPreserves, Zenon
<1>5. CASE UNCHANGED vars
  <2>1. TypeOK' /\ Accounting' /\ OutOfMemoryIsReal'
    BY <1>5, Zenon DEF vars, IInv, TypeOK, Accounting, Clear, OutOfMemoryIsReal, Run
  <2>2. OwnersMatchBitmap'
    BY <1>5, PoolKept, Zenon DEF vars, IInv, OwnersMatchBitmap
  <2> QED BY <2>1, <2>2, Zenon DEF IInv
<1> QED BY <1>1, <1>2, <1>3, <1>4, <1>5, Zenon DEF Next

(* The inductive invariant holds in every reachable state. *)
THEOREM Invariant == Spec => []IInv
  BY InitEstablishes, StepPreserves, PTL DEF Spec

(* free_pages and used_pages stay between 0 and total_pages, whatever is   *)
(* freed: no unsigned wrap-around.  (refcount is a byte, and may wrap.)    *)
THEOREM PmmTypeOK == Spec => []TypeOK
<1>1. IInv => TypeOK
  BY Zenon DEF IInv
<1> QED BY <1>1, Invariant, PTL

(* free_pages and used_pages always agree with the bitmap. *)
THEOREM PmmAccounting == Spec => []Accounting
<1>1. IInv => Accounting
  BY Zenon DEF IInv
<1> QED BY <1>1, Invariant, PTL

(* A page of the pool is in use exactly while references to it are out,    *)
(* and refcount is their number unless it has overflowed.                  *)
THEOREM PmmOwners == Spec => []OwnersMatchBitmap
<1>1. IInv => OwnersMatchBitmap
  BY Zenon DEF IInv
<1> QED BY <1>1, Invariant, PTL

(* No request is refused while a fitting run is free, and the answer 0     *)
(* means a refusal unless page 0 has been freed.                           *)
THEOREM PmmOutOfMemory == Spec => []OutOfMemoryIsReal
<1>1. IInv => OutOfMemoryIsReal
  BY Zenon DEF IInv
<1> QED BY <1>1, Invariant, PTL

-----------------------------------------------------------------------------
(* Taking free pages is an allocation of the abstract allocator. *)
LEMMA TakeImplements ==
  ASSUME IInv, NEW S \in SUBSET Pages, S # {}, S \cap bitmap = {},
         refs' = FirstOwner(refs, S), UNCHANGED <<memmap, released>>
  PROVE  FA!Next
<1>1. S \in (SUBSET Pool) \ {{}}
  BY Zenon DEF IInv, OwnersMatchBitmap
<1>2. \A f \in S : refs[f] \in 0 .. REF_LIMIT /\ ~(refs[f] > 0)
  BY <1>1, Zenon DEF IInv, OwnersMatchBitmap, TypeOK
<1>3. \A f \in S : refs[f] = 0
  BY <1>2, PmmAssumption
<1>4. Pool' = Pool
  BY PoolKept, Zenon
<1>5. refs' = [f \in Pages |-> IF f \in S THEN 1 ELSE refs[f]]
  BY Zenon DEF FirstOwner
<1>6. FA!Alloc
  BY <1>1, <1>3, <1>4, <1>5, Zenon DEF FA!Alloc
<1> QED BY <1>6, Zenon DEF FA!Next

(* A page in use is in use for the abstract allocator too. *)
LEMMA InUseForBoth ==
  ASSUME IInv, NEW i \in Pages, i \in bitmap
  PROVE  FA!InUse(i)
  BY Zenon DEF IInv, OwnersMatchBitmap, FA!InUse

(* A free drops a reference or releases the page. *)
LEMMA FreeImplements ==
  ASSUME IInv, NEW i \in Indices, pmm_free_page(i)
  PROVE  FA!Next \/ UNCHANGED <<Pool, refs>>
<1> USE PmmAssumption
<1>1. memmap' = memmap
  BY Zenon DEF pmm_free_page
<1>2. CASE ~Allocated(i)
  BY <1>1, <1>2, PoolKept, Zenon DEF pmm_free_page
<1>3. CASE Allocated(i) /\ StillShared(i)
  <2>1. /\ i \in Pages /\ i \in bitmap
        /\ refs' = [refs EXCEPT ![i] = GivenBack(i)] /\ released' = released
        /\ refs \in [Pages -> 0 .. REF_LIMIT]
    BY <1>3, Zenon DEF pmm_free_page, Allocated, IInv, TypeOK
  <2>2. Pool' = Pool
    BY <1>1, <2>1, PoolKept, Zenon
  <2>3. CASE refs[i] = REF_LIMIT
    <3>1. GivenBack(i) = refs[i]
      BY <1>3, <2>1, <2>3, GivenBackCases, Zenon
    <3>2. refs' = refs
      BY <2>1, <3>1
    <3> QED BY <2>2, <3>2, Zenon
  <2>4. CASE refs[i] # REF_LIMIT
    <3>1. /\ refs[i] > 1 /\ refs[i] \in 0 .. REF_LIMIT
          /\ refs' = [refs EXCEPT ![i] = refs[i] - 1]
      BY <1>3, <2>1, <2>4, GivenBackCases, Zenon
    <3>2. refs[i] < REF_LIMIT
      BY <2>4, <3>1
    <3>3. FA!Keep
      BY <2>1, <2>2, <3>1, <3>2, Zenon DEF FA!Keep
    <3> QED BY <3>3, Zenon DEF FA!Next
  <2> QED BY <2>3, <2>4, Zenon
<1>4. CASE Allocated(i) /\ ~StillShared(i)
  <2>1. /\ i \in Pages /\ i \in bitmap
        /\ refs' = [refs EXCEPT ![i] = GivenBack(i)]
        /\ released' = released \cup ({i} \ UsablePages(memmap))
    BY <1>4, Zenon DEF pmm_free_page, Allocated, IInv, TypeOK
  <2>2. /\ refs' = [refs EXCEPT ![i] = 0]
        /\ refs[i] <= 1 \/ refs[i] = REF_LIMIT
    BY <1>4, <2>1, GivenBackCases, Zenon
  <2>3. Pool' = Pool \cup {i}
    BY <1>1, <2>1, Zenon DEF Pool, UsablePages
  <2>4. FA!InUse(i)
    BY <2>1, InUseForBoth, Zenon
  <2>5. FA!Release
    BY <2>1, <2>2, <2>3, <2>4, Zenon DEF FA!Release
  <2> QED BY <2>5, Zenon DEF FA!Next
<1> QED BY <1>2, <1>3, <1>4, Zenon

(* A reference is one more owner, until there are REF_LIMIT of them. *)
LEMMA RefImplements ==
  ASSUME IInv, NEW i \in Indices, pmm_page_ref(i)
  PROVE  FA!Next \/ UNCHANGED <<Pool, refs>>
<1> USE PmmAssumption
<1>1. Pool' = Pool
  BY PoolKept, Zenon DEF pmm_page_ref
<1>2. CASE ~Allocated(i)
  BY <1>1, <1>2, Zenon DEF pmm_page_ref
<1>3. CASE Allocated(i)
  <2>1. /\ i \in Pages /\ i \in bitmap /\ refs \in [Pages -> 0 .. REF_LIMIT]
        /\ refs' = [refs EXCEPT ![i] = Least(refs[i] + 1, REF_LIMIT)]
    BY <1>3, Zenon DEF pmm_page_ref, Allocated, IInv, TypeOK
  <2>2. CASE refs[i] = REF_LIMIT
    <3>1. refs' = refs
      BY <2>1, <2>2 DEF Least
    <3> QED BY <1>1, <3>1, Zenon
  <2>3. CASE refs[i] # REF_LIMIT
    <3>1. refs[i] < REF_LIMIT /\ Least(refs[i] + 1, REF_LIMIT) = refs[i] + 1
      BY <2>1, <2>3 DEF Least
    <3>2. FA!InUse(i)
      BY <2>1, InUseForBoth, Zenon
    <3>3. FA!Ref
      BY <1>1, <2>1, <3>1, <3>2, Zenon DEF FA!Ref
    <3> QED BY <3>3, Zenon DEF FA!Next
  <2> QED BY <2>2, <2>3, Zenon
<1> QED BY <1>2, <1>3, Zenon

(* pmm.c implements the abstract frame allocator, whatever pages its       *)
(* callers pass: an allocation hands out only pages no reference is out    *)
(* to, references go one at a time, and only freed pages join the pool.    *)
THEOREM PmmImplementsFrameAlloc == Spec => ImplementsFrameAlloc
<1> USE PmmAssumption
<1>1. pmm_init => FA!Init
  <2> SUFFICES ASSUME pmm_init PROVE FA!Init
    BY Zenon
  <2>1. Pool \in SUBSET Pages
    BY Zenon DEF pmm_init, Pool, UsablePages
  <2> QED BY <2>1, Zenon DEF pmm_init, FA!Init
<1>2. ASSUME IInv, [Next]_vars
      PROVE  [FA!Next]_<<Pool, refs>>
  <2>1. CASE pmm_alloc_page
    <3>1. ASSUME NEW i \in Pages, IsScanHit(i), refs' = FirstOwner(refs, {i})
          PROVE  FA!Next
      <4>1. i \notin bitmap
        BY <3>1, Zenon DEF IsScanHit, Clear
      <4>2. {i} \in SUBSET Pages /\ {i} # {} /\ {i} \cap bitmap = {}
        BY <4>1, Zenon
      <4>3. UNCHANGED <<memmap, released>>
        BY <2>1, Zenon DEF pmm_alloc_page
      <4> QED BY <1>2, <3>1, <4>2, <4>3, TakeImplements, Zenon
    <3>2. Pool' = Pool
      BY <2>1, PoolKept, Zenon DEF pmm_alloc_page
    <3> QED BY <2>1, <3>1, <3>2, Zenon DEF pmm_alloc_page
  <2>2. ASSUME NEW count \in 0 .. MAX_PAGES, pmm_alloc_pages(count)
        PROVE  [FA!Next]_<<Pool, refs>>
    <3>1. ASSUME NEW s \in FreeRuns(count), count > 0,
                 refs' = FirstOwner(refs, Run(s, count))
          PROVE  FA!Next
      <4>1. s \in Pages /\ s + count <= total_pages /\ Run(s, count) \cap bitmap = {}
        BY <3>1, Zenon DEF FreeRuns, RunStarts
      <4>2. Run(s, count) \in SUBSET Pages /\ s \in Run(s, count)
        BY <1>2, <3>1, <4>1 DEF Run, Pages, IInv, TypeOK
      <4>3. UNCHANGED <<memmap, released>>
        BY <2>2, Zenon DEF pmm_alloc_pages
      <4> DEFINE S == Run(s, count)
      <4>4. S \in SUBSET Pages /\ S # {} /\ S \cap bitmap = {} /\ refs' = FirstOwner(refs, S)
        BY <3>1, <4>1, <4>2, Zenon
      <4> HIDE DEF S
      <4> QED BY <1>2, <4>3, <4>4, TakeImplements, Zenon
    <3>2. Pool' = Pool
      BY <2>2, PoolKept, Zenon DEF pmm_alloc_pages
    <3> QED BY <2>2, <3>1, <3>2, Zenon DEF pmm_alloc_pages
  <2>3. ASSUME NEW i \in Indices, pmm_free_page(i)
        PROVE  [FA!Next]_<<Pool, refs>>
    BY <1>2, <2>3, FreeImplements, Zenon
  <2>4. ASSUME NEW i \in Indices, pmm_page_ref(i)
        PROVE  [FA!Next]_<<Pool, refs>>
    BY <1>2, <2>4, RefImplements, Zenon
  <2>5. CASE UNCHANGED vars
    BY <2>5, PoolKept, Zenon DEF vars
  <2> QED BY <1>2, <2>1, <2>2, <2>3, <2>4, <2>5, Zenon DEF Next
<1> QED BY <1>1, <1>2, Invariant, PTL DEF Spec, ImplementsFrameAlloc, FA!Spec
=============================================================================
