-------------------------------- MODULE Pmm ---------------------------------
(***************************************************************************)
(* kernel/pmm.c: the physical page allocator.  A bitmap says which tracked *)
(* pages are used, refcount how many owners a page has (fork's             *)
(* copy-on-write sharing), scan_hint where the next single-page search     *)
(* starts.  Pages are named by their index; index 0 is also the "out of    *)
(* memory" answer, as in the code.                                         *)
(***************************************************************************)
EXTENDS Integers, FiniteSets

CONSTANTS
    PAGE_SIZE,     \* bytes in a page
    MAX_PAGES,     \* pages the static bitmap covers
    REF_LIMIT,     \* refcount is an unsigned integer modulo this (2^8)
    MemMaps        \* the memory maps the bootloader may hand over

(* The boot protocol never calls the page at address 0 usable (pmm.h). *)
ASSUME PmmAssumption ==
    /\ PAGE_SIZE \in Nat \ {0}
    /\ MAX_PAGES \in Nat \ {0}
    /\ REF_LIMIT \in Nat /\ REF_LIMIT > 1
    /\ \A m \in MemMaps : \A r \in m :
          /\ r.base \in Nat
          /\ r.length \in Nat
          /\ r.usable \in BOOLEAN
          /\ r.usable => r.base > 0

VARIABLES
    memmap,        \* the memory map this machine booted with
    bitmap,        \* the indices whose bit is set: used or reserved pages
    refcount,      \* owners per tracked page
    total_pages, free_pages, used_pages, scan_hint,
    (* Not in the code: what the callers have been given. *)
    refs,          \* references out per page; REF_LIMIT once they overflow
    released,      \* pages of no usable region that were freed all the same
    last           \* the latest allocation request and its answer

vars == <<memmap, bitmap, refcount, total_pages, free_pages, used_pages,
          scan_hint, refs, released, last>>

Pages == 0 .. MAX_PAGES - 1
Indices == 0 .. MAX_PAGES       \* what callers pass, one past the bitmap included

OOM == 0
NoRequest == [count |-> 0, page |-> OOM, granted |-> FALSE]

-----------------------------------------------------------------------------
(* Mutant: the end of a region rounded up. *)
mark_region_free_partial(r) ==
    LET start == (r.base + PAGE_SIZE - 1) \div PAGE_SIZE
        end   == (r.base + r.length + PAGE_SIZE - 1) \div PAGE_SIZE
    IN  {i \in Pages : start <= i /\ i < end}

(* mark_region_free: start rounded up and end rounded down to whole pages, *)
(* stopping where the bitmap does.                                         *)
mark_region_free(r) ==
    LET start == (r.base + PAGE_SIZE - 1) \div PAGE_SIZE
        end   == (r.base + r.length) \div PAGE_SIZE
    IN  {i \in Pages : start <= i /\ i < end}

UsablePages(m) ==
    {i \in Pages : \E r \in m : r.usable /\ i \in mark_region_free(r)}

Least(a, b) == IF a <= b THEN a ELSE b

(* pmm_init: everything is used except what the map calls usable. *)
pmm_init ==
    /\ memmap \in MemMaps
    /\ bitmap = Pages \ UsablePages(memmap)
    /\ refcount = [i \in Pages |-> 0]
    /\ \E highest_addr \in {0} \cup {r.base + r.length : r \in memmap} :
          /\ \A r \in memmap : r.base + r.length <= highest_addr
          /\ total_pages = Least(highest_addr \div PAGE_SIZE, MAX_PAGES)
    /\ free_pages = Cardinality(UsablePages(memmap))
    /\ used_pages = total_pages - free_pages
    /\ scan_hint = 0
    /\ refs = [i \in Pages |-> 0]
    /\ released = {}
    /\ last = NoRequest

-----------------------------------------------------------------------------
Clear(lo, hi) == {i \in lo .. hi - 1 : i \notin bitmap}

(* The page pmm_alloc_page's two loops stop at: the first clear bit from   *)
(* the hint on, else the first one below the hint.                         *)
IsScanHit(i) ==
    LET ahead  == Clear(scan_hint, total_pages)
        behind == Clear(0, scan_hint)
        scope  == IF ahead # {} THEN ahead ELSE behind
    IN  i \in scope /\ \A j \in scope : i <= j

(* Every page an allocation hands out starts with one owner. *)
FirstOwner(count, S) == [i \in Pages |-> IF i \in S THEN 1 ELSE count[i]]

pmm_alloc_page ==
    /\ \/ \E i \in Pages :
            /\ IsScanHit(i)
            /\ bitmap' = bitmap \cup {i}
            /\ refcount' = FirstOwner(refcount, {i})
            /\ refs' = FirstOwner(refs, {i})
            /\ free_pages' = free_pages - 1
            /\ used_pages' = used_pages + 1
            /\ scan_hint' = i + 1
            /\ last' = [count |-> 1, page |-> i, granted |-> TRUE]
       \/ /\ Clear(scan_hint, total_pages) = {}
          /\ Clear(0, scan_hint) = {}
          /\ last' = [count |-> 1, page |-> OOM, granted |-> FALSE]
          /\ UNCHANGED <<bitmap, refcount, free_pages, used_pages, scan_hint, refs>>
    /\ UNCHANGED <<memmap, total_pages, released>>

Run(start, count) == start .. start + count - 1

(* Mutant: the search steps one page too far past the used one. *)
RunStarts_skipping(count) ==
    {s \in Pages : s + count <= total_pages /\ (s = 0 \/ s - 2 \in bitmap)}

(* The starts pmm_alloc_pages tries: 0, then the page after each used one  *)
(* ("skip past the page that failed").                                     *)
RunStarts(count) ==
    {s \in Pages : s + count <= total_pages /\ (s = 0 \/ s - 1 \in bitmap)}

FreeRuns(count) == {s \in RunStarts(count) : Run(s, count) \cap bitmap = {}}

(* Contiguous pages; scan_hint is left alone. *)
pmm_alloc_pages(count) ==
    /\ \/ \E s \in FreeRuns(count) :
            /\ count > 0 /\ count <= total_pages
            /\ \A r \in FreeRuns(count) : s <= r
            /\ bitmap' = bitmap \cup Run(s, count)
            /\ refcount' = FirstOwner(refcount, Run(s, count))
            /\ refs' = FirstOwner(refs, Run(s, count))
            /\ free_pages' = free_pages - count
            /\ used_pages' = used_pages + count
            /\ last' = [count |-> count, page |-> s, granted |-> TRUE]
       \/ /\ count = 0 \/ count > total_pages \/ FreeRuns(count) = {}
          /\ last' = [count |-> count, page |-> OOM, granted |-> FALSE]
          /\ UNCHANGED <<bitmap, refcount, free_pages, used_pages, refs>>
    /\ UNCHANGED <<memmap, total_pages, scan_hint, released>>

(* Mutant: no double-free test. *)
Allocated_unchecked(i) == i < total_pages

(* The two early returns pmm_free_page and pmm_page_ref share. *)
Allocated(i) == i < total_pages /\ i \in bitmap

(* Mutant: sharing forgotten. *)
StillShared_never(i) == FALSE

StillShared(i) == refcount[i] > 1

(* The references to i still out after one is given back; an overflowed    *)
(* count is forgotten with the page.                                       *)
GivenBack(i) ==
    IF refs[i] = REF_LIMIT /\ StillShared(i) THEN REF_LIMIT
    ELSE IF refs[i] \in {0, REF_LIMIT} THEN 0 ELSE refs[i] - 1

(* Callers may pass any page: the kernel frees page 0 after a file was     *)
(* made without memory (tmpfs.c:200, then tmpfs.c:134).                    *)
pmm_free_page(i) ==
    /\ \/ /\ ~Allocated(i)
          /\ UNCHANGED <<bitmap, refcount, free_pages, used_pages, scan_hint, refs, released>>
       \/ /\ Allocated(i) /\ StillShared(i)
          /\ refcount' = [refcount EXCEPT ![i] = @ - 1]
          /\ refs' = [refs EXCEPT ![i] = GivenBack(i)]
          /\ UNCHANGED <<bitmap, free_pages, used_pages, scan_hint, released>>
       \/ /\ Allocated(i) /\ ~StillShared(i)
          /\ bitmap' = bitmap \ {i}
          /\ refcount' = [refcount EXCEPT ![i] = 0]
          /\ free_pages' = free_pages + 1
          /\ used_pages' = used_pages - 1
          /\ scan_hint' = Least(i, scan_hint)
          /\ refs' = [refs EXCEPT ![i] = GivenBack(i)]
          /\ released' = released \cup ({i} \ UsablePages(memmap))
    /\ last' = NoRequest
    /\ UNCHANGED <<memmap, total_pages>>

(* fork() shares a page.  Nothing stops the count from wrapping. *)
pmm_page_ref(i) ==
    /\ \/ /\ Allocated(i)
          /\ refcount' = [refcount EXCEPT ![i] = (@ + 1) % REF_LIMIT]
          /\ refs' = [refs EXCEPT ![i] = Least(@ + 1, REF_LIMIT)]
       \/ /\ ~Allocated(i)
          /\ UNCHANGED <<refcount, refs>>
    /\ last' = NoRequest
    /\ UNCHANGED <<memmap, bitmap, total_pages, free_pages, used_pages, scan_hint, released>>

Next ==
    \/ pmm_alloc_page
    \/ \E count \in 0 .. MAX_PAGES : pmm_alloc_pages(count)
    \/ \E i \in Indices : pmm_free_page(i)
    \/ \E i \in Indices : pmm_page_ref(i)

Spec == pmm_init /\ [][Next]_vars

-----------------------------------------------------------------------------
(* Every variable keeps its type; in particular free_pages and used_pages, *)
(* which are unsigned, never go below zero or above total_pages.           *)
TypeOK ==
    /\ memmap \in MemMaps
    /\ bitmap \subseteq Pages
    /\ refcount \in [Pages -> 0 .. REF_LIMIT - 1]
    /\ total_pages \in 0 .. MAX_PAGES
    /\ free_pages \in 0 .. total_pages
    /\ used_pages \in 0 .. total_pages
    /\ scan_hint \in 0 .. total_pages
    /\ refs \in [Pages -> 0 .. REF_LIMIT]
    /\ released \in SUBSET Pages
    /\ last \in [count : 0 .. MAX_PAGES, page : Pages, granted : BOOLEAN]

(* The counters pmm_print_stats reports agree with the bitmap after any    *)
(* sequence of allocations, frees of whatever page and shared frees.       *)
Accounting ==
    /\ free_pages = Cardinality(Clear(0, MAX_PAGES))
    /\ used_pages = total_pages - free_pages

(* The pages that can be handed out: those of the usable regions, and      *)
(* those a caller has freed without having been given them.                *)
Pool == UsablePages(memmap) \cup released

(* No byte of page i lies outside a usable region. *)
Whole(i) ==
    \E r \in memmap :
        /\ r.usable
        /\ r.base <= i * PAGE_SIZE /\ (i + 1) * PAGE_SIZE <= r.base + r.length

(* "A shared page only actually returns to the free list once every owner  *)
(* has dropped its reference" (pmm.c:18), unless it had 2^8 of them: a     *)
(* page of the pool is marked used exactly while references to it are out, *)
(* and refcount, by which the COW handler decides, is their number.  A     *)
(* page not wholly usable ("we never want to claim a partial page as       *)
(* free", pmm.c:45) stays marked until somebody frees it.                  *)
OwnersMatchBitmap ==
    \A i \in Pages :
        /\ i \in Pool => /\ i < total_pages
                         /\ Whole(i) \/ i \in released
                         /\ i \in bitmap <=> refs[i] > 0
        /\ i \notin Pool => i \in bitmap
        /\ refs[i] < REF_LIMIT => refcount[i] = refs[i]

(* pmm_alloc_page and pmm_alloc_pages refuse a request only when no run of *)
(* that many free pages exists anywhere: neither the hint nor the skip     *)
(* past a used page hides one.  Callers take the answer 0 for a refusal,   *)
(* which is wrong only when somebody has freed page 0 before.              *)
OutOfMemoryIsReal ==
    /\ last.count > 0 /\ ~last.granted =>
          \A s \in Pages : s + last.count <= total_pages =>
              Run(s, last.count) \cap bitmap # {}
    /\ last.granted /\ last.page = OOM => OOM \in released

(* The allocator implements FrameAlloc whatever its callers pass: a page   *)
(* is handed out only when no reference to it is out, a free takes away    *)
(* one, and pages join the pool only by being freed.                       *)
FA == INSTANCE FrameAlloc WITH
    Frames <- Pages, LIMIT <- REF_LIMIT, pool <- Pool, owners <- refs

ImplementsFrameAlloc == FA!Spec
=============================================================================
