----------------------------- MODULE FrameAlloc -----------------------------
(***************************************************************************)
(* What the physical memory manager promises the rest of the kernel: every *)
(* page has a number of references to it, an allocation takes pages of the *)
(* pool nobody refers to, a reference adds one and a free drops one.  The  *)
(* promise covers callers that free or share what they were never given:   *)
(* such a page joins the pool, and no other is touched.  It ends where a   *)
(* page has LIMIT references: the next free may take it from all of them.  *)
(* Bitmap, counters and scan order are left out; Pmm is shown to implement *)
(* this module.                                                            *)
(***************************************************************************)
EXTENDS Naturals

CONSTANTS Frames, LIMIT

VARIABLES pool,       \* the frames that can be handed out
          owners      \* owners[f]: references to f that are still out

Init ==
    /\ pool \in SUBSET Frames
    /\ owners = [f \in Frames |-> 0]

(* A set of frames nobody owns gets its first owner. *)
Alloc ==
    /\ \E S \in (SUBSET pool) \ {{}} :
          /\ \A f \in S : owners[f] = 0
          /\ owners' = [f \in Frames |-> IF f \in S THEN 1 ELSE owners[f]]
    /\ UNCHANGED pool

(* Frames in use: shared or given up, one reference at a time.  A frame    *)
(* outside the pool is in use without being owned.                         *)
InUse(f) == owners[f] > 0 \/ f \notin pool

Ref ==
    /\ \E f \in Frames :
          /\ InUse(f) /\ owners[f] < LIMIT
          /\ owners' = [owners EXCEPT ![f] = @ + 1]
    /\ UNCHANGED pool

Keep ==
    /\ \E f \in Frames :
          /\ owners[f] > 1 /\ owners[f] < LIMIT
          /\ owners' = [owners EXCEPT ![f] = @ - 1]
    /\ UNCHANGED pool

(* The last reference goes, or the count is wrong. *)
Release ==
    \E f \in Frames :
        /\ InUse(f)
        /\ owners[f] <= 1 \/ owners[f] = LIMIT
        /\ owners' = [owners EXCEPT ![f] = 0]
        /\ pool' = pool \cup {f}

Next == Alloc \/ Ref \/ Keep \/ Release

Spec == Init /\ [][Next]_<<pool, owners>>
=============================================================================
