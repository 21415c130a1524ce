------------------------------- MODULE Memory -------------------------------
(***************************************************************************)
(* What the address spaces promise user programs: every process has a      *)
(* memory of its own.  A store changes one page of the process that        *)
(* stores, fork copies, new pages read as zero, exec starts from the       *)
(* program's image; no step changes what another process reads.  Frames,   *)
(* page tables and copy-on-write are left out; Vm implements this module.  *)
(***************************************************************************)
EXTENDS Integers

CONSTANTS Procs, Pages, Values, None, Images

VARIABLE mem       \* mem[p][v]: what p reads in page v, None if not mapped

Empty == [v \in Pages |-> None]

Init == mem = [p \in Procs |-> Empty]

(* Only p's memory changes, and only in the pages S. *)
Only(p, S) ==
    /\ \A q \in Procs \ {p} : mem'[q] = mem[q]
    /\ \A v \in Pages \ S : mem'[p][v] = mem[p][v]

Store(p, v) == mem[p][v] # None /\ mem'[p][v] \in Values /\ Only(p, {v})
Zero(p, v) == mem'[p][v] = 0 /\ Only(p, {v})
Unmap(p) == (\A v \in Pages : mem'[p][v] \in {mem[p][v], None}) /\ Only(p, Pages)
Fork(p, q) == mem[q] = Empty /\ mem'[q] = mem[p] /\ Only(q, Pages)
Exec(p) == mem'[p] \in Images /\ Only(p, Pages)

Next ==
    \E p \in Procs :
        \/ \E v \in Pages : Zero(p, v) \/ Store(p, v)
        \/ Unmap(p)
        \/ \E q \in Procs : Fork(p, q)
        \/ Exec(p)

Spec == Init /\ [][Next]_mem
=============================================================================
