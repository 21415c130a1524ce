-------------------------------- MODULE MCVm --------------------------------
(* An instance of Vm for TLC: a program with one read-only page, one whose *)
(* two segments share a page, a file that is not an executable, a break    *)
(* below and one inside the stack, and at most MAX_CALLS stores, faults    *)
(* and system calls after the boot.                                        *)
EXTENDS Vm, TLC

CONSTANT MAX_CALLS
VARIABLE calls

MCPrograms ==
    {[elf |-> TRUE, segs |-> << [first |-> 0, pages |-> 1, write |-> FALSE, data |-> 1] >>],
     [elf |-> TRUE, segs |-> << [first |-> 0, pages |-> 1, write |-> FALSE, data |-> 0],
                                [first |-> 0, pages |-> 1, write |-> TRUE, data |-> 1] >>],
     [elf |-> FALSE, segs |-> << >>]}
MCMmaps == {[pages |-> 2, write |-> TRUE]}
MCRanges == {[first |-> 4, end |-> 6]}

MCInit == Init /\ calls = 0 /\ mishaps = {}
MCNext ==
    /\ Next
    /\ calls' = IF kop = Idle THEN calls + 1 ELSE calls
    /\ calls' <= MAX_CALLS
MCSpec == MCInit /\ [][MCNext]_<<vars, calls>>

Symmetry == Permutations(Procs)
=============================================================================
