------------------------------- MODULE MCFat -------------------------------
(* An instance of Fat for TLC: a volume that a file and a directory with a *)
(* file in it nearly fill.  "long" is a name that 8.3 cuts to "b", and "." *)
(* leaves nothing of itself in an 8.3 name.                                *)
EXTENDS Fat, TLC

CONSTANT MAX_CALLS     \* bound: calls that change anything
VARIABLE calls

MCShort == [n \in {"a", "b", "long", "."} |-> CASE n = "long" -> "b" [] n = "." -> " " [] OTHER -> n]

Root(first, second) == [i \in 1..ROOT_SLOTS |-> IF i = 1 THEN first ELSE IF i = 2 THEN second ELSE EndSlot]
InUse == Formatted([c \in Table |-> IF c = 2 THEN 3 ELSE IF c \in {3, 4} THEN EOC ELSE 0],
                   Root(Slot("file", "a", 2, 3), Slot("dir", "b", 4, 0)),
                   [c \in Clusters |->
                      IF c = 4 THEN [slots |-> <<DotSlot(4), DotDotSlot, Slot("file", "a", 0, 0)>>, bytes |-> <<>>]
                      ELSE ByteSector(<<2, 2>>)])
MCVolumes == {InUse}

MCInit == Init /\ calls = 0
(* Nothing is asked of a volume once it is harmed. *)
MCNext == /\ ~Harmed
          /\ \/ calls < MAX_CALLS /\ Calls /\ vars' # vars /\ calls' = calls + 1
             \/ Steps /\ UNCHANGED calls
MCSpec == MCInit /\ [][MCNext]_<<vars, calls>>

Symmetry == Permutations(Handles)
=============================================================================
