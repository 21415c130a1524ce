------------------------------- MODULE MCPmm --------------------------------
(* Pmm on two machines of at most four tracked pages of four bytes. *)
EXTENDS Pmm

(* The first map ends inside the bitmap, with a reserved page and a usable *)
(* region that ends inside it; the second begins inside a page and reaches *)
(* past the bitmap.                                                        *)
MCMemMaps ==
    { { [base |-> 0,  length |-> 4,  usable |-> FALSE],
        [base |-> 4,  length |-> 5,  usable |-> TRUE],
        [base |-> 9,  length |-> 5,  usable |-> FALSE] },
      { [base |-> 0,  length |-> 3,  usable |-> FALSE],
        [base |-> 3,  length |-> 25, usable |-> TRUE] } }
=============================================================================
