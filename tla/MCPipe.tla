------------------------------- MODULE MCPipe -------------------------------
(* Instances of Pipe for TLC: process slots are interchangeable. *)
EXTENDS Pipe, TLC

Symmetry == Permutations(Procs)
=============================================================================
