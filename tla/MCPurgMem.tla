------------------------------ MODULE MCPurgMem ------------------------------
(* PurgMem for TLC: the threads are interchangeable. *)
EXTENDS PurgMemProofs, TLC

Symmetry == Permutations(Threads)
==============================================================================
