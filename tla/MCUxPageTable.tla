---------------------------- MODULE MCUxPageTable ----------------------------
(* UxPageTable, with the inductive invariant of its proofs, for TLC: the     *)
(* threads are interchangeable.                                              *)
EXTENDS UxPageTableProofs, TLC

Symmetry == Permutations(Threads)
==============================================================================
