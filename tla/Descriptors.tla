----------------------------- MODULE Descriptors -----------------------------
(***************************************************************************)
(* An ashmem object and the threads that use the DMA heap library, on the  *)
(* descriptor table of their process: between the steps of one of them a   *)
(* number it has closed may be given to another.                           *)
(***************************************************************************)
EXTENDS AshmemData, DmabufHeap

LOCAL INSTANCE TLC

descVars == <<fdVars, ashmemVars, heapVars>>

DescInit == FdInit /\ AshmemInit /\ HeapInit

DescNext ==
  \/ AshmemNext /\ UNCHANGED heapVars
  \/ HeapNext /\ UNCHANGED ashmemVars

\* The threads of the heap library do the same things.
ThreadSymmetry == Permutations(HeapThreads)

DescSpec == DescInit /\ [][DescNext]_descVars
-----------------------------------------------------------------------------
(* Whatever fails and however the calls interleave, nobody closes a number   *)
(* that meanwhile names something of someone else, or nothing.               *)
NoForeignClose == ~badClose

(* Together the three are inductive: each side relies on the table, and on   *)
(* the other only to leave its descriptors alone.                            *)
DescInv == FdInv /\ HeapInv /\ AshmemInv
==============================================================================
