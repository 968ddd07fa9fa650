------------------------------- MODULE FdTable -------------------------------
(***************************************************************************)
(* The descriptor table of the process, which the DMA heap library and the *)
(* ashmem objects share with everything else: a new descriptor gets the    *)
(* lowest free number, so that a number that was closed soon names         *)
(* something else.                                                         *)
(***************************************************************************)
EXTENDS Integers, FiniteSetsExt

CONSTANT MaxFd
ASSUME MaxFdAssumption == MaxFd \in Nat

Fds == 0..MaxFd

VARIABLES
  fdOwner,     \* what every descriptor names
  badClose     \* history: a close met something that was not the closer's

fdVars == <<fdOwner, badClose>>

Free == [kind |-> "free", id |-> 0]
Heap == [kind |-> "heap", id |-> 0]
Buffer(b) == [kind |-> "buffer", id |-> b]
Region(r) == [kind |-> "region", id |-> r]

FdInit == fdOwner = [fd \in Fds |-> Free] /\ badClose = FALSE

FreeFds == {fd \in Fds : fdOwner[fd] = Free}
NewFd == Min(FreeFds)

OpenFd(owner) ==
  /\ FreeFds # {}
  /\ fdOwner' = [fdOwner EXCEPT ![NewFd] = owner] /\ UNCHANGED badClose

CloseFd(fd, owner) ==
  /\ fdOwner' = [fdOwner EXCEPT ![fd] = Free]
  /\ badClose' = (badClose \/ fdOwner[fd] # owner)

(* The table as its users need it: a buffer or a region has one descriptor.  *)
Owner == {Free, Heap} \cup [kind : {"buffer", "region"}, id : Nat]
FdInv ==
  /\ fdOwner \in [Fds -> Owner] /\ badClose = FALSE
  /\ \A m, n \in Fds : fdOwner[m] = fdOwner[n] /\ fdOwner[m].kind \in {"buffer", "region"} => m = n
==============================================================================
