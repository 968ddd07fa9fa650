------------------------------ MODULE DmabufHeap ------------------------------
(***************************************************************************)
(* libdmabufheap (dmabuf_alloc.c): threads open and close heaps, allocate  *)
(* and free buffers.  Every call changes two things that other threads     *)
(* see, in its order: the descriptor table and the tracer (memtrace),      *)
(* which knows a heap by its descriptor's number and a buffer by its       *)
(* address.  The checks of names and sizes fail before anything changes,   *)
(* and the sync calls are one ioctl.                                       *)
(*                                                                         *)
(* Clients close a heap and free a buffer once; a second                   *)
(* DmabufHeapBufferFree would close whatever has the number by then, since *)
(* buffer->fd keeps it.                                                    *)
(***************************************************************************)
EXTENDS FdTable

CONSTANTS HeapThreads, Buffers
ASSUME BuffersAssumption == Buffers \subseteq Nat

VARIABLES
  dpc, darg,        \* the step a thread is at; its descriptor or buffer
  heapFds,          \* the heaps clients may close
  bufferFd,         \* buffer->fd
  tracedFds, tracedBuffers

heapVars == <<dpc, darg, heapFds, bufferFd, tracedFds, tracedBuffers>>

HeapInit ==
  /\ dpc = [t \in HeapThreads |-> "idle"] /\ darg = [t \in HeapThreads |-> 0]
  /\ heapFds = {} /\ bufferFd = [b \in Buffers |-> 0]
  /\ tracedFds = {} /\ tracedBuffers = {}

At(t, from, to, arg) ==
  /\ dpc[t] = from /\ dpc' = [dpc EXCEPT ![t] = to]
  /\ darg' = [darg EXCEPT ![t] = arg]

\* open(), then memtrace(fd, true).
DmabufHeapOpen(t) ==
  /\ OpenFd(Heap) /\ At(t, "idle", "opened", NewFd)
  /\ UNCHANGED <<heapFds, bufferFd, tracedFds, tracedBuffers>>
HeapOpenReturn(t) ==
  /\ At(t, "opened", "idle", 0)
  /\ tracedFds' = tracedFds \cup {darg[t]} /\ heapFds' = heapFds \cup {darg[t]}
  /\ UNCHANGED <<fdVars, bufferFd, tracedBuffers>>

\* memtrace(fd, false), then close().
DmabufHeapCloseMut(t) ==
  \E fd \in heapFds :
    /\ At(t, "idle", "closing", fd) /\ heapFds' = heapFds \ {fd}
    /\ UNCHANGED <<fdVars, bufferFd, tracedFds, tracedBuffers>>
DmabufHeapClose(t) ==
  \E fd \in heapFds :
    /\ At(t, "idle", "closing", fd) /\ heapFds' = heapFds \ {fd}
    /\ tracedFds' = tracedFds \ {fd}
    /\ UNCHANGED <<fdVars, bufferFd, tracedBuffers>>
HeapCloseReturn(t) ==
  /\ At(t, "closing", "idle", 0) /\ CloseFd(darg[t], Heap)
  /\ UNCHANGED <<heapFds, bufferFd, tracedFds, tracedBuffers>>

\* The ioctl gives the new descriptor; memtrace(buffer, true), and buffer->fd.
DmabufHeapBufferAlloc(t) ==
  \E b \in Buffers :
    /\ heapFds # {} /\ Buffer(b) \notin {fdOwner[fd] : fd \in Fds}
    /\ OpenFd(Buffer(b)) /\ At(t, "idle", "allocated", b)
    /\ UNCHANGED <<heapFds, bufferFd, tracedFds, tracedBuffers>>
BufferAllocReturn(t) ==
  LET b == darg[t] IN
  /\ At(t, "allocated", "idle", 0)
  /\ tracedBuffers' = tracedBuffers \cup {b}
  /\ bufferFd' = [bufferFd EXCEPT ![b] = CHOOSE fd \in Fds : fdOwner[fd] = Buffer(b)]
  /\ UNCHANGED <<fdVars, heapFds, tracedFds>>

\* memtrace(buffer, false), then close(); fd is unsigned and never < 0.
DmabufHeapBufferFree(t) ==
  \E b \in tracedBuffers :
    /\ At(t, "idle", "freeing", b) /\ tracedBuffers' = tracedBuffers \ {b}
    /\ UNCHANGED <<fdVars, heapFds, bufferFd, tracedFds>>
BufferFreeReturn(t) ==
  /\ At(t, "freeing", "idle", 0) /\ CloseFd(bufferFd[darg[t]], Buffer(darg[t]))
  /\ UNCHANGED <<heapFds, bufferFd, tracedFds, tracedBuffers>>

HeapNext ==
  \E t \in HeapThreads :
    \/ DmabufHeapOpen(t) \/ HeapOpenReturn(t)
    \/ DmabufHeapClose(t) \/ HeapCloseReturn(t)
    \/ DmabufHeapBufferAlloc(t) \/ BufferAllocReturn(t)
    \/ DmabufHeapBufferFree(t) \/ BufferFreeReturn(t)
-----------------------------------------------------------------------------
(* The tracer never reports a heap or a buffer that is closed, and misses an *)
(* open one only while a call is opening or closing it: the number of a heap *)
(* that one thread closes may be given to a heap that another thread opens.  *)
TraceMatches ==
  LET open(kind) == {fd \in Fds : fdOwner[fd].kind = kind}
      buffers == {fdOwner[fd].id : fd \in open("buffer")}
      within(pcs) == {darg[t] : t \in {u \in HeapThreads : dpc[u] \in pcs}}
  IN  /\ tracedFds \subseteq open("heap")
      /\ open("heap") \subseteq tracedFds \cup within({"opened", "closing"})
      /\ tracedBuffers \subseteq buffers
      /\ buffers \subseteq tracedBuffers \cup within({"allocated", "freeing"})

(* Why: a heap is the client's or in the hands of one thread, and traced in  *)
(* the first case only; so is a buffer, whose descriptor buffer->fd names    *)
(* from the end of its allocation on.                                        *)
Heaping(t) == dpc[t] \in {"opened", "closing"}
Buffering(t) == dpc[t] \in {"allocated", "freeing"}

HeapTypeOK ==
  /\ dpc \in [HeapThreads -> {"idle", "opened", "closing", "allocated", "freeing"}]
  /\ darg \in [HeapThreads -> Nat] /\ bufferFd \in [Buffers -> Fds]
  /\ heapFds \in SUBSET Fds /\ tracedFds = heapFds /\ tracedBuffers \in SUBSET Buffers

HeapsInv ==
  /\ \A n \in Fds :
       fdOwner[n] = Heap <=> n \in heapFds \/ \E t \in HeapThreads : Heaping(t) /\ darg[t] = n
  /\ \A t \in HeapThreads : Heaping(t) => darg[t] \in Fds \ heapFds
  /\ \A t, u \in HeapThreads : Heaping(t) /\ Heaping(u) /\ darg[t] = darg[u] => t = u

BuffersInv ==
  /\ \A b \in tracedBuffers : fdOwner[bufferFd[b]] = Buffer(b)
  /\ \A t \in HeapThreads :
       Buffering(t) =>
         /\ darg[t] \in Buffers \ tracedBuffers
         /\ \E n \in Fds : fdOwner[n] = Buffer(darg[t])
         /\ dpc[t] = "freeing" => fdOwner[bufferFd[darg[t]]] = Buffer(darg[t])
  /\ \A t, u \in HeapThreads : Buffering(t) /\ Buffering(u) /\ darg[t] = darg[u] => t = u
  /\ \A n \in Fds : fdOwner[n].kind = "buffer" =>
       \/ fdOwner[n].id \in tracedBuffers
       \/ \E t \in HeapThreads : Buffering(t) /\ darg[t] = fdOwner[n].id

HeapInv == HeapTypeOK /\ HeapsInv /\ BuffersInv
==============================================================================
