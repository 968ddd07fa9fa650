--------------------------- MODULE DescriptorsProofs ---------------------------
(***************************************************************************)
(* The heap library and an ashmem object on one descriptor table: DescInv  *)
(* is inductive for any number of threads, descriptors, buffers and        *)
(* regions, and the properties of the three modules follow.                *)
(***************************************************************************)
EXTENDS Descriptors, SequenceTheorems, WellFoundedInduction, TLAPS

-----------------------------------------------------------------------------
(* The descriptor table. *)

\* A set of naturals has a least element.
LEMMA LeastElement ==
  ASSUME NEW T \in SUBSET Nat, T # {}
  PROVE  \E x \in T : \A y \in T : x <= y
<1>1. PICK x \in T : \A y \in T : ~(<<y, x>> \in OpToRel(<, Nat))
  BY NatLessThanWellFounded, WFMin, Zenon
<1>2. \A y \in T : ~(y < x)
  BY <1>1 DEF OpToRel
<1>. QED BY <1>2

\* The number of a new descriptor is free.
LEMMA NewFdFree ==
  ASSUME FreeFds # {}
  PROVE  NewFd \in Fds /\ fdOwner[NewFd] = Free
<1>1. FreeFds \in SUBSET Nat
  BY MaxFdAssumption DEF FreeFds, Fds
<1>2. \E x \in FreeFds : \A y \in FreeFds : x <= y
  BY <1>1, LeastElement
<1>3. Min(FreeFds) \in FreeFds
  BY <1>2 DEF Min
<1>. QED BY <1>3 DEF NewFd, FreeFds

\* Who owns a descriptor tells the kinds apart.
LEMMA OwnerFacts ==
  /\ Free \in Owner /\ Free.kind = "free" /\ Heap \in Owner /\ Heap.kind = "heap"
  /\ \A b : Buffer(b).kind = "buffer" /\ Buffer(b).id = b
  /\ \A r : Region(r).kind = "region" /\ Region(r).id = r
  /\ \A k \in Nat : Buffer(k) \in Owner /\ Region(k) \in Owner
  /\ \A o \in Owner :
       /\ o.kind = "heap" => o = Heap
       /\ o.kind = "free" => o = Free
       /\ o.kind = "buffer" => o = Buffer(o.id) /\ o.id \in Nat
       /\ o.kind = "region" => o = Region(o.id) /\ o.id \in Nat
       /\ o.kind \in {"free", "heap", "buffer", "region"}
BY DEF Owner, Free, Heap, Buffer, Region

\* A buffer that is open is traced, or some thread is about to trace or close it.
LEMMA BufferHeld ==
  ASSUME HeapInv, NEW m \in Fds, fdOwner[m].kind = "buffer"
  PROVE  \/ fdOwner[m].id \in tracedBuffers
         \/ \E u \in HeapThreads : Buffering(u) /\ darg[u] = fdOwner[m].id
BY Zenon DEF HeapInv, BuffersInv

\* What a thread that allocates or frees a buffer knows of it.
LEMMA BufferInHand ==
  ASSUME HeapInv, NEW u \in HeapThreads, Buffering(u)
  PROVE  /\ darg[u] \in Buffers \ tracedBuffers
         /\ \E m \in Fds : fdOwner[m] = Buffer(darg[u])
         /\ dpc[u] = "freeing" => fdOwner[bufferFd[darg[u]]] = Buffer(darg[u])
BY Zenon DEF HeapInv, BuffersInv

\* A new descriptor takes a free number and disturbs no other.
LEMMA Opening ==
  ASSUME FdInv, NEW o \in Owner, OpenFd(o),
         o = Heap \/ \A n \in Fds : fdOwner[n] # o
  PROVE  /\ FdInv'
         /\ NewFd \in Fds /\ fdOwner[NewFd] = Free /\ fdOwner'[NewFd] = o
         /\ \A n \in Fds : n # NewFd => fdOwner'[n] = fdOwner[n]
<1>1. NewFd \in Fds /\ fdOwner[NewFd] = Free
  BY NewFdFree DEF OpenFd
<1>2. /\ fdOwner' \in [Fds -> Owner] /\ fdOwner'[NewFd] = o
      /\ \A n \in Fds : n # NewFd => fdOwner'[n] = fdOwner[n]
  BY <1>1 DEF FdInv, OpenFd
<1>3. \A m, n \in Fds :
        fdOwner'[m] = fdOwner'[n] /\ fdOwner'[m].kind \in {"buffer", "region"} => m = n
  BY <1>1, <1>2, OwnerFacts DEF FdInv
<1>. QED BY <1>1, <1>2, <1>3, Zenon DEF FdInv, OpenFd

\* Whoever closes its own descriptor closes nothing else.
LEMMA Closing ==
  ASSUME FdInv, NEW n \in Fds, CloseFd(n, fdOwner[n])
  PROVE  /\ FdInv'
         /\ fdOwner'[n] = Free
         /\ \A m \in Fds : m # n => fdOwner'[m] = fdOwner[m]
<1>1. /\ fdOwner' \in [Fds -> Owner] /\ fdOwner'[n] = Free
      /\ \A m \in Fds : m # n => fdOwner'[m] = fdOwner[m]
  BY OwnerFacts DEF FdInv, CloseFd
<1>2. \A k, m \in Fds :
        fdOwner'[k] = fdOwner'[m] /\ fdOwner'[k].kind \in {"buffer", "region"} => k = m
  BY <1>1, OwnerFacts DEF FdInv
<1>3. badClose' = FALSE
  BY Zenon DEF FdInv, CloseFd
<1>. QED BY <1>1, <1>2, <1>3 DEF FdInv

\* What a step on one side may do to the descriptors of the other: nothing.
KeepsKinds(kinds) ==
  \A n \in Fds :
    fdOwner[n].kind \in kinds \/ fdOwner'[n].kind \in kinds => fdOwner'[n] = fdOwner[n]

-----------------------------------------------------------------------------
(* The heap library. *)

Steps == {"idle", "opened", "closing", "allocated", "freeing"}

\* A step of a thread leaves the other threads where they are.
LEMMA AtStep ==
  ASSUME HeapTypeOK, NEW t \in HeapThreads, NEW from, NEW to \in Steps, NEW arg \in Nat,
         At(t, from, to, arg)
  PROVE  /\ dpc' \in [HeapThreads -> Steps] /\ darg' \in [HeapThreads -> Nat]
         /\ dpc[t] = from /\ dpc'[t] = to /\ darg'[t] = arg
         /\ \A u \in HeapThreads : u # t => dpc'[u] = dpc[u] /\ darg'[u] = darg[u]
BY DEF HeapTypeOK, At, Steps

\* Opening and closing of heaps leave the buffers alone, and the other way round.
LEMMA BuffersFrame ==
  ASSUME HeapTypeOK, BuffersInv, KeepsKinds({"buffer"}), FdInv, FdInv',
         UNCHANGED <<bufferFd, tracedBuffers>>,
         \A u \in HeapThreads :
           Buffering(u) \/ Buffering(u)' => dpc'[u] = dpc[u] /\ darg'[u] = darg[u]
  PROVE  BuffersInv'
<1>1. \A n \in Fds : \A b : fdOwner[n] = Buffer(b) <=> fdOwner'[n] = Buffer(b)
  BY OwnerFacts DEF KeepsKinds
<1>2. \A b \in Buffers : bufferFd[b] \in Fds
  BY DEF HeapTypeOK
<1>3. \A u \in HeapThreads : Buffering(u)' <=> Buffering(u)
  BY DEF Buffering
<1>4. \A n \in Fds : fdOwner'[n].kind = "buffer" => fdOwner'[n] = fdOwner[n]
  BY DEF KeepsKinds
<1>. QED BY <1>1, <1>2, <1>3, <1>4 DEF BuffersInv, HeapTypeOK

\* The same for the heaps.
LEMMA HeapsFrame ==
  ASSUME HeapsInv, KeepsKinds({"heap"}), FdInv, FdInv', UNCHANGED heapFds,
         \A u \in HeapThreads :
           Heaping(u) \/ Heaping(u)' => dpc'[u] = dpc[u] /\ darg'[u] = darg[u]
  PROVE  HeapsInv'
<1>1. \A n \in Fds : fdOwner[n] = Heap <=> fdOwner'[n] = Heap
  BY OwnerFacts DEF KeepsKinds
<1>2. \A u \in HeapThreads : Heaping(u)' <=> Heaping(u)
  BY DEF Heaping
<1>. QED BY <1>1, <1>2 DEF HeapsInv

\* The steps of the heap library, one lemma each.  DmabufHeapOpen opens a heap that
\* is not traced yet.
LEMMA HeapOpens ==
  ASSUME FdInv, HeapInv, NEW t \in HeapThreads, DmabufHeapOpen(t)
  PROVE  FdInv' /\ HeapInv' /\ KeepsKinds({"region"})
<1>1. /\ FdInv'
      /\ NewFd \in Fds /\ fdOwner[NewFd] = Free /\ fdOwner'[NewFd] = Heap
      /\ \A n \in Fds : n # NewFd => fdOwner'[n] = fdOwner[n]
  BY Opening, OwnerFacts DEF DmabufHeapOpen
<1>2. /\ dpc' \in [HeapThreads -> Steps] /\ darg' \in [HeapThreads -> Nat]
      /\ dpc[t] = "idle" /\ dpc'[t] = "opened" /\ darg'[t] = NewFd
      /\ \A u \in HeapThreads : u # t => dpc'[u] = dpc[u] /\ darg'[u] = darg[u]
  <2>1. NewFd \in Nat /\ "opened" \in Steps
    BY <1>1, MaxFdAssumption DEF Fds, Steps
  <2>. QED BY <2>1, AtStep, Zenon DEF DmabufHeapOpen, HeapInv
<1>3. UNCHANGED <<heapFds, bufferFd, tracedFds, tracedBuffers>>
  BY DEF DmabufHeapOpen
<1>4. KeepsKinds({"region"}) /\ KeepsKinds({"buffer"})
  BY <1>1, OwnerFacts DEF KeepsKinds
<1>5. HeapTypeOK'
  BY <1>2, <1>3 DEF HeapInv, HeapTypeOK, Steps
<1>6. HeapsInv'
  <2>1. ~Heaping(t) /\ \A u \in HeapThreads : Heaping(u)' <=> u = t \/ Heaping(u)
    BY <1>2 DEF Heaping
  <2>2. NewFd \notin heapFds /\ \A u \in HeapThreads : Heaping(u) => darg[u] # NewFd
    BY <1>1, OwnerFacts DEF HeapInv, HeapsInv
  <2>3. \A n \in Fds : fdOwner'[n] = Heap <=>
          n \in heapFds' \/ \E u \in HeapThreads : Heaping(u)' /\ darg'[u] = n
    <3>. TAKE n \in Fds
    <3>1. CASE n = NewFd
      BY <1>1, <1>2, <2>1, <3>1
    <3>2. CASE n # NewFd
      BY <1>1, <1>2, <1>3, <2>1, <3>2 DEF HeapInv, HeapsInv
    <3>. QED BY <3>1, <3>2
  <2>4. \A u \in HeapThreads : Heaping(u)' => darg'[u] \in Fds \ heapFds'
    BY <1>1, <1>2, <1>3, <2>1, <2>2 DEF HeapInv, HeapsInv
  <2>5. \A u, v \in HeapThreads : Heaping(u)' /\ Heaping(v)' /\ darg'[u] = darg'[v] => u = v
    BY <1>2, <2>1, <2>2 DEF HeapInv, HeapsInv
  <2>. QED BY <2>3, <2>4, <2>5 DEF HeapsInv
<1>7. BuffersInv'
  BY <1>1, <1>2, <1>3, <1>4, BuffersFrame DEF HeapInv, Buffering
<1>. QED BY <1>1, <1>4, <1>5, <1>6, <1>7 DEF HeapInv

\* DmabufHeapOpen reports the heap and hands it to the client.
LEMMA HeapOpenReturns ==
  ASSUME FdInv, HeapInv, NEW t \in HeapThreads, HeapOpenReturn(t)
  PROVE  FdInv' /\ HeapInv' /\ KeepsKinds({"region"})
<1>1. UNCHANGED <<fdOwner, badClose, bufferFd, tracedBuffers>>
  BY DEF HeapOpenReturn, fdVars
<1>2. FdInv' /\ KeepsKinds({"region"}) /\ KeepsKinds({"buffer"})
  BY <1>1 DEF FdInv, KeepsKinds
<1>3. /\ dpc' \in [HeapThreads -> Steps] /\ darg' \in [HeapThreads -> Nat]
      /\ dpc[t] = "opened" /\ dpc'[t] = "idle" /\ darg'[t] = 0
      /\ \A u \in HeapThreads : u # t => dpc'[u] = dpc[u] /\ darg'[u] = darg[u]
  BY AtStep DEF HeapOpenReturn, HeapInv, Steps
<1>4. /\ heapFds' = heapFds \cup {darg[t]} /\ tracedFds' = tracedFds \cup {darg[t]}
      /\ darg[t] \in Fds
  BY <1>3 DEF HeapOpenReturn, HeapInv, HeapsInv, Heaping
<1>5. HeapTypeOK'
  BY <1>1, <1>3, <1>4 DEF HeapInv, HeapTypeOK, Steps
<1>6. HeapsInv'
  <2>1. \A u \in HeapThreads : Heaping(u)' <=> u # t /\ Heaping(u)
    BY <1>3 DEF Heaping
  <2>2. Heaping(t)
    BY <1>3 DEF Heaping
  <2>. QED BY <1>1, <1>3, <1>4, <2>1, <2>2 DEF HeapInv, HeapsInv
<1>7. BuffersInv'
  BY <1>1, <1>2, <1>3, BuffersFrame DEF HeapInv, Buffering
<1>. QED BY <1>2, <1>5, <1>6, <1>7 DEF HeapInv

\* DmabufHeapClose takes the heap out of the trace first.
LEMMA HeapCloses ==
  ASSUME FdInv, HeapInv, NEW t \in HeapThreads, DmabufHeapClose(t)
  PROVE  FdInv' /\ HeapInv' /\ KeepsKinds({"region"})
<1>1. PICK n \in heapFds :
        /\ At(t, "idle", "closing", n) /\ heapFds' = heapFds \ {n}
        /\ tracedFds' = tracedFds \ {n}
        /\ UNCHANGED <<fdVars, bufferFd, tracedBuffers>>
  BY Zenon DEF DmabufHeapClose
<1>2. FdInv' /\ KeepsKinds({"region"}) /\ KeepsKinds({"buffer"}) /\ UNCHANGED fdOwner
  BY <1>1 DEF FdInv, KeepsKinds, fdVars
<1>3. /\ dpc' \in [HeapThreads -> Steps] /\ darg' \in [HeapThreads -> Nat]
      /\ dpc[t] = "idle" /\ dpc'[t] = "closing" /\ darg'[t] = n
      /\ \A u \in HeapThreads : u # t => dpc'[u] = dpc[u] /\ darg'[u] = darg[u]
  <2>1. n \in Nat /\ "closing" \in Steps
    BY <1>1, MaxFdAssumption DEF Fds, Steps, HeapInv, HeapTypeOK
  <2>. QED BY <1>1, <2>1, AtStep, Zenon DEF HeapInv
<1>4. HeapTypeOK' /\ n \in Fds
  BY <1>1, <1>3 DEF HeapInv, HeapTypeOK, Steps
<1>5. HeapsInv'
  <2>1. ~Heaping(t) /\ \A u \in HeapThreads : Heaping(u)' <=> u = t \/ Heaping(u)
    BY <1>3 DEF Heaping
  <2>2. \A u \in HeapThreads : Heaping(u) => darg[u] # n
    BY <1>1 DEF HeapInv, HeapsInv
  <2>3. \A m \in Fds : fdOwner'[m] = Heap <=>
          m \in heapFds' \/ \E u \in HeapThreads : Heaping(u)' /\ darg'[u] = m
    <3>. TAKE m \in Fds
    <3>1. CASE m = n
      BY <1>1, <1>2, <1>3, <2>1, <3>1 DEF HeapInv, HeapsInv
    <3>2. CASE m # n
      BY <1>1, <1>2, <1>3, <2>1, <3>2 DEF HeapInv, HeapsInv
    <3>. QED BY <3>1, <3>2
  <2>4. \A u \in HeapThreads : Heaping(u)' => darg'[u] \in Fds \ heapFds'
    BY <1>1, <1>3, <1>4, <2>1 DEF HeapInv, HeapsInv
  <2>5. \A u, v \in HeapThreads : Heaping(u)' /\ Heaping(v)' /\ darg'[u] = darg'[v] => u = v
    BY <1>3, <2>1, <2>2 DEF HeapInv, HeapsInv
  <2>. QED BY <2>3, <2>4, <2>5 DEF HeapsInv
<1>6. BuffersInv'
  BY <1>1, <1>2, <1>3, BuffersFrame DEF HeapInv, Buffering
<1>. QED BY <1>2, <1>4, <1>5, <1>6 DEF HeapInv

\* DmabufHeapClose closes the number it was given, which is still this heap.
LEMMA HeapCloseReturns ==
  ASSUME FdInv, HeapInv, NEW t \in HeapThreads, HeapCloseReturn(t)
  PROVE  FdInv' /\ HeapInv' /\ KeepsKinds({"region"})
<1>1. /\ dpc' \in [HeapThreads -> Steps] /\ darg' \in [HeapThreads -> Nat]
      /\ dpc[t] = "closing" /\ dpc'[t] = "idle" /\ darg'[t] = 0
      /\ \A u \in HeapThreads : u # t => dpc'[u] = dpc[u] /\ darg'[u] = darg[u]
  BY AtStep DEF HeapCloseReturn, HeapInv, Steps
<1>2. Heaping(t) /\ darg[t] \in Fds \ heapFds /\ fdOwner[darg[t]] = Heap
  BY <1>1 DEF HeapInv, HeapsInv, Heaping
<1>3. /\ FdInv' /\ fdOwner'[darg[t]] = Free
      /\ \A n \in Fds : n # darg[t] => fdOwner'[n] = fdOwner[n]
  BY <1>2, Closing DEF HeapCloseReturn
<1>4. UNCHANGED <<heapFds, bufferFd, tracedFds, tracedBuffers>>
  BY DEF HeapCloseReturn
<1>5. KeepsKinds({"region"}) /\ KeepsKinds({"buffer"})
  BY <1>2, <1>3, OwnerFacts DEF KeepsKinds
<1>6. HeapTypeOK'
  BY <1>1, <1>4 DEF HeapInv, HeapTypeOK, Steps
<1>7. HeapsInv'
  <2>1. \A u \in HeapThreads : Heaping(u)' <=> u # t /\ Heaping(u)
    BY <1>1 DEF Heaping
  <2>2. Free # Heap
    BY OwnerFacts
  <2>3. \A u \in HeapThreads : u # t /\ Heaping(u) => darg[u] # darg[t]
    BY <1>2 DEF HeapInv, HeapsInv
  <2>. QED BY <1>1, <1>2, <1>3, <1>4, <2>1, <2>2, <2>3 DEF HeapInv, HeapsInv
<1>8. BuffersInv'
  BY <1>1, <1>3, <1>4, <1>5, BuffersFrame DEF HeapInv, Buffering
<1>. QED BY <1>3, <1>5, <1>6, <1>7, <1>8 DEF HeapInv

\* DmabufHeapBufferAlloc has a descriptor for a buffer that has none.
LEMMA BufferAllocates ==
  ASSUME FdInv, HeapInv, NEW t \in HeapThreads, DmabufHeapBufferAlloc(t)
  PROVE  FdInv' /\ HeapInv' /\ KeepsKinds({"region"})
<1>1. PICK b \in Buffers :
        /\ Buffer(b) \notin {fdOwner[n] : n \in Fds}
        /\ OpenFd(Buffer(b)) /\ At(t, "idle", "allocated", b)
        /\ UNCHANGED <<heapFds, bufferFd, tracedFds, tracedBuffers>>
  BY Zenon DEF DmabufHeapBufferAlloc
<1>2. b \in Nat /\ \A n \in Fds : fdOwner[n] # Buffer(b)
  BY <1>1, BuffersAssumption
<1>3. /\ FdInv'
      /\ NewFd \in Fds /\ fdOwner[NewFd] = Free /\ fdOwner'[NewFd] = Buffer(b)
      /\ \A n \in Fds : n # NewFd => fdOwner'[n] = fdOwner[n]
  BY <1>1, <1>2, Opening, OwnerFacts
<1>4. /\ dpc' \in [HeapThreads -> Steps] /\ darg' \in [HeapThreads -> Nat]
      /\ dpc[t] = "idle" /\ dpc'[t] = "allocated" /\ darg'[t] = b
      /\ \A u \in HeapThreads : u # t => dpc'[u] = dpc[u] /\ darg'[u] = darg[u]
  <2>1. "allocated" \in Steps
    BY DEF Steps
  <2>. QED BY <1>1, <1>2, <2>1, AtStep, Zenon DEF HeapInv
<1>5. KeepsKinds({"region"}) /\ KeepsKinds({"heap"})
  BY <1>3, OwnerFacts DEF KeepsKinds
<1>6. HeapTypeOK'
  BY <1>1, <1>4 DEF HeapInv, HeapTypeOK, Steps
<1>7. HeapsInv'
  BY <1>1, <1>3, <1>4, <1>5, HeapsFrame DEF HeapInv, Heaping
<1>8. BuffersInv'
  <2>1. ~Buffering(t) /\ \A u \in HeapThreads : Buffering(u)' <=> u = t \/ Buffering(u)
    BY <1>4 DEF Buffering
  <2>2. b \notin tracedBuffers /\ \A u \in HeapThreads : Buffering(u) => darg[u] # b
    BY <1>1, <1>2 DEF HeapInv, BuffersInv, HeapTypeOK
  <2>3. \A n \in Fds : \A c : fdOwner[n] = Buffer(c) => fdOwner'[n] = Buffer(c)
    BY <1>3, OwnerFacts
  <2>4. \A c \in Buffers : bufferFd'[c] \in Fds
    BY <1>6 DEF HeapTypeOK
  <2>5. \A c \in tracedBuffers' : fdOwner'[bufferFd'[c]] = Buffer(c)
    BY <1>1, <2>3, <2>4 DEF HeapInv, BuffersInv, HeapTypeOK
  <2>6. \A u \in HeapThreads : Buffering(u)' =>
          /\ darg'[u] \in Buffers \ tracedBuffers'
          /\ \E n \in Fds : fdOwner'[n] = Buffer(darg'[u])
          /\ dpc'[u] = "freeing" => fdOwner'[bufferFd'[darg'[u]]] = Buffer(darg'[u])
    <3>. TAKE u \in HeapThreads
    <3>1. CASE u = t
      BY <1>1, <1>3, <1>4, <2>2, <3>1
    <3>2. CASE u # t
      BY <1>1, <1>4, <2>1, <2>3, <2>4, <3>2 DEF HeapInv, BuffersInv
    <3>. QED BY <3>1, <3>2
  <2>7. \A u, v \in HeapThreads :
          Buffering(u)' /\ Buffering(v)' /\ darg'[u] = darg'[v] => u = v
    BY <1>4, <2>1, <2>2 DEF HeapInv, BuffersInv
  <2>8. \A n \in Fds : fdOwner'[n].kind = "buffer" =>
          \/ fdOwner'[n].id \in tracedBuffers'
          \/ \E u \in HeapThreads : Buffering(u)' /\ darg'[u] = fdOwner'[n].id
    <3>. TAKE n \in Fds
    <3>1. CASE n = NewFd
      BY <1>3, <1>4, <2>1, <3>1, OwnerFacts
    <3>2. CASE n # NewFd
      BY <1>1, <1>3, <1>4, <2>1, <3>2 DEF HeapInv, BuffersInv
    <3>. QED BY <3>1, <3>2
  <2>. QED BY <2>5, <2>6, <2>7, <2>8 DEF BuffersInv
<1>. QED BY <1>3, <1>5, <1>6, <1>7, <1>8 DEF HeapInv

\* DmabufHeapBufferAlloc stores and reports it.
LEMMA BufferAllocReturns ==
  ASSUME FdInv, HeapInv, NEW t \in HeapThreads, BufferAllocReturn(t)
  PROVE  FdInv' /\ HeapInv' /\ KeepsKinds({"region"})
<1>. DEFINE b == darg[t]
<1>1. UNCHANGED <<fdOwner, badClose, heapFds, tracedFds>>
  BY DEF BufferAllocReturn, fdVars
<1>2. FdInv' /\ KeepsKinds({"region"}) /\ KeepsKinds({"heap"})
  BY <1>1 DEF FdInv, KeepsKinds
<1>3. /\ dpc' \in [HeapThreads -> Steps] /\ darg' \in [HeapThreads -> Nat]
      /\ dpc[t] = "allocated" /\ dpc'[t] = "idle" /\ darg'[t] = 0
      /\ \A u \in HeapThreads : u # t => dpc'[u] = dpc[u] /\ darg'[u] = darg[u]
  BY AtStep DEF BufferAllocReturn, HeapInv, Steps
<1>4. /\ Buffering(t) /\ b \in Buffers \ tracedBuffers
      /\ \E n \in Fds : fdOwner[n] = Buffer(b)
  BY <1>3 DEF HeapInv, BuffersInv, Buffering
<1>5. PICK n \in Fds : fdOwner[n] = Buffer(b) /\ bufferFd' = [bufferFd EXCEPT ![b] = n]
  <2>. DEFINE n == CHOOSE m \in Fds : fdOwner[m] = Buffer(b)
  <2>1. n \in Fds /\ fdOwner[n] = Buffer(b)
    BY <1>4
  <2>2. bufferFd' = [bufferFd EXCEPT ![b] = n]
    BY DEF BufferAllocReturn
  <2>. QED BY <2>1, <2>2
<1>6. tracedBuffers' = tracedBuffers \cup {b}
  BY DEF BufferAllocReturn
<1>7. HeapTypeOK'
  BY <1>1, <1>3, <1>4, <1>5, <1>6 DEF HeapInv, HeapTypeOK, Steps
<1>8. HeapsInv'
  BY <1>1, <1>2, <1>3, HeapsFrame DEF HeapInv, Heaping
<1>9. BuffersInv'
  <2>1. \A u \in HeapThreads : Buffering(u)' <=> u # t /\ Buffering(u)
    BY <1>3 DEF Buffering
  <2>2. \A u \in HeapThreads : u # t /\ Buffering(u) => darg[u] # b
    BY <1>4 DEF HeapInv, BuffersInv
  <2>3. bufferFd'[b] = n /\ \A c \in Buffers : c # b => bufferFd'[c] = bufferFd[c]
    BY <1>4, <1>5 DEF HeapInv, HeapTypeOK
  <2>4. \A c \in tracedBuffers' : fdOwner'[bufferFd'[c]] = Buffer(c)
    BY <1>1, <1>5, <1>6, <2>3 DEF HeapInv, BuffersInv, HeapTypeOK
  <2>5. \A u \in HeapThreads : Buffering(u)' =>
          /\ darg'[u] \in Buffers \ tracedBuffers'
          /\ \E m \in Fds : fdOwner'[m] = Buffer(darg'[u])
          /\ dpc'[u] = "freeing" => fdOwner'[bufferFd'[darg'[u]]] = Buffer(darg'[u])
    <3>. SUFFICES ASSUME NEW u \in HeapThreads, Buffering(u)'
                  PROVE  /\ darg'[u] \in Buffers \ tracedBuffers'
                         /\ \E m \in Fds : fdOwner'[m] = Buffer(darg'[u])
                         /\ dpc'[u] = "freeing" => fdOwner'[bufferFd'[darg'[u]]] = Buffer(darg'[u])
      OBVIOUS
    <3>1. /\ Buffering(u) /\ dpc'[u] = dpc[u] /\ darg'[u] = darg[u]
          /\ darg[u] # b
      BY <1>3, <2>1, <2>2
    <3>2. /\ darg[u] \in Buffers \ tracedBuffers
          /\ \E m \in Fds : fdOwner[m] = Buffer(darg[u])
          /\ dpc[u] = "freeing" => fdOwner[bufferFd[darg[u]]] = Buffer(darg[u])
      BY <3>1, BufferInHand, Zenon
    <3>3. darg'[u] \in Buffers \ tracedBuffers'
      BY <1>6, <3>1, <3>2
    <3>4. fdOwner' = fdOwner /\ bufferFd'[darg[u]] = bufferFd[darg[u]]
      BY <1>1, <2>3, <3>1, <3>2
    <3>. QED BY <3>1, <3>2, <3>3, <3>4, Zenon
  <2>6. \A u, v \in HeapThreads :
          Buffering(u)' /\ Buffering(v)' /\ darg'[u] = darg'[v] => u = v
    BY <1>3, <2>1 DEF HeapInv, BuffersInv
  <2>7. \A m \in Fds : fdOwner'[m].kind = "buffer" =>
          \/ fdOwner'[m].id \in tracedBuffers'
          \/ \E u \in HeapThreads : Buffering(u)' /\ darg'[u] = fdOwner'[m].id
    <3>. SUFFICES ASSUME NEW m \in Fds, fdOwner'[m].kind = "buffer"
                  PROVE  \/ fdOwner'[m].id \in tracedBuffers'
                         \/ \E u \in HeapThreads : Buffering(u)' /\ darg'[u] = fdOwner'[m].id
      OBVIOUS
    <3>1. fdOwner'[m] = fdOwner[m] /\ fdOwner[m].kind = "buffer"
      BY <1>1
    <3>2. CASE fdOwner[m].id \in tracedBuffers
      BY <1>6, <3>1, <3>2
    <3>3. ASSUME NEW u \in HeapThreads, Buffering(u), darg[u] = fdOwner[m].id
          PROVE  \/ fdOwner'[m].id \in tracedBuffers'
                 \/ \E v \in HeapThreads : Buffering(v)' /\ darg'[v] = fdOwner'[m].id
      <4>1. CASE u = t
        BY <1>6, <3>1, <3>3, <4>1
      <4>2. CASE u # t
        BY <1>3, <2>1, <3>1, <3>3, <4>2, Zenon
      <4>. QED BY <4>1, <4>2
    <3>. QED BY <3>1, <3>2, <3>3, BufferHeld, Zenon
  <2>. QED BY <2>4, <2>5, <2>6, <2>7 DEF BuffersInv
<1>. QED BY <1>2, <1>7, <1>8, <1>9 DEF HeapInv

\* DmabufHeapBufferFree takes the buffer out of the trace first.
LEMMA BufferFrees ==
  ASSUME FdInv, HeapInv, NEW t \in HeapThreads, DmabufHeapBufferFree(t)
  PROVE  FdInv' /\ HeapInv' /\ KeepsKinds({"region"})
<1>1. PICK b \in tracedBuffers :
        /\ At(t, "idle", "freeing", b) /\ tracedBuffers' = tracedBuffers \ {b}
        /\ UNCHANGED <<fdVars, heapFds, bufferFd, tracedFds>>
  BY Zenon DEF DmabufHeapBufferFree
<1>2. FdInv' /\ KeepsKinds({"region"}) /\ KeepsKinds({"heap"}) /\ UNCHANGED fdOwner
  BY <1>1 DEF FdInv, KeepsKinds, fdVars
<1>3. b \in Buffers /\ b \in Nat /\ bufferFd[b] \in Fds /\ fdOwner[bufferFd[b]] = Buffer(b)
  BY <1>1, BuffersAssumption DEF HeapInv, HeapTypeOK, BuffersInv
<1>4. /\ dpc' \in [HeapThreads -> Steps] /\ darg' \in [HeapThreads -> Nat]
      /\ dpc[t] = "idle" /\ dpc'[t] = "freeing" /\ darg'[t] = b
      /\ \A u \in HeapThreads : u # t => dpc'[u] = dpc[u] /\ darg'[u] = darg[u]
  <2>1. "freeing" \in Steps
    BY DEF Steps
  <2>. QED BY <1>1, <1>3, <2>1, AtStep, Zenon DEF HeapInv
<1>5. HeapTypeOK'
  BY <1>1, <1>4 DEF HeapInv, HeapTypeOK, Steps
<1>6. HeapsInv'
  BY <1>1, <1>2, <1>4, HeapsFrame DEF HeapInv, Heaping
<1>7. BuffersInv'
  <2>1. ~Buffering(t) /\ \A u \in HeapThreads : Buffering(u)' <=> u = t \/ Buffering(u)
    BY <1>4 DEF Buffering
  <2>2. \A u \in HeapThreads : Buffering(u) => darg[u] # b
    BY <1>1 DEF HeapInv, BuffersInv
  <2>3. \A c \in tracedBuffers' : fdOwner'[bufferFd'[c]] = Buffer(c)
    BY <1>1, <1>2 DEF HeapInv, BuffersInv
  <2>4. \A u \in HeapThreads : Buffering(u)' =>
          /\ darg'[u] \in Buffers \ tracedBuffers'
          /\ \E n \in Fds : fdOwner'[n] = Buffer(darg'[u])
          /\ dpc'[u] = "freeing" => fdOwner'[bufferFd'[darg'[u]]] = Buffer(darg'[u])
    <3>. TAKE u \in HeapThreads
    <3>1. CASE u = t
      BY <1>1, <1>2, <1>3, <1>4, <3>1
    <3>2. CASE u # t
      BY <1>1, <1>2, <1>4, <2>1, <3>2 DEF HeapInv, BuffersInv
    <3>. QED BY <3>1, <3>2
  <2>5. \A u, v \in HeapThreads :
          Buffering(u)' /\ Buffering(v)' /\ darg'[u] = darg'[v] => u = v
    BY <1>4, <2>1, <2>2 DEF HeapInv, BuffersInv
  <2>6. \A n \in Fds : fdOwner'[n].kind = "buffer" =>
          \/ fdOwner'[n].id \in tracedBuffers'
          \/ \E u \in HeapThreads : Buffering(u)' /\ darg'[u] = fdOwner'[n].id
    <3>. SUFFICES ASSUME NEW n \in Fds, fdOwner'[n].kind = "buffer"
                  PROVE  \/ fdOwner'[n].id \in tracedBuffers'
                         \/ \E u \in HeapThreads : Buffering(u)' /\ darg'[u] = fdOwner'[n].id
      OBVIOUS
    <3>1. fdOwner'[n] = fdOwner[n] /\ fdOwner[n].kind = "buffer"
      BY <1>2
    <3>2. CASE fdOwner[n].id = b
      BY <1>4, <2>1, <3>1, <3>2, Zenon
    <3>3. CASE fdOwner[n].id \in tracedBuffers \ {b}
      BY <1>1, <3>1, <3>3
    <3>4. ASSUME NEW u \in HeapThreads, Buffering(u), darg[u] = fdOwner[n].id
          PROVE  \E v \in HeapThreads : Buffering(v)' /\ darg'[v] = fdOwner'[n].id
      BY <1>4, <2>1, <3>1, <3>4, Zenon
    <3>. QED BY <3>1, <3>2, <3>3, <3>4, BufferHeld
  <2>. QED BY <2>3, <2>4, <2>5, <2>6 DEF BuffersInv
<1>. QED BY <1>2, <1>5, <1>6, <1>7 DEF HeapInv

\* The number in buffer->fd still names the buffer: no one else has closed it.
LEMMA BufferFreeReturns ==
  ASSUME FdInv, HeapInv, NEW t \in HeapThreads, BufferFreeReturn(t)
  PROVE  FdInv' /\ HeapInv' /\ KeepsKinds({"region"})
<1>. DEFINE b == darg[t]
            n == bufferFd[darg[t]]
<1>1. /\ dpc' \in [HeapThreads -> Steps] /\ darg' \in [HeapThreads -> Nat]
      /\ dpc[t] = "freeing" /\ dpc'[t] = "idle" /\ darg'[t] = 0
      /\ \A u \in HeapThreads : u # t => dpc'[u] = dpc[u] /\ darg'[u] = darg[u]
  BY AtStep DEF BufferFreeReturn, HeapInv, Steps
<1>2. Buffering(t) /\ b \in Buffers \ tracedBuffers /\ n \in Fds /\ fdOwner[n] = Buffer(b)
  BY <1>1 DEF HeapInv, BuffersInv, HeapTypeOK, Buffering
<1>3. /\ FdInv' /\ fdOwner'[n] = Free
      /\ \A m \in Fds : m # n => fdOwner'[m] = fdOwner[m]
  BY <1>2, Closing DEF BufferFreeReturn
<1>4. UNCHANGED <<heapFds, bufferFd, tracedFds, tracedBuffers>>
  BY DEF BufferFreeReturn
<1>5. KeepsKinds({"region"}) /\ KeepsKinds({"heap"})
  BY <1>2, <1>3, OwnerFacts DEF KeepsKinds
<1>6. HeapTypeOK'
  BY <1>1, <1>4 DEF HeapInv, HeapTypeOK, Steps
<1>7. HeapsInv'
  BY <1>1, <1>3, <1>4, <1>5, HeapsFrame DEF HeapInv, Heaping
<1>8. BuffersInv'
  <2>1. \A u \in HeapThreads : Buffering(u)' <=> u # t /\ Buffering(u)
    BY <1>1 DEF Buffering
  <2>2. \A u \in HeapThreads : u # t /\ Buffering(u) => darg[u] # b
    BY <1>2 DEF HeapInv, BuffersInv
  <2>3. \A m \in Fds : \A c : c # b /\ fdOwner[m] = Buffer(c) => fdOwner'[m] = Buffer(c)
    BY <1>2, <1>3, OwnerFacts
  <2>4. \A c \in Buffers : bufferFd'[c] \in Fds
    BY <1>6 DEF HeapTypeOK
  <2>5. \A c \in tracedBuffers' : fdOwner'[bufferFd'[c]] = Buffer(c)
    BY <1>2, <1>4, <2>3, <2>4 DEF HeapInv, BuffersInv, HeapTypeOK
  <2>6. \A u \in HeapThreads : Buffering(u)' =>
          /\ darg'[u] \in Buffers \ tracedBuffers'
          /\ \E m \in Fds : fdOwner'[m] = Buffer(darg'[u])
          /\ dpc'[u] = "freeing" => fdOwner'[bufferFd'[darg'[u]]] = Buffer(darg'[u])
    <3>. SUFFICES ASSUME NEW u \in HeapThreads, Buffering(u)'
                  PROVE  /\ darg'[u] \in Buffers \ tracedBuffers'
                         /\ \E m \in Fds : fdOwner'[m] = Buffer(darg'[u])
                         /\ dpc'[u] = "freeing" => fdOwner'[bufferFd'[darg'[u]]] = Buffer(darg'[u])
      OBVIOUS
    <3>1. /\ u # t /\ Buffering(u) /\ dpc'[u] = dpc[u] /\ darg'[u] = darg[u]
          /\ darg[u] # b
      BY <1>1, <2>1, <2>2
    <3>2. /\ darg[u] \in Buffers \ tracedBuffers
          /\ \E m \in Fds : fdOwner[m] = Buffer(darg[u])
          /\ dpc[u] = "freeing" => fdOwner[bufferFd[darg[u]]] = Buffer(darg[u])
      BY <3>1, BufferInHand, Zenon
    <3>3. darg'[u] \in Buffers \ tracedBuffers'
      BY <1>4, <3>1, <3>2
    <3>4. \E m \in Fds : fdOwner'[m] = Buffer(darg'[u])
      BY <2>3, <3>1, <3>2, Zenon
    <3>5. bufferFd'[darg[u]] = bufferFd[darg[u]] /\ bufferFd[darg[u]] \in Fds
      BY <1>4, <2>4, <3>2
    <3>6. dpc'[u] = "freeing" => fdOwner'[bufferFd'[darg'[u]]] = Buffer(darg'[u])
      BY <2>3, <3>1, <3>2, <3>5, Zenon
    <3>. QED BY <3>3, <3>4, <3>6
  <2>7. \A u, v \in HeapThreads :
          Buffering(u)' /\ Buffering(v)' /\ darg'[u] = darg'[v] => u = v
    BY <1>1, <2>1 DEF HeapInv, BuffersInv
  <2>8. \A m \in Fds : fdOwner'[m].kind = "buffer" =>
          \/ fdOwner'[m].id \in tracedBuffers'
          \/ \E u \in HeapThreads : Buffering(u)' /\ darg'[u] = fdOwner'[m].id
    <3>. SUFFICES ASSUME NEW m \in Fds, fdOwner'[m].kind = "buffer"
                  PROVE  \/ fdOwner'[m].id \in tracedBuffers'
                         \/ \E u \in HeapThreads : Buffering(u)' /\ darg'[u] = fdOwner'[m].id
      OBVIOUS
    <3>1. m # n /\ fdOwner'[m] = fdOwner[m]
      BY <1>3, OwnerFacts
    <3>2. fdOwner[m].id # b
      <4>1. fdOwner[m] \in Owner /\ fdOwner[m].kind = "buffer"
        BY <3>1 DEF FdInv
      <4>2. fdOwner[m] = Buffer(fdOwner[m].id)
        BY <4>1, OwnerFacts
      <4>3. fdOwner[m] # fdOwner[n]
        BY <1>2, <3>1, <4>1 DEF FdInv
      <4>. QED BY <1>2, <4>2, <4>3
    <3>3. CASE fdOwner[m].id \in tracedBuffers
      BY <1>4, <3>1, <3>3
    <3>4. ASSUME NEW u \in HeapThreads, Buffering(u), darg[u] = fdOwner[m].id
          PROVE  \E v \in HeapThreads : Buffering(v)' /\ darg'[v] = fdOwner'[m].id
      <4>1. u # t /\ darg'[u] = darg[u]
        BY <1>1, <3>2, <3>4
      <4>. QED BY <2>1, <3>1, <3>4, <4>1, Zenon
    <3>5. fdOwner[m].kind = "buffer"
      BY <3>1
    <3>. QED BY <3>3, <3>4, <3>5, BufferHeld, Zenon
  <2>. QED BY <2>5, <2>6, <2>7, <2>8 DEF BuffersInv
<1>. QED BY <1>3, <1>5, <1>6, <1>7, <1>8 DEF HeapInv

\* The heap library keeps its invariant and the regions.
LEMMA HeapSteps ==
  ASSUME FdInv, HeapInv, HeapNext
  PROVE  FdInv' /\ HeapInv' /\ KeepsKinds({"region"})
BY HeapOpens, HeapOpenReturns, HeapCloses, HeapCloseReturns,
   BufferAllocates, BufferAllocReturns, BufferFrees, BufferFreeReturns
DEF HeapNext

\* The object leaves the heaps and the buffers alone.
LEMMA HeapFrame ==
  ASSUME FdInv, FdInv', HeapInv, KeepsKinds({"heap", "buffer"}), UNCHANGED heapVars
  PROVE  HeapInv'
<1>1. KeepsKinds({"heap"}) /\ KeepsKinds({"buffer"})
  BY DEF KeepsKinds
<1>2. UNCHANGED <<dpc, darg, heapFds, bufferFd, tracedFds, tracedBuffers>>
  BY DEF heapVars
<1>3. HeapTypeOK'
  BY <1>2 DEF HeapInv, HeapTypeOK
<1>. QED BY <1>1, <1>2, <1>3, HeapsFrame, BuffersFrame DEF HeapInv

-----------------------------------------------------------------------------
(* The ashmem object. *)

\* The heap library leaves the regions alone.
LEMMA AshmemFrame ==
  ASSUME FdInv, FdInv', AshmemInv, KeepsKinds({"region"}), UNCHANGED ashmemVars
  PROVE  AshmemInv'
<1>1. UNCHANGED <<apc, ashmemFd_, dataPtr_, dataSizeInput_, isChange_, fd,
                  regionSize, mapped, lent, offer, unmapFailed, badUnmap>>
  BY DEF ashmemVars, fields, regions
<1>2. \A n \in Fds : \A r : fdOwner'[n] = Region(r) <=> fdOwner[n] = Region(r)
  BY OwnerFacts DEF KeepsKinds
<1>3. 0 \in Fds
  BY MaxFdAssumption DEF Fds
<1>4. AshmemTypeOK'
  BY <1>1 DEF AshmemInv, AshmemTypeOK, Made, KeepsKinds
<1>5. DataInv' /\ CreatedInv'
  BY <1>1, <1>2 DEF AshmemInv, DataInv, CreatedInv, Made
<1>6. OfferInv'
  BY <1>1, <1>2 DEF AshmemInv, OfferInv, Open
<1>7. SizeInv'
  BY <1>1, Zenon DEF AshmemInv, SizeInv
<1>8. RestInv'
  <2>1. \A r : Open(r)' <=> Open(r)
    BY <1>2 DEF Open
  <2>2. \A r : (fdOwner[0] = Region(r))' <=> fdOwner[0] = Region(r)
    BY <1>2, <1>3
  <2>. QED BY <1>1, <2>1, <2>2, Zenon DEF AshmemInv, RestInv, Made
<1>. QED BY <1>4, <1>5, <1>6, <1>7, <1>8 DEF AshmemInv

\* What is left when the release of the data has been tried.
Released ==
  /\ FdInv' /\ KeepsKinds({"heap", "buffer"})
  /\ mapped' \in SUBSET mapped /\ mapped \ {dataPtr_} \subseteq mapped'
  /\ \A n \in Fds :
       fdOwner'[n] = fdOwner[n] \/ (fdOwner'[n] = Free /\ fdOwner[n] = Region(dataPtr_))
  /\ unmapFailed => unmapFailed'
  /\ unmapFailed' \/ badUnmap' = FALSE
  /\ dataPtr_ # 0 =>
       \/ unmapFailed' /\ UNCHANGED <<fdOwner, mapped>>
       \/ /\ dataPtr_ \notin mapped'
          /\ fdOwner'[0] = Region(dataPtr_) \/ \A n \in Fds : fdOwner'[n] # Region(dataPtr_)

\* An object without data has nothing to release.
LEMMA Nothing ==
  ASSUME FdInv, AshmemInv, dataPtr_ = 0, UNCHANGED <<fdVars, mapped, unmapFailed, badUnmap>>
  PROVE  Released
<1>1. UNCHANGED fdOwner /\ FdInv'
  BY DEF fdVars, FdInv
<1>2. unmapFailed' \/ badUnmap' = FALSE
  BY Zenon DEF AshmemInv, SizeInv
<1>3. unmapFailed => unmapFailed'
  BY Zenon
<1>. QED BY <1>1, <1>2, <1>3 DEF Released, KeepsKinds

\* munmap and close of the data meet the mapping and the descriptor of the object.
LEMMA Unmapping ==
  ASSUME FdInv, AshmemInv, apc = "idle", dataPtr_ # 0,
         NEW closes, closes \/ ashmemFd_ = 0, Unmap(dataSizeInput_, closes)
  PROVE  Released
<1>1. ashmemFd_ \in Fds /\ fdOwner[ashmemFd_] = Region(dataPtr_) /\ dataPtr_ \in mapped
  BY DEF AshmemInv, DataInv
<1>2. CASE unmapFailed' = TRUE /\ UNCHANGED <<mapped, badUnmap, fdVars>>
  <2>1. UNCHANGED <<fdOwner, mapped>> /\ FdInv' /\ unmapFailed'
    BY <1>2 DEF fdVars, FdInv
  <2>. QED BY <2>1 DEF Released, KeepsKinds
<1>3. CASE /\ mapped' = mapped \ {dataPtr_} /\ UNCHANGED unmapFailed
           /\ badUnmap' = (badUnmap \/ dataSizeInput_ # regionSize[dataPtr_])
           /\ IF closes THEN CloseFd(ashmemFd_, Region(dataPtr_)) ELSE UNCHANGED fdVars
  <2>1. unmapFailed' \/ badUnmap' = FALSE
    <3>1. unmapFailed \/ (badUnmap = FALSE /\ dataSizeInput_ = regionSize[dataPtr_])
      BY DEF AshmemInv, SizeInv
    <3>. QED BY <1>3, <3>1, Zenon
  <2>2. unmapFailed => unmapFailed'
    BY <1>3, Zenon
  <2>3. mapped' = mapped \ {dataPtr_}
    BY <1>3
  <2>4. CASE CloseFd(ashmemFd_, Region(dataPtr_))
    <3>1. /\ FdInv' /\ fdOwner'[ashmemFd_] = Free
          /\ \A n \in Fds : n # ashmemFd_ => fdOwner'[n] = fdOwner[n]
      BY <1>1, <2>4, Closing
    <3>2. KeepsKinds({"heap", "buffer"})
      BY <1>1, <3>1, OwnerFacts DEF KeepsKinds
    <3>3. \A n \in Fds : fdOwner'[n] # Region(dataPtr_)
      BY <1>1, <3>1, OwnerFacts DEF FdInv
    <3>. QED BY <1>1, <2>1, <2>2, <2>3, <3>1, <3>2, <3>3 DEF Released
  <2>5. CASE ashmemFd_ = 0 /\ UNCHANGED fdVars
    <3>1. UNCHANGED fdOwner /\ FdInv'
      BY <2>5 DEF fdVars, FdInv
    <3>. QED BY <1>1, <2>1, <2>2, <2>3, <2>5, <3>1 DEF Released, KeepsKinds
  <2>. QED BY <1>3, <2>4, <2>5
<1>. QED BY <1>2, <1>3 DEF Unmap

\* What ResizeData and ChangeAshmemData do first.
LEMMA Releasing ==
  ASSUME FdInv, AshmemInv, apc = "idle", Release
  PROVE  Released
<1>1. CASE dataPtr_ = 0
  BY <1>1, Nothing DEF Release
<1>2. CASE dataPtr_ # 0
  <2>1. ashmemFd_ > 0 \/ ashmemFd_ = 0
    BY <1>2, MaxFdAssumption DEF AshmemInv, DataInv, Fds
  <2>. QED BY <1>2, <2>1, Unmapping DEF Release
<1>. QED BY <1>1, <1>2

\* A new region gets the next number, and its descriptor a free one.
LEMMA MakingRegion ==
  ASSUME FdInv, AshmemTypeOK, NEW size \in Sizes, MakeRegion(size)
  PROVE  /\ FdInv' /\ KeepsKinds({"heap", "buffer"})
         /\ NewFd \in Fds /\ fdOwner[NewFd] = Free /\ fdOwner'[NewFd] = Region(NewRegion)
         /\ \A n \in Fds : n # NewFd => fdOwner'[n] = fdOwner[n]
         /\ regionSize' \in Seq(Sizes) /\ Len(regionSize') = NewRegion
         /\ NewRegion \notin Made /\ NewRegion # 0 /\ Made' = Made \cup {NewRegion}
         /\ regionSize'[NewRegion] = size
         /\ \A r \in Made : regionSize'[r] = regionSize[r]
<1>1. Len(regionSize) \in Nat /\ regionSize' = Append(regionSize, size)
  BY DEF AshmemTypeOK, MakeRegion
<1>2. /\ regionSize' \in Seq(Sizes) /\ Len(regionSize') = Len(regionSize) + 1
      /\ \A r \in 1..Len(regionSize) : regionSize'[r] = regionSize[r]
      /\ regionSize'[Len(regionSize) + 1] = size
  BY <1>1, AppendProperties DEF AshmemTypeOK
<1>3. /\ NewRegion \notin Made /\ NewRegion # 0 /\ Made' = Made \cup {NewRegion}
      /\ NewRegion \in Nat
  BY <1>1, <1>2 DEF Made, NewRegion
<1>4. Region(NewRegion) \in Owner /\ \A n \in Fds : fdOwner[n] # Region(NewRegion)
  BY <1>3, OwnerFacts DEF AshmemTypeOK
<1>5. /\ FdInv'
      /\ NewFd \in Fds /\ fdOwner[NewFd] = Free /\ fdOwner'[NewFd] = Region(NewRegion)
      /\ \A n \in Fds : n # NewFd => fdOwner'[n] = fdOwner[n]
  BY <1>4, Opening DEF MakeRegion
<1>6. KeepsKinds({"heap", "buffer"})
  BY <1>5, OwnerFacts DEF KeepsKinds
<1>. QED BY <1>2, <1>3, <1>5, <1>6 DEF Made, NewRegion

\* The steps of the object, one lemma each.  A constructor sets the fields.
LEMMA Constructs ==
  ASSUME FdInv, AshmemInv, Construct
  PROVE  FdInv' /\ AshmemInv' /\ KeepsKinds({"heap", "buffer"})
<1>1. /\ apc = "none" /\ apc' \in {"idle", "create"}
      /\ apc' = "create" => dataSizeInput_' \in Sizes
      /\ UNCHANGED <<fdOwner, badClose, ashmemFd_, dataPtr_, isChange_, fd,
                     regionSize, mapped, lent, offer, unmapFailed, badUnmap>>
  BY DEF Construct, fdVars, regions
<1>2. FdInv' /\ KeepsKinds({"heap", "buffer"})
  BY <1>1 DEF FdInv, KeepsKinds
<1>3. AshmemTypeOK'
  BY <1>1 DEF AshmemInv, AshmemTypeOK, Made
<1>4. DataInv' /\ CreatedInv' /\ OfferInv'
  BY <1>1 DEF AshmemInv, DataInv, CreatedInv, OfferInv, Open
<1>5. SizeInv'
  BY <1>1, Zenon DEF AshmemInv, SizeInv
<1>6. RestInv'
  BY <1>1 DEF AshmemInv, RestInv, Made, Open
<1>. QED BY <1>2, <1>3, <1>4, <1>5, <1>6 DEF AshmemInv

\* CreatePurgeableData gets a region, or goes without.
LEMMA Creates ==
  ASSUME FdInv, AshmemInv, AshmemCreate
  PROVE  FdInv' /\ AshmemInv' /\ KeepsKinds({"heap", "buffer"})
<1>1. /\ apc = "create"
      /\ UNCHANGED <<ashmemFd_, dataPtr_, dataSizeInput_, isChange_, mapped, lent, offer,
                     unmapFailed, badUnmap>>
  BY DEF AshmemCreate, fields
<1>2. CASE MakeRegion(dataSizeInput_) /\ fd' = NewFd /\ apc' = "created"
  <2>. DEFINE r == NewRegion
  <2>1. /\ FdInv' /\ KeepsKinds({"heap", "buffer"})
        /\ NewFd \in Fds /\ fdOwner[NewFd] = Free /\ fdOwner'[NewFd] = Region(r)
        /\ \A n \in Fds : n # NewFd => fdOwner'[n] = fdOwner[n]
        /\ regionSize' \in Seq(Sizes) /\ Len(regionSize') = r
        /\ r \notin Made /\ r # 0 /\ Made' = Made \cup {r}
        /\ regionSize'[r] = dataSizeInput_
        /\ \A q \in Made : regionSize'[q] = regionSize[q]
    BY <1>1, <1>2, MakingRegion DEF AshmemInv, AshmemTypeOK
  <2>2. \A n \in Fds : \A q : fdOwner[n] = Region(q) => fdOwner'[n] = Region(q)
    BY <2>1, OwnerFacts
  <2>3. AshmemTypeOK'
    BY <1>1, <1>2, <2>1, OwnerFacts DEF AshmemInv, AshmemTypeOK
  <2>4. DataInv' /\ OfferInv'
    BY <1>1, <1>2, <2>2 DEF AshmemInv, DataInv, OfferInv, Open
  <2>5. CreatedInv'
    BY <1>1, <1>2, <2>1 DEF AshmemInv, AshmemTypeOK, CreatedInv
  <2>6. SizeInv'
    BY <1>1, <1>2 DEF AshmemInv, SizeInv
  <2>7. RestInv'
    <3>1. \A q \in Made : Open(q)' => Open(q)
      BY <2>1, OwnerFacts DEF Open
    <3>2. 0 \in Fds
      BY MaxFdAssumption DEF Fds
    <3>3. unmapFailed' <=> unmapFailed
      BY <1>1
    <3>. QED BY <1>1, <1>2, <2>1, <2>2, <3>1, <3>2, <3>3 DEF AshmemInv, RestInv
  <2>. QED BY <2>1, <2>3, <2>4, <2>5, <2>6, <2>7 DEF AshmemInv
<1>3. CASE apc' = "idle" /\ UNCHANGED <<fdVars, fd, regionSize>>
  <2>1. FdInv' /\ KeepsKinds({"heap", "buffer"}) /\ UNCHANGED fdOwner
    BY <1>3 DEF FdInv, KeepsKinds, fdVars
  <2>2. AshmemTypeOK'
    BY <1>1, <1>3, <2>1 DEF AshmemInv, AshmemTypeOK, Made
  <2>3. DataInv' /\ CreatedInv' /\ OfferInv'
    BY <1>1, <1>3, <2>1 DEF AshmemInv, DataInv, CreatedInv, OfferInv, Open
  <2>4. SizeInv'
    BY <1>1, <1>3, Zenon DEF AshmemInv, SizeInv
  <2>5. RestInv'
    BY <1>1, <1>3, <2>1 DEF AshmemInv, RestInv, Made, Open
  <2>. QED BY <2>1, <2>2, <2>3, <2>4, <2>5 DEF AshmemInv
<1>. QED BY <1>2, <1>3 DEF AshmemCreate

\* CreatePurgeableData maps it, or closes it.
LEMMA CreatesData ==
  ASSUME FdInv, AshmemInv, CreatePurgeableData
  PROVE  FdInv' /\ AshmemInv' /\ KeepsKinds({"heap", "buffer"})
<1>. DEFINE r == Len(regionSize)
<1>1. /\ apc = "created" /\ apc' = "idle"
      /\ UNCHANGED <<dataSizeInput_, isChange_, regionSize, lent, offer, unmapFailed, badUnmap>>
  BY DEF CreatePurgeableData
<1>2. /\ r \in Made \ (mapped \cup lent \cup {dataPtr_, offer}) /\ r # 0
      /\ fd \in Fds /\ fdOwner[fd] = Region(r) /\ regionSize[r] = dataSizeInput_
  BY <1>1 DEF AshmemInv, CreatedInv, Made
<1>3. CreatedInv'
  BY <1>1 DEF CreatedInv
<1>4. unmapFailed \/ (badUnmap = FALSE /\ dataPtr_ = 0)
  BY <1>1 DEF AshmemInv, SizeInv
<1>5. CASE /\ CloseFd(fd, Region(r)) /\ UNCHANGED mapped
           /\ UNCHANGED <<ashmemFd_, dataPtr_>> \/ dataPtr_' = 0
  <2>1. /\ FdInv' /\ fdOwner'[fd] = Free
        /\ \A n \in Fds : n # fd => fdOwner'[n] = fdOwner[n]
    BY <1>2, <1>5, Closing
  <2>2. KeepsKinds({"heap", "buffer"})
    BY <1>2, <2>1, OwnerFacts DEF KeepsKinds
  <2>3. \A n \in Fds : \A q : q # r /\ fdOwner[n] = Region(q) => fdOwner'[n] = Region(q)
    BY <1>2, <2>1, OwnerFacts
  <2>4. \A n \in Fds : fdOwner'[n] # Region(r)
    BY <1>2, <2>1, OwnerFacts DEF FdInv
  <2>5. \A n \in Fds : \A q : fdOwner'[n] = Region(q) => fdOwner[n] = Region(q)
    BY <2>1, OwnerFacts
  <2>6. AshmemTypeOK'
    BY <1>1, <1>5, <2>1, OwnerFacts DEF AshmemInv, AshmemTypeOK, Made
  <2>7. DataInv'
    BY <1>1, <1>2, <1>5, <2>3 DEF AshmemInv, DataInv
  <2>8. OfferInv'
    BY <1>1, <1>2, <1>5, <2>3 DEF AshmemInv, OfferInv, Open
  <2>9. SizeInv'
    <3>1. unmapFailed' \/ (badUnmap' = FALSE /\ dataPtr_' = 0)
      BY <1>1, <1>4, <1>5, Zenon
    <3>. QED BY <1>1, <3>1 DEF SizeInv
  <2>10. RestInv'
    <3>1. unmapFailed' <=> unmapFailed
      BY <1>1
    <3>2. 0 \in Fds
      BY MaxFdAssumption DEF Fds
    <3>3. \A q \in Made \ lent : Open(q)' => Open(q) /\ q # r
      BY <2>4, <2>5 DEF Open
    <3>. QED BY <1>1, <1>2, <1>4, <1>5, <2>3, <3>1, <3>2, <3>3 DEF AshmemInv, RestInv, Made
  <2>. QED BY <1>3, <2>1, <2>2, <2>6, <2>7, <2>8, <2>9, <2>10 DEF AshmemInv
<1>6. CASE /\ ashmemFd_' = fd /\ dataPtr_' = r /\ mapped' = mapped \cup {r}
           /\ UNCHANGED fdVars
  <2>1. FdInv' /\ KeepsKinds({"heap", "buffer"}) /\ UNCHANGED fdOwner
    BY <1>6 DEF FdInv, KeepsKinds, fdVars
  <2>2. AshmemTypeOK'
    BY <1>1, <1>2, <1>6, <2>1 DEF AshmemInv, AshmemTypeOK, Made
  <2>3. DataInv' /\ OfferInv'
    BY <1>1, <1>2, <1>6, <2>1 DEF AshmemInv, DataInv, OfferInv, Open
  <2>4. SizeInv'
    <3>1. unmapFailed' \/ badUnmap' = FALSE
      BY <1>1, <1>4, Zenon
    <3>. QED BY <1>1, <1>2, <1>6, <3>1 DEF SizeInv
  <2>5. RestInv'
    <3>1. unmapFailed' <=> unmapFailed
      BY <1>1
    <3>. QED BY <1>1, <1>2, <1>4, <1>6, <2>1, <3>1 DEF AshmemInv, RestInv, Made, Open
  <2>. QED BY <1>3, <2>1, <2>2, <2>3, <2>4, <2>5 DEF AshmemInv
<1>. QED BY <1>5, <1>6 DEF CreatePurgeableData

\* What a release leaves of the regions: the others as they were, and the data
\* not at all unless a munmap failed or its descriptor is 0.
LEMMA ReleaseFacts ==
  ASSUME FdInv, AshmemInv, Released, UNCHANGED regionSize
  PROVE  /\ FdInv' /\ KeepsKinds({"heap", "buffer"})
         /\ \A n \in Fds : fdOwner'[n].kind = "region" => fdOwner'[n].id \in Made'
         /\ mapped' \in SUBSET Made'
         /\ \A n \in Fds : \A q : q # dataPtr_ /\ fdOwner[n] = Region(q) => fdOwner'[n] = Region(q)
         /\ \A q : Open(q)' => Open(q)
         /\ \A q : q # dataPtr_ /\ Open(q) => Open(q)'
         /\ unmapFailed' \/
              /\ ~unmapFailed
              /\ dataPtr_ # 0 => /\ dataPtr_ \notin mapped'
                                 /\ fdOwner'[0] = Region(dataPtr_) \/ (\A n \in Fds : fdOwner'[n] # Region(dataPtr_))
<1>1. FdInv' /\ KeepsKinds({"heap", "buffer"})
  BY DEF Released
<1>2. \A n \in Fds : fdOwner'[n].kind = "region" => fdOwner'[n].id \in Made'
  BY OwnerFacts DEF AshmemInv, AshmemTypeOK, Released, Made
<1>3. mapped' \in SUBSET Made'
  BY DEF AshmemInv, AshmemTypeOK, Released, Made
<1>4. \A n \in Fds : \A q : q # dataPtr_ /\ fdOwner[n] = Region(q) => fdOwner'[n] = Region(q)
  BY OwnerFacts DEF Released
<1>5. \A n \in Fds : \A q : fdOwner'[n] = Region(q) => fdOwner[n] = Region(q)
  BY OwnerFacts DEF Released
<1>6. /\ \A q : Open(q)' => Open(q)
      /\ \A q : q # dataPtr_ /\ Open(q) => Open(q)'
  BY <1>4, <1>5 DEF Open
<1>7. unmapFailed' \/
        /\ ~unmapFailed
        /\ dataPtr_ # 0 => /\ dataPtr_ \notin mapped'
                           /\ fdOwner'[0] = Region(dataPtr_) \/ (\A n \in Fds : fdOwner'[n] # Region(dataPtr_))
  <2>1. unmapFailed' \/ ~unmapFailed
    BY Zenon DEF Released
  <2>2. unmapFailed' \/ (dataPtr_ # 0 => /\ dataPtr_ \notin mapped'
                                         /\ fdOwner'[0] = Region(dataPtr_) \/ (\A n \in Fds : fdOwner'[n] # Region(dataPtr_)))
    BY DEF Released
  <2>. QED BY <2>1, <2>2, Zenon
<1>. QED BY <1>1, <1>2, <1>3, <1>4, <1>6, <1>7

\* After a release nothing but descriptor 0 is left of the object.
LEMMA RestReleased ==
  ASSUME FdInv, AshmemInv, apc = "idle", Released, UNCHANGED regionSize,
         ~unmapFailed', NEW q \in Made \ lent, q \in mapped' \/ Open(q)'
  PROVE  fdOwner'[0] = Region(q)
<1>1. /\ ~unmapFailed /\ (Open(q)' => Open(q))
      /\ \A n \in Fds : q # dataPtr_ /\ fdOwner[n] = Region(q) => fdOwner'[n] = Region(q)
      /\ dataPtr_ # 0 => /\ dataPtr_ \notin mapped'
                         /\ \/ fdOwner'[0] = Region(dataPtr_)
                            \/ \A n \in Fds : fdOwner'[n] # Region(dataPtr_)
  BY ReleaseFacts
<1>2. q \in mapped \/ Open(q)
  BY <1>1 DEF Released
<1>3. fdOwner[0] = Region(q) \/ q = dataPtr_
  BY <1>1, <1>2 DEF AshmemInv, RestInv
<1>4. q # 0 /\ 0 \in Fds
  BY MaxFdAssumption DEF Made, Fds
<1>. QED BY <1>1, <1>3, <1>4 DEF Open

\* ResizeData releases the data, then changes the size and makes the new one.
LEMMA Resizes ==
  ASSUME FdInv, AshmemInv, NEW size \in Sizes, ResizeData(size)
  PROVE  FdInv' /\ AshmemInv' /\ KeepsKinds({"heap", "buffer"})
<1>1. /\ apc = "idle" /\ apc' = "create" /\ dataSizeInput_' = size
      /\ dataPtr_' = IF dataPtr_ \in mapped' THEN dataPtr_ ELSE 0
      /\ UNCHANGED <<ashmemFd_, isChange_, fd, regionSize, lent, offer>>
      /\ Released
  BY Releasing DEF ResizeData
<1>2. /\ FdInv' /\ KeepsKinds({"heap", "buffer"})
      /\ \A n \in Fds : fdOwner'[n].kind = "region" => fdOwner'[n].id \in Made'
      /\ mapped' \in SUBSET Made'
      /\ \A n \in Fds : \A q : q # dataPtr_ /\ fdOwner[n] = Region(q) => fdOwner'[n] = Region(q)
      /\ \A q : Open(q)' => Open(q)
      /\ \A q : q # dataPtr_ /\ Open(q) => Open(q)'
      /\ unmapFailed' \/
           /\ ~unmapFailed
           /\ dataPtr_ # 0 => /\ dataPtr_ \notin mapped'
                              /\ fdOwner'[0] = Region(dataPtr_) \/ (\A n \in Fds : fdOwner'[n] # Region(dataPtr_))
  BY <1>1, ReleaseFacts
<1>3. AshmemTypeOK'
  BY <1>1, <1>2 DEF AshmemInv, AshmemTypeOK, Made
<1>4. DataInv'
  BY <1>1, <1>2 DEF AshmemInv, DataInv, Released
<1>5. OfferInv'
  BY <1>1, <1>2 DEF AshmemInv, OfferInv, Released
<1>6. CreatedInv'
  BY <1>1 DEF CreatedInv
<1>7. SizeInv'
  <2>1. unmapFailed' \/ (badUnmap' = FALSE /\ dataPtr_' = 0)
    BY <1>1 DEF Released, AshmemInv, AshmemTypeOK, Made
  <2>. QED BY <1>1, <2>1 DEF SizeInv
<1>8. RestInv'
  BY <1>1, RestReleased DEF RestInv, Made
<1>. QED BY <1>2, <1>3, <1>4, <1>5, <1>6, <1>7, <1>8 DEF AshmemInv

\* A client makes a region that it is going to lend.
LEMMA Lends ==
  ASSUME FdInv, AshmemInv, ClientCreates
  PROVE  FdInv' /\ AshmemInv' /\ KeepsKinds({"heap", "buffer"})
<1>. DEFINE r == NewRegion
<1>1. /\ apc = "idle" /\ mapped' = mapped \cup {r} /\ lent' = lent \cup {r} /\ offer' = r
      /\ UNCHANGED <<apc, ashmemFd_, dataPtr_, dataSizeInput_, isChange_, fd, unmapFailed, badUnmap>>
  BY DEF ClientCreates, fields
<1>2. /\ FdInv' /\ KeepsKinds({"heap", "buffer"})
      /\ NewFd \in Fds /\ fdOwner[NewFd] = Free /\ fdOwner'[NewFd] = Region(r)
      /\ \A n \in Fds : n # NewFd => fdOwner'[n] = fdOwner[n]
      /\ regionSize' \in Seq(Sizes) /\ Len(regionSize') = r
      /\ r \notin Made /\ r # 0 /\ Made' = Made \cup {r}
      /\ \A q \in Made : regionSize'[q] = regionSize[q]
  BY MakingRegion DEF ClientCreates, AshmemInv
<1>3. \A n \in Fds : \A q : fdOwner[n] = Region(q) => fdOwner'[n] = Region(q)
  BY <1>2, OwnerFacts
<1>4. AshmemTypeOK'
  <2>1. \A n \in Fds : fdOwner'[n].kind = "region" => fdOwner'[n].id \in Made'
    <3>. SUFFICES ASSUME NEW n \in Fds, fdOwner'[n].kind = "region" PROVE fdOwner'[n].id \in Made'
      OBVIOUS
    <3>1. CASE n = NewFd
      BY <1>2, <3>1, OwnerFacts
    <3>2. CASE n # NewFd
      <4>1. fdOwner'[n] = fdOwner[n] /\ fdOwner[n].id \in Made
        BY <1>2, <3>2, Zenon DEF AshmemInv, AshmemTypeOK
      <4>. QED BY <1>2, <4>1
    <3>. QED BY <3>1, <3>2
  <2>. QED BY <1>1, <1>2, <2>1 DEF AshmemInv, AshmemTypeOK
<1>5. DataInv'
  BY <1>1, <1>3 DEF AshmemInv, DataInv
<1>6. OfferInv'
  BY <1>1, <1>2 DEF AshmemInv, AshmemTypeOK, OfferInv, Open
<1>7. CreatedInv'
  BY <1>1 DEF CreatedInv
<1>8. unmapFailed' <=> unmapFailed
  BY <1>1
<1>9. SizeInv'
  <2>1. unmapFailed' \/ badUnmap' = FALSE
    BY <1>1, Zenon DEF AshmemInv, SizeInv
  <2>. QED BY <1>1, <1>2, <1>8, <2>1 DEF AshmemInv, AshmemTypeOK, SizeInv
<1>10. RestInv'
  <2>1. ASSUME NEW q \in Made, NEW n \in Fds, fdOwner'[n] = Region(q)
        PROVE  fdOwner[n] = Region(q)
    <3>1. Region(q) # Region(r)
      <4>1. q # r
        BY <1>2
      <4>2. Region(q).id = q /\ Region(r).id = r
        BY DEF Region
      <4>. QED BY <4>1, <4>2, Zenon
    <3>. QED BY <1>2, <2>1, <3>1, Zenon
  <2>2. \A q \in Made : Open(q)' => Open(q)
    BY <2>1, Zenon DEF Open
  <2>3. 0 \in Fds
    BY MaxFdAssumption DEF Fds
  <2>. QED BY <1>1, <1>2, <1>3, <1>8, <2>2, <2>3 DEF AshmemInv, RestInv
<1>. QED BY <1>2, <1>4, <1>5, <1>6, <1>7, <1>9, <1>10 DEF AshmemInv

\* The descriptor of an open region.
LEMMA FdOfOpen ==
  ASSUME NEW r, Open(r)
  PROVE  FdOf(r) \in Fds /\ fdOwner[FdOf(r)] = Region(r)
BY DEF Open, FdOf

\* ChangeAshmemData releases the data and takes the region that is lent.
LEMMA Changes ==
  ASSUME FdInv, AshmemInv, ChangeAshmemData
  PROVE  FdInv' /\ AshmemInv' /\ KeepsKinds({"heap", "buffer"})
<1>1. /\ apc = "idle" /\ offer # 0 /\ dataSizeInput_' = regionSize[offer]
      /\ ashmemFd_' = FdOf(offer) /\ dataPtr_' = offer /\ offer' = 0
      /\ UNCHANGED <<apc, fd, regionSize, lent>>
      /\ Released
  BY Releasing DEF ChangeAshmemData
<1>2. offer \in lent \cap mapped /\ offer # dataPtr_ /\ Open(offer)
  BY <1>1 DEF AshmemInv, OfferInv
<1>3. FdOf(offer) \in Fds /\ fdOwner[FdOf(offer)] = Region(offer)
  BY <1>2, FdOfOpen
<1>4. /\ FdInv' /\ KeepsKinds({"heap", "buffer"})
      /\ \A n \in Fds : fdOwner'[n].kind = "region" => fdOwner'[n].id \in Made'
      /\ mapped' \in SUBSET Made'
      /\ \A n \in Fds : \A q : q # dataPtr_ /\ fdOwner[n] = Region(q) => fdOwner'[n] = Region(q)
  BY <1>1, ReleaseFacts
<1>5. AshmemTypeOK'
  BY <1>1, <1>4 DEF AshmemInv, AshmemTypeOK, Made
<1>6. DataInv'
  BY <1>1, <1>2, <1>3, <1>4 DEF DataInv, Released
<1>7. OfferInv' /\ CreatedInv'
  BY <1>1 DEF OfferInv, CreatedInv
<1>8. SizeInv'
  BY <1>1 DEF SizeInv, Released
<1>9. RestInv'
  BY <1>1, RestReleased DEF RestInv, Made
<1>. QED BY <1>4, <1>5, <1>6, <1>7, <1>8, <1>9 DEF AshmemInv

\* The destructor releases the data, unless it was ever changed.
LEMMA Destructs ==
  ASSUME FdInv, AshmemInv, Destruct
  PROVE  FdInv' /\ AshmemInv' /\ KeepsKinds({"heap", "buffer"})
<1>1. /\ apc = "idle" /\ apc' = "gone"
      /\ UNCHANGED <<dataPtr_, isChange_, regionSize, lent, offer>>
  BY DEF Destruct, fields
<1>2. DataInv' /\ OfferInv' /\ CreatedInv'
  BY <1>1 DEF DataInv, OfferInv, CreatedInv
<1>3. CASE dataPtr_ # 0 /\ Unmap(dataSizeInput_, TRUE)
  <2>1. Released
    BY <1>1, <1>3, Unmapping
  <2>2. /\ FdInv' /\ KeepsKinds({"heap", "buffer"})
        /\ \A n \in Fds : fdOwner'[n].kind = "region" => fdOwner'[n].id \in Made'
        /\ mapped' \in SUBSET Made'
    BY <1>1, <2>1, ReleaseFacts
  <2>3. AshmemTypeOK'
    BY <1>1, <2>2 DEF AshmemInv, AshmemTypeOK, Made
  <2>4. SizeInv'
    BY <1>1, <2>1 DEF SizeInv, Released
  <2>5. RestInv'
    BY <1>1, <2>1, RestReleased DEF RestInv, Made
  <2>. QED BY <1>2, <2>2, <2>3, <2>4, <2>5 DEF AshmemInv
<1>4. CASE isChange_ \/ dataPtr_ = 0
  <2>1. UNCHANGED <<fdOwner, badClose, mapped>> /\ UNCHANGED <<unmapFailed, badUnmap>>
    BY <1>4 DEF Destruct, fdVars
  <2>2. FdInv' /\ KeepsKinds({"heap", "buffer"})
    BY <2>1 DEF FdInv, KeepsKinds
  <2>3. AshmemTypeOK'
    BY <1>1, <2>1 DEF AshmemInv, AshmemTypeOK, Made
  <2>4. SizeInv'
    <3>1. unmapFailed' \/ badUnmap' = FALSE
      BY <2>1, Zenon DEF AshmemInv, SizeInv
    <3>. QED BY <1>1, <3>1 DEF SizeInv
  <2>5. RestInv'
    <3>1. (unmapFailed' <=> unmapFailed) /\ (isChange_' <=> isChange_)
      BY <1>1, <2>1
    <3>. QED BY <1>1, <1>4, <2>1, <3>1 DEF AshmemInv, RestInv, Made, Open
  <2>. QED BY <1>2, <2>2, <2>3, <2>4, <2>5 DEF AshmemInv
<1>. QED BY <1>3, <1>4 DEF Destruct

\* The client closes what it lent, if the object has not.
LEMMA ClientTakesBack ==
  ASSUME FdInv, AshmemInv, ClientCloses
  PROVE  FdInv' /\ AshmemInv' /\ KeepsKinds({"heap", "buffer"})
<1>1. /\ apc = "gone"
      /\ UNCHANGED <<apc, dataPtr_, isChange_, regionSize, lent, offer>>
      /\ UNCHANGED <<unmapFailed, badUnmap>>
  BY DEF ClientCloses, fields
<1>2. PICK r \in lent \cap mapped :
        /\ mapped' = mapped \ {r}
        /\ IF Open(r) THEN CloseFd(FdOf(r), Region(r)) ELSE UNCHANGED fdVars
  BY DEF ClientCloses, Open
<1>3. /\ FdInv'
      /\ \A n \in Fds : fdOwner'[n] = fdOwner[n] \/ (fdOwner[n] = Region(r) /\ fdOwner'[n] = Free)
  <2>1. CASE Open(r)
    <3>1. FdOf(r) \in Fds /\ fdOwner[FdOf(r)] = Region(r)
      BY <2>1, FdOfOpen
    <3>. QED BY <1>2, <2>1, <3>1, Closing
  <2>2. CASE ~Open(r)
    BY <1>2, <2>2 DEF FdInv, fdVars
  <2>. QED BY <2>1, <2>2
<1>4. KeepsKinds({"heap", "buffer"})
  BY <1>3, OwnerFacts DEF KeepsKinds
<1>5. AshmemTypeOK'
  BY <1>1, <1>2, <1>3, OwnerFacts DEF AshmemInv, AshmemTypeOK, Made
<1>6. DataInv' /\ OfferInv' /\ CreatedInv'
  BY <1>1 DEF DataInv, OfferInv, CreatedInv
<1>7. SizeInv'
  <2>1. unmapFailed' \/ badUnmap' = FALSE
    BY <1>1, Zenon DEF AshmemInv, SizeInv
  <2>. QED BY <1>1, <2>1 DEF SizeInv
<1>8. RestInv'
  <2>1. (unmapFailed' <=> unmapFailed) /\ (isChange_' <=> isChange_)
    BY <1>1
  <2>2. 0 \in Fds
    BY MaxFdAssumption DEF Fds
  <2>3. \A q : q # r => (Open(q)' <=> Open(q)) /\ (fdOwner'[0] = Region(q) <=> fdOwner[0] = Region(q))
    BY <1>3, <2>2, OwnerFacts DEF Open
  <2>4. ASSUME ~unmapFailed', NEW q \in Made \ lent, q \in mapped' \/ Open(q)'
        PROVE  fdOwner'[0] = Region(q) \/ (q = dataPtr_ /\ isChange_)
    BY <1>1, <1>2, <2>1, <2>3, <2>4 DEF AshmemInv, RestInv
  <2>. QED BY <1>1, <2>1, <2>4 DEF RestInv, Made
<1>. QED BY <1>3, <1>4, <1>5, <1>6, <1>7, <1>8 DEF AshmemInv

\* The object keeps its invariant, the heaps and the buffers.
LEMMA AshmemSteps ==
  ASSUME FdInv, AshmemInv, AshmemNext
  PROVE  FdInv' /\ AshmemInv' /\ KeepsKinds({"heap", "buffer"})
BY Constructs, Creates, CreatesData, Resizes, Lends, Changes, Destructs, ClientTakesBack
   DEF AshmemNext

\* Nothing is open at first.
LEMMA DescStart ==
  ASSUME DescInit
  PROVE  DescInv
<1>1. FdInv
  BY OwnerFacts DEF DescInit, FdInit, FdInv
<1>2. HeapInv
  <2>1. 0 \in Fds
    BY MaxFdAssumption DEF Fds
  <2>2. \A n \in Fds : fdOwner[n] = Free /\ fdOwner[n] # Heap /\ fdOwner[n].kind # "buffer"
    BY DEF DescInit, FdInit, Free, Heap
  <2>3. HeapTypeOK
    BY <2>1 DEF DescInit, HeapInit, HeapTypeOK
  <2>4. \A t \in HeapThreads : ~Heaping(t) /\ ~Buffering(t)
    BY DEF DescInit, HeapInit, Heaping, Buffering
  <2>5. heapFds = {} /\ tracedBuffers = {}
    BY DEF DescInit, HeapInit
  <2>6. HeapsInv
    BY <2>2, <2>4, <2>5 DEF HeapsInv
  <2>7. BuffersInv
    BY <2>2, <2>4, <2>5 DEF BuffersInv
  <2>. QED BY <2>3, <2>6, <2>7 DEF HeapInv
<1>3. AshmemInv
  BY <1>1 DEF DescInit, FdInit, AshmemInit, AshmemInv, AshmemTypeOK, DataInv, OfferInv, CreatedInv,
              SizeInv, RestInv, Made, Open, Free, Region
<1>. QED BY <1>1, <1>2, <1>3 DEF DescInv

(***************************************************************************)
(* Whatever the threads of the heap library and the ashmem object do on    *)
(* their common descriptor table, DescInv holds: a buffer or region has    *)
(* one descriptor, each side finds its own where it believes them to be.   *)
(***************************************************************************)
THEOREM DescriptorsInvariant == DescSpec => []DescInv
<1>1. DescInit => DescInv
  BY DescStart
<1>2. DescInv /\ [DescNext]_descVars => DescInv'
  <2>. SUFFICES ASSUME DescInv, [DescNext]_descVars
                PROVE  DescInv'
    OBVIOUS
  <2>1. CASE AshmemNext /\ UNCHANGED heapVars
    BY <2>1, AshmemSteps, HeapFrame DEF DescInv
  <2>2. CASE HeapNext /\ UNCHANGED ashmemVars
    BY <2>2, HeapSteps, AshmemFrame DEF DescInv
  <2>3. CASE UNCHANGED descVars
    <3>1. UNCHANGED <<fdVars, ashmemVars, heapVars>>
      BY <2>3 DEF descVars
    <3>2. FdInv' /\ KeepsKinds({"heap", "buffer"}) /\ KeepsKinds({"region"})
      BY <3>1 DEF DescInv, FdInv, KeepsKinds, fdVars
    <3>. QED BY <3>1, <3>2, HeapFrame, AshmemFrame DEF DescInv
  <2>. QED BY <2>1, <2>2, <2>3 DEF DescNext
<1>. QED BY <1>1, <1>2, PTL DEF DescSpec

(* No close of the heap library or of an ashmem object, on whatever path     *)
(* after whatever failure, meets a number that is free or someone else's.    *)
THEOREM NoForeignCloseCorrect == DescSpec => []NoForeignClose
<1>1. DescInv => NoForeignClose
  BY DEF DescInv, FdInv, NoForeignClose
<1>. QED BY <1>1, DescriptorsInvariant, PTL

(* The tracer never reports a heap or a buffer that is closed, and misses an *)
(* open one only inside the call that opens or closes it, for any number of  *)
(* threads.                                                                  *)
THEOREM TraceMatchesCorrect == DescSpec => []TraceMatches
<1>1. DescInv => TraceMatches
  <2>. SUFFICES ASSUME DescInv PROVE TraceMatches
    OBVIOUS
  <2>. DEFINE open(kind) == {n \in Fds : fdOwner[n].kind = kind}
              buffers == {fdOwner[n].id : n \in open("buffer")}
              within(pcs) == {darg[t] : t \in {u \in HeapThreads : dpc[u] \in pcs}}
  <2>0. FdInv /\ HeapInv
    BY DEF DescInv
  <2>1. \A n \in Fds : fdOwner[n].kind = "heap" <=> fdOwner[n] = Heap
    BY <2>0, OwnerFacts DEF FdInv
  <2>2. tracedFds \subseteq open("heap")
    BY <2>0, <2>1 DEF HeapInv, HeapTypeOK, HeapsInv
  <2>3. open("heap") \subseteq tracedFds \cup within({"opened", "closing"})
    <3>1. ASSUME NEW n \in Fds, fdOwner[n].kind = "heap"
          PROVE  n \in tracedFds \/ \E t \in HeapThreads : Heaping(t) /\ darg[t] = n
      <4>1. fdOwner[n] = Heap
        BY <2>1, <3>1, Zenon
      <4>. QED BY <2>0, <4>1, Zenon DEF HeapInv, HeapTypeOK, HeapsInv
    <3>2. ASSUME NEW t \in HeapThreads, Heaping(t)
          PROVE  darg[t] \in within({"opened", "closing"})
      BY <3>2, Zenon DEF Heaping
    <3>. QED BY <3>1, <3>2, Zenon
  <2>4. tracedBuffers \subseteq buffers
    <3>1. ASSUME NEW b \in tracedBuffers
          PROVE  b \in buffers
      <4>1. bufferFd[b] \in Fds /\ fdOwner[bufferFd[b]] = Buffer(b)
        BY <2>0, <3>1 DEF HeapInv, HeapTypeOK, BuffersInv
      <4>2. Buffer(b).kind = "buffer" /\ Buffer(b).id = b
        BY DEF Buffer
      <4>3. fdOwner[bufferFd[b]].kind = "buffer" /\ fdOwner[bufferFd[b]].id = b
        BY <4>1, <4>2, Zenon
      <4>. QED BY <4>1, <4>3
    <3>. QED BY <3>1
  <2>5. buffers \subseteq tracedBuffers \cup within({"allocated", "freeing"})
    <3>1. ASSUME NEW t \in HeapThreads, Buffering(t)
          PROVE  darg[t] \in within({"allocated", "freeing"})
      BY <3>1, Zenon DEF Buffering
    <3>2. ASSUME NEW n \in Fds, fdOwner[n].kind = "buffer"
          PROVE  fdOwner[n].id \in tracedBuffers \cup within({"allocated", "freeing"})
      BY <2>0, <3>1, <3>2, BufferHeld, Zenon
    <3>. HIDE DEF within
    <3>. QED BY <3>2
  <2>. QED BY <2>2, <2>3, <2>4, <2>5 DEF TraceMatches
<1>. QED BY <1>1, DescriptorsInvariant, PTL

(* While dataPtr_ is set ashmemFd_ is the descriptor of the region that it   *)
(* maps, whatever calls of CreatePurgeableData, ResizeData and               *)
(* ChangeAshmemData have failed.                                             *)
THEOREM FdBacksDataCorrect == DescSpec => []FdBacksData
<1>1. DescInv => FdBacksData
  BY DEF DescInv, AshmemInv, DataInv, FdBacksData
<1>. QED BY <1>1, DescriptorsInvariant, PTL

(* ResizeData, ChangeAshmemData and the destructor unmap the whole mapping   *)
(* as long as no munmap has failed.                                          *)
THEOREM UnmapsWholeCorrect == DescSpec => []UnmapsWhole
<1>1. DescInv => UnmapsWhole
  BY Zenon DEF DescInv, AshmemInv, SizeInv, UnmapsWhole
<1>. QED BY <1>1, DescriptorsInvariant, PTL

(* After the destructor nothing of the object is open or mapped, except in   *)
(* the three cases that NothingOutlives names.                               *)
THEOREM NothingOutlivesCorrect == DescSpec => []NothingOutlives
<1>1. DescInv => NothingOutlives
  BY DEF DescInv, AshmemInv, RestInv, NothingOutlives, Made, Open
<1>. QED BY <1>1, DescriptorsInvariant, PTL
===============================================================================
