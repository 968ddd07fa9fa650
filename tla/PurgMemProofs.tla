---------------------------- MODULE PurgMemProofs ----------------------------
(***************************************************************************)
(* Proofs about PurgMem, for any number of threads and pages, any length   *)
(* of the builder chain and any width of the counters, provided that no    *)
(* thread sees the reclaim marker.  They rest on PinInv of                 *)
(* UxPageTableProofs: the object is shown to use the table as UptSpec      *)
(* allows, which gives PinInv for it.                                      *)
(***************************************************************************)
EXTENDS PurgMem, UxPageTableProofs

------------------------------------------------------------------------------
(* The inductive invariant. *)

Scanning == {"tryScan", "rebuildScan", "writeScan"}
RdLocked == {"tryScan", "reading"}
WrLocked == {"rebuildScan", "rebuild", "failUnlock", "writeScan", "writeBuild", "writing"}

\* The rwlock is held by the threads whose position says so.
LockOK ==
  /\ rdHolders = {t \in Threads : pc[t] \in RdLocked}
  /\ wrHolders = {t \in Threads : pc[t] \in WrLocked}
  /\ \A t, u \in wrHolders : t = u
  /\ wrHolders # {} => rdHolders = {}

\* What a thread's position in a call says of its table operation and of the
\* pages it has pinned, where the kernel supports pinning.
CallOK(t) ==
  /\ pc[t] = "idle" => upc[t] = "idle" /\ pinned[t] = {}
  /\ pc[t] \in {"try", "writeLock"} =>
       upc[t] \in {"getLoad", "getCAS"} \/ (upc[t] = "idle" /\ pinned[t] = Page)
  /\ pc[t] \in Scanning => upc[t] \in {"idle", "isPresent"} /\ pinned[t] = Page
  /\ pc[t] \in {"rebuildLock", "rebuild", "reading", "writeBuild", "writing", "failUnlock"} =>
       upc[t] = "idle" /\ pinned[t] = Page
  /\ pc[t] \in {"failPut", "endPut"} =>
       upc[t] \in {"putLoad", "putCAS"} \/ (upc[t] = "idle" /\ pinned[t] = {})

\* A presence query under way has found frames behind its cursor, and one that
\* answered yes has found them everywhere: being pinned they are still there.
ScanOK(t) ==
  pc[t] \in Scanning =>
    /\ upc[t] = "isPresent" => 1..(off[t] - 1) \subseteq resident
    /\ upc[t] = "idle" /\ present[t] /\ buildDataCount # 0 => resident = Page

\* No frame is missing during an access or once a rebuild has begun to write.
FramesOK ==
  /\ ~g_supportUxpt => resident = Page
  /\ \A t \in Threads : Inside(t) => resident = Page
  /\ nextBuilder # 0 => resident = Page /\ \E t \in Threads : Building(t)

ObjInv ==
  /\ PinInv
  /\ PurgMemTypeOK
  /\ LockOK
  /\ g_supportUxpt => \A t \in Threads : CallOK(t)
  /\ \A t \in Threads : ScanOK(t)
  /\ FramesOK

\* A page with a frame holds the whole chain, except during a rebuild, when all
\* pages hold the builders that have run.
ContentOK ==
  /\ nextBuilder = 0 => \A p \in resident : content[p] = nBuilders
  /\ nextBuilder # 0 => /\ nextBuilder <= nBuilders + 1
                        /\ \A p \in Page : content[p] = nextBuilder - 1

\* The invariant of an object whose builders and appends do not fail: lock,
\* pins, queries under way, frames and content fit together in every state.
PurgMemInv == ObjInv /\ ContentOK

------------------------------------------------------------------------------
(* The object uses the page table as its specification allows. *)

\* A Put is called by a thread that holds every page; without support it does
\* nothing.
LEMMA PutAllowed ==
  ASSUME ObjInv, NEW t \in Threads, UxptePut(t),
         pc[t] \in {"try", "rebuildLock", "writeLock", "failUnlock", "reading", "writing"}
  PROVE  UptThread(t) \/ UNCHANGED uptVars
<1>1. CASE g_supportUxpt
  <2>1. pinned[t] = Page
    BY <1>1 DEF ObjInv, CallOK, UxptePut
  <2> QED
    BY <2>1 DEF UptThread
<1>2. CASE ~g_supportUxpt
  BY <1>2 DEF UxptePut
<1> QED
  BY <1>1, <1>2

\* The table's part of a thread's step: a step of its own table operation, which
\* moves no frame, or a write to all pages, which moves no operation.
LEMMA ThreadTable ==
  ASSUME ObjInv, NEW t \in Threads, ThreadStep(t)
  PROVE  UptThread(t) \/ UNCHANGED uptVars \/ FaultIn
<1>1. CASE BeginAccess(t)
  <2>1. pc[t] = "idle" /\ UxpteGet(t)
    BY <1>1 DEF BeginAccess, PurgMemBeginRead, PurgMemBeginWrite
  <2>2. pinned[t] = {}
    BY <2>1 DEF ObjInv, CallOK, PinInv
  <2> QED
    BY <2>1, <2>2 DEF UptThread
<1>2. CASE Continue(t)
  <2>1. CASE UxptePut(t) /\ pc[t] \in {"try", "rebuildLock", "writeLock", "failUnlock", "reading", "writing"}
    BY <2>1, PutAllowed
  <2>2. CASE UptStep(t) \/ UxpteIsPresent(t)
    BY <2>2 DEF UptStep, UptThread
  <2> QED
    BY <1>2, <2>1, <2>2
       DEF Continue, TryBeginRead, TryBeginReadDone, BeginReadBuildData, BeginReadRecheck,
           BeginWriteLock, BeginWriteCheck, BuildMemset, BuildOne, BuildFails, BuildDone,
           FailUnlock, FailPut, EndAccessPurgMem, PutReturns, IsPurgedStart, At
<1>3. CASE PurgMemAppendModify(t)
  BY <1>3 DEF PurgMemAppendModify
<1> QED
  BY <1>1, <1>2, <1>3 DEF ThreadStep

\* Every step of the object is a step of the table or leaves it alone.
LEMMA TableStep ==
  ASSUME ObjInv, [Next]_vars
  PROVE  [UptNext]_uptVars
<1>1. ASSUME NEW t \in Threads, ThreadStep(t) PROVE [UptNext]_uptVars
  BY <1>1, ThreadTable DEF ThreadStep, UptNext
<1>2. ASSUME NEW p \in Page, KernelReclaim(p) PROVE [UptNext]_uptVars
  BY <1>2 DEF KernelReclaim, UptNext
<1>3. CASE UNCHANGED vars
  BY <1>3 DEF vars
<1> QED
  BY <1>1, <1>2, <1>3 DEF Next

------------------------------------------------------------------------------
(* What a step leaves alone. *)

\* A step of one thread does not move another.
Others(t) ==
  \A u \in Threads \ {t} :
    UNCHANGED <<pc[u], upc[u], off[u], present[u], pinned[u]>>

\* A table operation moves its own thread and no frame.
LEMMA OpsFrame ==
  ASSUME TypeOK, NEW t \in Threads, UptThread(t) \/ UNCHANGED uptVars
  PROVE  /\ UNCHANGED <<g_supportUxpt, resident, reclaiming>>
         /\ \A u \in Threads \ {t} : UNCHANGED <<upc[u], off[u], present[u], pinned[u]>>
<1>1. CASE UxpteGet(t) \/ UxptePut(t) \/ UxpteIsPresent(t)
  BY <1>1 DEF TypeOK, UxpteGet, UxptePut, UxpteIsPresent, StartOps, uptVars, callVars, kernelVars
<1>2. CASE UxpteAddLoad(t) \/ UxpteAddCAS(t)
  BY <1>2 DEF TypeOK, UxpteAddLoad, UxpteAddCAS, GetUxpteAtDone, NextPage, kernelVars
<1>3. CASE UxpteSubLoad(t) \/ UxpteSubCAS(t)
  BY <1>3 DEF TypeOK, UxpteSubLoad, UxpteSubCAS, PutUxpteAtDone, NextPage, kernelVars
<1>4. CASE IsPresentAt(t)
  BY <1>4 DEF TypeOK, IsPresentAt, NextPage, kernelVars
<1>5. CASE UNCHANGED uptVars
  BY <1>5 DEF uptVars, callVars, kernelVars
<1> QED
  BY <1>1, <1>2, <1>3, <1>4, <1>5 DEF UptThread, UxpteOps

\* A thread's step moves no other thread and takes no frame away.
LEMMA ThreadFrame ==
  ASSUME ObjInv, NEW t \in Threads, ThreadStep(t)
  PROVE  /\ Others(t)
         /\ g_supportUxpt' = g_supportUxpt
         /\ resident' = resident \/ resident' = Page
<1>0. TypeOK /\ pc \in [Threads -> PC]
  BY DEF ObjInv, PurgMemTypeOK
<1>1. \A u \in Threads \ {t} : pc'[u] = pc[u]
  BY <1>0 DEF ThreadStep, BeginAccess, Continue, PurgMemBeginRead, PurgMemBeginWrite, UptStep,
       TryBeginRead, TryBeginReadDone, BeginReadBuildData, BeginReadRecheck,
       BeginWriteLock, BeginWriteCheck, BuildMemset, BuildOne, BuildFails, BuildDone,
       FailUnlock, FailPut, EndAccessPurgMem, PutReturns, PurgMemAppendModify, Goto
<1>2. CASE UptThread(t) \/ UNCHANGED uptVars
  BY <1>0, <1>1, <1>2, OpsFrame DEF Others
<1>3. CASE FaultIn
  BY <1>1, <1>3 DEF FaultIn, callVars, Others
<1> QED
  BY <1>2, <1>3, ThreadTable

\* The kernel moves no thread, and takes no frame while a thread has all pages
\* pinned.
LEMMA KernelFrame ==
  ASSUME ObjInv, NEW p \in Page, KernelReclaim(p)
  PROVE  /\ UNCHANGED <<pc, upc, off, present, pinned, g_supportUxpt, rdHolders, wrHolders,
                        nBuilders, buildDataCount, nextBuilder>>
         /\ g_supportUxpt
         /\ \A t \in Threads : pinned[t] = Page => UNCHANGED <<resident, content>>
<1>1. UNCHANGED <<pc, upc, off, present, pinned, g_supportUxpt, rdHolders, wrHolders,
                  nBuilders, buildDataCount, nextBuilder>>
  BY DEF KernelReclaim, ReclaimBegin, ReclaimEnd, callVars, lockVars
<1>2. g_supportUxpt
  BY DEF KernelReclaim, ReclaimBegin, ReclaimEnd, ObjInv, PinInv
<1>3. ASSUME NEW t \in Threads, pinned[t] = Page PROVE UNCHANGED <<resident, content>>
  <2>1. t \in Pinners(p)
    BY <1>3 DEF Pinners
  <2>2. p \notin reclaiming
    BY <2>1 DEF ObjInv, PinInv, ReclaimOK
  <2> QED
    BY <2>2 DEF KernelReclaim, ReclaimBegin, ReclaimEnd
<1> QED
  BY <1>1, <1>2, <1>3

------------------------------------------------------------------------------
(* Types and the lock. *)

\* The object's variables keep their types.
LEMMA ObjTypeStep ==
  ASSUME PurgMemTypeOK, TypeOK', [Next]_vars
  PROVE  PurgMemTypeOK'
<1> USE DEF PurgMemTypeOK
<1>0. /\ MaxBuilders \in Nat /\ MaxBuilders > 0
      /\ CountLimit \in Nat /\ CountLimit > 1
  BY BoundsAssumption
<1>1. ASSUME NEW t \in Threads, NEW l \in PC, Goto(t, l) PROVE pc' \in [Threads -> PC]
  BY <1>1 DEF Goto
<1>2. ASSUME UNCHANGED objVars, UNCHANGED pc \/ \E t \in Threads, l \in PC : Goto(t, l)
      PROVE  PurgMemTypeOK'
  BY <1>1, <1>2 DEF objVars
<1>3. ASSUME UNCHANGED contentVars, rdHolders' \in SUBSET Threads, wrHolders' \in SUBSET Threads,
             \E t \in Threads, l \in PC : Goto(t, l)
      PROVE  PurgMemTypeOK'
  BY <1>1, <1>3 DEF contentVars
<1>4. ASSUME NEW t \in Threads, BeginAccess(t) \/ UptStep(t) \/ PutReturns(t)
      PROVE  PurgMemTypeOK'
  BY <1>2, <1>4 DEF BeginAccess, PurgMemBeginRead, PurgMemBeginWrite, UptStep, PutReturns, PC
<1>5. ASSUME NEW t \in Threads,
             TryBeginRead(t) \/ BeginReadBuildData(t) \/ BeginWriteLock(t)
      PROVE  PurgMemTypeOK'
  BY <1>2, <1>3, <1>5 DEF TryBeginRead, BeginReadBuildData, BeginWriteLock, FailPut, WrLock, PC
<1>6. ASSUME NEW t \in Threads,
             TryBeginReadDone(t) \/ BeginReadRecheck(t) \/ BeginWriteCheck(t)
      PROVE  PurgMemTypeOK'
  BY <1>2, <1>3, <1>6 DEF TryBeginReadDone, BeginReadRecheck, BeginWriteCheck, PC
<1>7. ASSUME NEW t \in Threads, FailUnlock(t) \/ EndAccessPurgMem(t) PROVE PurgMemTypeOK'
  BY <1>3, <1>7 DEF FailUnlock, FailPut, WrUnlock, EndAccessPurgMem, PC
<1>8. ASSUME NEW t \in Threads, BuildMemset(t) \/ BuildOne(t) PROVE PurgMemTypeOK'
  BY <1>0, <1>8 DEF BuildMemset, BuildOne, Apply, Bad, lockVars
<1>9. ASSUME NEW t \in Threads, BuildFails(t) PROVE PurgMemTypeOK'
  BY <1>0, <1>1, <1>9 DEF BuildFails, lockVars, PC
<1>10. ASSUME NEW t \in Threads, BuildDone(t) PROVE PurgMemTypeOK'
  <2>1. (buildDataCount + 1) % CountLimit \in 0..(CountLimit - 1)
    BY <1>0
  <2>2. \E l \in PC : Goto(t, l)
    BY <1>10 DEF BuildDone, PC
  <2>3. rdHolders' \in SUBSET Threads /\ wrHolders' \in SUBSET Threads
    BY <1>10 DEF BuildDone, WrUnlock, lockVars
  <2> QED
    BY <1>0, <1>1, <1>10, <2>1, <2>2, <2>3 DEF BuildDone
<1>11. ASSUME NEW t \in Threads, PurgMemAppendModify(t) PROVE PurgMemTypeOK'
  BY <1>0, <1>11 DEF PurgMemAppendModify, Apply, Bad, lockVars
<1>12. ASSUME NEW p \in Page, KernelReclaim(p) PROVE PurgMemTypeOK'
  BY <1>0, <1>12 DEF KernelReclaim, lockVars
<1>13. CASE UNCHANGED vars
  BY <1>2, <1>13 DEF vars
<1> QED
  BY <1>4, <1>5, <1>6, <1>7, <1>8, <1>9, <1>10, <1>11, <1>12, <1>13 DEF Next, ThreadStep, Continue

\* Every step keeps the lock and the positions together.
LEMMA LockStep ==
  ASSUME PurgMemTypeOK, LockOK, [Next]_vars
  PROVE  LockOK'
<1> USE DEF RdLocked, WrLocked
<1>0. pc \in [Threads -> PC] /\ rdHolders \in SUBSET Threads /\ wrHolders \in SUBSET Threads
  BY DEF PurgMemTypeOK
<1>1. ASSUME NEW t \in Threads, NEW l \in PC, pc[t] \notin RdLocked \cup WrLocked,
             l \notin RdLocked \cup WrLocked,
             Goto(t, l), UNCHANGED lockVars
      PROVE  LockOK'
  BY <1>0, <1>1 DEF LockOK, Goto, lockVars
<1>2. ASSUME NEW t \in Threads, NEW l \in WrLocked, pc[t] \in WrLocked,
             Goto(t, l), UNCHANGED lockVars
      PROVE  LockOK'
  BY <1>0, <1>2 DEF LockOK, Goto, lockVars
<1>3. ASSUME NEW t \in Threads, NEW l \in PC, pc[t] \in RdLocked \cup WrLocked,
             l \notin RdLocked \cup WrLocked, Goto(t, l),
             rdHolders' = rdHolders \ {t}, wrHolders' = wrHolders \ {t}
      PROVE  LockOK'
  BY <1>0, <1>3 DEF LockOK, Goto
<1>4. ASSUME NEW t \in Threads, NEW l \in WrLocked, pc[t] \notin RdLocked \cup WrLocked,
             Goto(t, l), WrLock(t)
      PROVE  LockOK'
  BY <1>0, <1>4 DEF LockOK, Goto, WrLock, WrLockFree
<1>5. CASE UNCHANGED <<pc, rdHolders, wrHolders>>
  BY <1>5 DEF LockOK
<1>6. ASSUME NEW t \in Threads, BeginAccess(t) \/ PutReturns(t) PROVE LockOK'
  BY <1>1, <1>6 DEF BeginAccess, PurgMemBeginRead, PurgMemBeginWrite, PutReturns, At, objVars, lockVars, PC
<1>7. ASSUME NEW t \in Threads, TryBeginRead(t) PROVE LockOK'
  <2>1. CASE Goto(t, "failPut") /\ UNCHANGED objVars
    BY <1>1, <1>7, <2>1 DEF TryBeginRead, At, objVars, lockVars, PC
  <2>2. CASE /\ wrHolders = {} /\ rdHolders' = rdHolders \cup {t}
             /\ Goto(t, "tryScan") /\ UNCHANGED wrHolders
    BY <1>0, <1>7, <2>2 DEF TryBeginRead, At, LockOK, Goto
  <2> QED
    BY <1>7, <2>1, <2>2 DEF TryBeginRead, FailPut
<1>8. ASSUME NEW t \in Threads, BeginReadBuildData(t) \/ BeginWriteLock(t) PROVE LockOK'
  BY <1>1, <1>4, <1>8 DEF BeginReadBuildData, BeginWriteLock, FailPut, At, objVars, lockVars, PC
<1>9. ASSUME NEW t \in Threads, TryBeginReadDone(t) PROVE LockOK'
  <2>1. CASE rdHolders' = rdHolders \ {t} /\ Goto(t, "rebuildLock")
    <3>1. wrHolders' = wrHolders \ {t}
      BY <1>9 DEF TryBeginReadDone, At, LockOK
    <3> QED
      BY <1>3, <1>9, <2>1, <3>1 DEF TryBeginReadDone, At, PC
  <2>2. CASE Goto(t, "reading") /\ UNCHANGED rdHolders
    BY <1>0, <1>9, <2>2 DEF TryBeginReadDone, At, LockOK, Goto
  <2> QED
    BY <1>9, <2>1, <2>2 DEF TryBeginReadDone
<1>10. ASSUME NEW t \in Threads,
              BeginReadRecheck(t) \/ BeginWriteCheck(t) \/ BuildFails(t)
       PROVE  LockOK'
  BY <1>2, <1>10 DEF BeginReadRecheck, BeginWriteCheck, BuildFails, Building, At, objVars, lockVars, PC
<1>11. ASSUME NEW t \in Threads, BuildDone(t) PROVE LockOK'
  <2>1. CASE pc[t] = "rebuild"
    <3>1. rdHolders' = rdHolders \ {t}
      BY <1>11, <2>1 DEF BuildDone, WrUnlock, LockOK
    <3> QED
      BY <1>3, <1>11, <2>1, <3>1 DEF BuildDone, WrUnlock, PC
  <2>2. CASE pc[t] = "writeBuild"
    BY <1>2, <1>11, <2>2 DEF BuildDone
  <2> QED
    BY <1>11, <2>1, <2>2 DEF BuildDone, Building
<1>12. ASSUME NEW t \in Threads, FailUnlock(t) PROVE LockOK'
  <2>1. rdHolders' = rdHolders \ {t}
    BY <1>12 DEF FailUnlock, WrUnlock, LockOK
  <2> QED
    BY <1>3, <1>12, <2>1 DEF FailUnlock, FailPut, WrUnlock, PC
<1>13. ASSUME NEW t \in Threads, EndAccessPurgMem(t) PROVE LockOK'
  BY <1>3, <1>13 DEF EndAccessPurgMem, PC
<1>14. ASSUME NEW t \in Threads,
              UptStep(t) \/ BuildMemset(t) \/ BuildOne(t) \/ PurgMemAppendModify(t)
       PROVE  LockOK'
  BY <1>5, <1>14 DEF UptStep, BuildMemset, BuildOne, PurgMemAppendModify, objVars, lockVars
<1>15. ASSUME NEW p \in Page, KernelReclaim(p) PROVE LockOK'
  BY <1>5, <1>15 DEF KernelReclaim, lockVars
<1>16. CASE UNCHANGED vars
  BY <1>5, <1>16 DEF vars, objVars
<1> QED
  BY <1>6, <1>7, <1>8, <1>9, <1>10, <1>11, <1>12, <1>13, <1>14, <1>15, <1>16
     DEF Next, ThreadStep, Continue

------------------------------------------------------------------------------
(* Positions and pins. *)

\* A step inside a table operation: the last page of a get leaves all pages
\* pinned, the last page of a put none.
LEMMA OpsPins ==
  ASSUME ObjInv, g_supportUxpt, reclaiming = {}, NEW t \in Threads, UxpteOps(t)
  PROVE  /\ upc[t] \in {"getLoad", "getCAS"} =>
              upc'[t] \in {"getLoad", "getCAS"} \/ (upc'[t] = "idle" /\ pinned'[t] = Page)
         /\ upc[t] \in {"putLoad", "putCAS"} =>
              upc'[t] \in {"putLoad", "putCAS"} \/ (upc'[t] = "idle" /\ pinned'[t] = {})
         /\ upc[t] = "isPresent" => upc'[t] \in {"idle", "isPresent"} /\ pinned'[t] = pinned[t]
         /\ upc[t] # "idle"
<1>0. /\ TypeOK /\ off[t] \in Page /\ PositionOK(t) /\ PinInv
      /\ NPages \in Nat /\ NPages > 0
  BY NPagesAssumption DEF ObjInv, PinInv, TypeOK
<1>1. CASE UxpteAddLoad(t)
  <2>1. ~AddOverflows(uxpte[off[t]])
    BY <1>0, CountBelowMarker
  <2> QED
    BY <1>0, <1>1, <2>1 DEF UxpteAddLoad, TypeOK
<1>2. CASE UxpteAddCAS(t)
  <2>1. CASE uxpte[off[t]] = old[t] /\ off[t] = NPages
    <3>1. upc'[t] = "idle" /\ pinned'[t] = 1..(NPages - 1) \cup {NPages}
      BY <1>0, <1>2, <2>1 DEF UxpteAddCAS, GetUxpteAtDone, NextPage, TypeOK, PositionOK
    <3> QED
      BY <1>0, <1>2, <3>1 DEF Page, UxpteAddCAS
  <2> QED
    BY <1>0, <1>2, <2>1 DEF UxpteAddCAS, GetUxpteAtDone, NextPage, TypeOK
<1>3. CASE UxpteSubLoad(t)
  BY <1>0, <1>3 DEF UxpteSubLoad, TypeOK
<1>4. CASE UxpteSubCAS(t)
  <2>1. CASE uxpte[off[t]] = old[t] /\ off[t] = NPages
    <3>1. upc'[t] = "idle" /\ pinned'[t] = (NPages..NPages) \ {NPages}
      BY <1>0, <1>4, <2>1 DEF UxpteSubCAS, PutUxpteAtDone, NextPage, TypeOK, PositionOK
    <3> QED
      BY <1>0, <1>4, <3>1 DEF UxpteSubCAS
  <2> QED
    BY <1>0, <1>4, <2>1 DEF UxpteSubCAS, PutUxpteAtDone, NextPage, TypeOK
<1>5. CASE IsPresentAt(t)
  BY <1>0, <1>5 DEF IsPresentAt, NextPage, TypeOK
<1> QED
  BY <1>1, <1>2, <1>3, <1>4, <1>5 DEF UxpteOps

\* The thread that takes a step keeps position and pins together.
LEMMA CallStepOwn ==
  ASSUME ObjInv, ~MarkerVisible, g_supportUxpt, NEW t \in Threads, ThreadStep(t)
  PROVE  CallOK(t)'
<1>0. /\ CallOK(t) /\ TypeOK /\ pc \in [Threads -> PC]
  BY DEF ObjInv, PurgMemTypeOK, TypeOK
<1>1. CASE UptStep(t)
  <2>1. reclaiming = {} /\ UxpteOps(t) /\ pc' = pc
    BY <1>1 DEF ThreadStep, UserMayRun, UptStep
  <2> QED
    BY <1>0, <2>1, OpsPins DEF CallOK, Scanning
<1>2. CASE BeginAccess(t)
  BY <1>0, <1>2, ZenonT(30) DEF BeginAccess, PurgMemBeginRead, PurgMemBeginWrite, UxpteGet, StartOps, CallOK,
                    Goto, TypeOK, Scanning
<1>3. ASSUME FailPut(t) PROVE CallOK(t)'
  BY <1>0, <1>3 DEF FailPut, UxptePut, StartOps, CallOK, Goto, TypeOK, Scanning
<1>4. ASSUME At(t, "try") \/ At(t, "rebuildLock") \/ At(t, "writeLock"),
             NEW l \in Scanning, Goto(t, l), IsPurgedStart(t)
      PROVE  CallOK(t)'
  BY <1>0, <1>4, Zenon DEF At, IsPurgedStart, UxpteIsPresent, StartOps, CallOK, Goto, TypeOK, Scanning,
                    uptVars, callVars
<1>5. CASE TryBeginRead(t)
  BY <1>3, <1>4, <1>5 DEF TryBeginRead, Scanning
<1>6. CASE BeginReadBuildData(t)
  BY <1>3, <1>4, <1>6 DEF BeginReadBuildData, Scanning
<1>7. CASE BeginWriteLock(t)
  BY <1>3, <1>4, <1>7 DEF BeginWriteLock, Scanning
<1>8. ASSUME pc[t] \in Scanning, upc[t] = "idle", UNCHANGED uptVars,
             NEW l \in {"rebuildLock", "rebuild", "reading", "writeBuild", "writing", "failUnlock"},
             Goto(t, l)
      PROVE  CallOK(t)'
  BY <1>0, <1>8 DEF CallOK, Goto, Scanning, uptVars, callVars
<1>9. CASE TryBeginReadDone(t) \/ BeginReadRecheck(t) \/ BeginWriteCheck(t)
  BY <1>8, <1>9 DEF TryBeginReadDone, BeginReadRecheck, BeginWriteCheck, At, Scanning
<1>10. CASE BuildMemset(t) \/ BuildOne(t) \/ PurgMemAppendModify(t)
  BY <1>0, <1>10, Zenon DEF BuildMemset, BuildOne, PurgMemAppendModify, FaultIn, callVars, CallOK
<1>11. CASE BuildFails(t) \/ BuildDone(t)
  BY <1>0, <1>11, Zenon DEF BuildFails, BuildDone, Building, Goto, uptVars, callVars, CallOK, Scanning
<1>12. CASE FailUnlock(t)
  BY <1>3, <1>12 DEF FailUnlock
<1>13. CASE EndAccessPurgMem(t)
  BY <1>0, <1>13 DEF EndAccessPurgMem, UxptePut, StartOps, CallOK, Goto, TypeOK, Scanning
<1>14. CASE PutReturns(t)
  BY <1>0, <1>14, Zenon DEF PutReturns, At, CallOK, Goto, Scanning, uptVars, callVars
<1> QED
  BY <1>1, <1>2, <1>5, <1>6, <1>7, <1>9, <1>10, <1>11, <1>12, <1>13, <1>14 DEF ThreadStep, Continue

\* Every step keeps the positions and pins of all threads together.
LEMMA CallStep ==
  ASSUME ObjInv, ~MarkerVisible, [Next]_vars
  PROVE  g_supportUxpt' => \A u \in Threads : CallOK(u)'
<1>1. ASSUME NEW t \in Threads, ThreadStep(t), g_supportUxpt', NEW u \in Threads PROVE CallOK(u)'
  <2>1. g_supportUxpt
    BY <1>1, ThreadFrame, Zenon
  <2>2. CASE u = t
    BY <1>1, <2>1, <2>2, CallStepOwn
  <2>3. CASE u # t
    <3>1. CallOK(u) /\ UNCHANGED <<pc[u], upc[u], pinned[u]>>
      BY <1>1, <2>1, <2>3, ThreadFrame, Zenon DEF Others, ObjInv
    <3> QED
      BY <3>1 DEF CallOK
  <2> QED
    BY <2>2, <2>3
<1>2. ASSUME NEW p \in Page, KernelReclaim(p), g_supportUxpt', NEW u \in Threads PROVE CallOK(u)'
  <2>1. CallOK(u) /\ UNCHANGED <<pc, upc, pinned>>
    BY <1>2, KernelFrame, Zenon DEF ObjInv
  <2> QED
    BY <2>1 DEF CallOK
<1>3. ASSUME UNCHANGED vars, g_supportUxpt', NEW u \in Threads PROVE CallOK(u)'
  <2>1. CallOK(u) /\ UNCHANGED <<pc, upc, pinned>>
    BY <1>3 DEF ObjInv, vars, uptVars, callVars
  <2> QED
    BY <2>1 DEF CallOK
<1> QED
  BY <1>1, <1>2, <1>3 DEF Next

------------------------------------------------------------------------------
(* Queries and frames. *)

\* While one thread rebuilds or writes no other asks, reads or builds.
LEMMA Exclusive ==
  ASSUME LockOK, NEW t \in Threads, pc[t] \in WrLocked, NEW u \in Threads, u # t
  PROVE  pc[u] \notin RdLocked \cup WrLocked
BY DEF LockOK

\* A query that starts or goes on.
LEMMA ScanStepOwn ==
  ASSUME ObjInv, ~MarkerVisible, NEW t \in Threads, ThreadStep(t)
  PROVE  ScanOK(t)'
<1>0. /\ TypeOK /\ pc \in [Threads -> PC] /\ PinInv
      /\ NPages \in Nat /\ NPages > 0 /\ off[t] \in Page
      /\ reclaiming = {}
  BY NPagesAssumption DEF ObjInv, PurgMemTypeOK, TypeOK, ThreadStep, UserMayRun
<1>1. ASSUME pc'[t] \notin Scanning PROVE ScanOK(t)'
  BY <1>1 DEF ScanOK
<1>2. CASE UptStep(t)
  <2>1. pc' = pc /\ UNCHANGED <<buildDataCount, resident>> /\ UxpteOps(t)
    BY <1>0, <1>2, OpsFrame DEF UptStep, objVars, UptThread
  <2>2. ASSUME pc[t] \in Scanning PROVE ScanOK(t)'
    <3>1. g_supportUxpt /\ IsPresentAt(t)
      BY <2>1, <2>2, Zenon DEF ObjInv, CallOK, PinInv, UxpteOps, UxpteAddLoad, UxpteAddCAS, UxpteSubLoad,
                        UxpteSubCAS, IsPresentAt
    <3>2. 1..(off[t] - 1) \subseteq resident
      BY <2>2, <3>1 DEF ObjInv, ScanOK, IsPresentAt
    <3>3. CASE IsUxptePresent(uxpte[off[t]])
      <4>1. off[t] \in resident
        BY <1>0, <3>1, <3>3 DEF PinInv, PresentIsResident
      <4>2. 1..off[t] \subseteq resident
        BY <1>0, <3>2, <4>1 DEF Page
      <4>3. /\ upc'[t] = IF off[t] = NPages THEN "idle" ELSE "isPresent"
            /\ off'[t] = IF off[t] = NPages THEN 1 ELSE off[t] + 1
        BY <1>0, <3>1, <3>3 DEF IsPresentAt, NextPage, TypeOK
      <4>4. CASE off[t] = NPages
        <5>1. resident = Page
          BY <1>0, <4>2, <4>4, Zenon DEF TypeOK, Page
        <5> QED
          BY <2>1, <4>3, <4>4, <5>1, Zenon DEF ScanOK
      <4>5. CASE off[t] # NPages
        <5>1. off'[t] - 1 = off[t] /\ upc'[t] = "isPresent"
          BY <1>0, <4>3, <4>5 DEF Page
        <5> QED
          BY <2>1, <4>2, <5>1 DEF ScanOK
      <4> QED
        BY <4>4, <4>5
    <3>4. CASE ~IsUxptePresent(uxpte[off[t]])
      <4>1. upc'[t] = "idle" /\ present'[t] = FALSE
        BY <1>0, <3>1, <3>4, Zenon DEF IsPresentAt, TypeOK, IsUxptePresent
      <4> QED
        BY <4>1 DEF ScanOK
    <3> QED
      BY <3>3, <3>4
  <2> QED
    BY <1>1, <2>1, <2>2
<1>3. ASSUME upc[t] = "idle", IsPurgedStart(t), UNCHANGED buildDataCount PROVE ScanOK(t)'
  <2>1. CASE buildDataCount = 0
    BY <1>3, <2>1 DEF IsPurgedStart, ScanOK, uptVars, callVars
  <2>2. CASE buildDataCount # 0 /\ g_supportUxpt
    <3>1. upc'[t] = "isPresent" /\ off'[t] = 1
      BY <1>0, <1>3, <2>2 DEF IsPurgedStart, UxpteIsPresent, StartOps, TypeOK
    <3>2. 1..(off'[t] - 1) = {}
      BY <3>1
    <3> QED
      BY <3>1, <3>2 DEF ScanOK
  <2>3. CASE buildDataCount # 0 /\ ~g_supportUxpt
    <3>1. upc'[t] = "idle" /\ resident' = Page
      BY <1>3, <2>3 DEF IsPurgedStart, UxpteIsPresent, kernelVars, ObjInv, FramesOK
    <3> QED
      BY <3>1 DEF ScanOK
  <2> QED
    BY <2>1, <2>2, <2>3
<1>4. CASE TryBeginRead(t) \/ BeginReadBuildData(t) \/ BeginWriteLock(t)
  <2>1. CASE FailPut(t)
    BY <1>0, <1>1, <2>1 DEF FailPut, Goto, Scanning
  <2> QED
    BY <1>3, <1>4, <2>1 DEF TryBeginRead, BeginReadBuildData, BeginWriteLock, At, contentVars
<1>5. CASE \/ BeginAccess(t) \/ TryBeginReadDone(t) \/ BeginReadRecheck(t) \/ BeginWriteCheck(t)
           \/ BuildFails(t) \/ BuildDone(t) \/ FailUnlock(t) \/ EndAccessPurgMem(t) \/ PutReturns(t)
  <2>1. pc'[t] \notin Scanning
    BY <1>0, <1>5 DEF BeginAccess, PurgMemBeginRead, PurgMemBeginWrite, TryBeginReadDone,
       BeginReadRecheck, BeginWriteCheck, BuildFails, BuildDone, FailUnlock, FailPut,
       EndAccessPurgMem, PutReturns, Goto, Scanning
  <2> QED
    BY <1>1, <2>1
<1>6. CASE BuildMemset(t) \/ BuildOne(t) \/ PurgMemAppendModify(t)
  <2>1. pc'[t] \notin Scanning
    BY <1>6 DEF BuildMemset, BuildOne, PurgMemAppendModify, Building, Scanning
  <2> QED
    BY <1>1, <2>1
<1> QED
  BY <1>2, <1>4, <1>5, <1>6 DEF ThreadStep, Continue

\* Only the end of a rebuild changes the counter of builds.
LEMMA CountFrame ==
  ASSUME NEW t \in Threads, ThreadStep(t)
  PROVE  UNCHANGED buildDataCount \/ Building(t)
BY Zenon DEF ThreadStep, BeginAccess, Continue, PurgMemBeginRead, PurgMemBeginWrite, UptStep,
       TryBeginRead, TryBeginReadDone, BeginReadBuildData, BeginReadRecheck,
       BeginWriteLock, BeginWriteCheck, BuildMemset, BuildOne, BuildFails, BuildDone,
       FailUnlock, EndAccessPurgMem, PutReturns, PurgMemAppendModify, objVars, contentVars

\* Every step keeps what the queries have found.
LEMMA ScanStep ==
  ASSUME ObjInv, ~MarkerVisible, [Next]_vars, NEW u \in Threads
  PROVE  ScanOK(u)'
<1>0. ScanOK(u) /\ LockOK /\ resident \in SUBSET Page
  BY DEF ObjInv, PurgMemTypeOK, TypeOK
<1>1. ASSUME NEW t \in Threads, ThreadStep(t) PROVE ScanOK(u)'
  <2>1. CASE u = t
    BY <1>1, <2>1, ScanStepOwn
  <2>2. CASE u # t
    <3>1. /\ UNCHANGED <<pc[u], upc[u], off[u], present[u]>>
          /\ resident' = resident \/ resident' = Page
      BY <1>1, <2>2, ThreadFrame DEF Others
    <3>2. ASSUME pc[u] \in Scanning PROVE UNCHANGED buildDataCount
      <4>1. CASE Building(t)
        BY <1>0, <2>2, <3>2, <4>1, Exclusive DEF Building, Scanning, RdLocked, WrLocked
      <4> QED
        BY <1>1, <4>1, CountFrame
    <3>3. resident \subseteq resident'
      BY <1>0, <3>1
    <3>4. resident = Page => resident' = Page
      BY <3>1
    <3> QED
      BY <1>0, <3>1, <3>2, <3>3, <3>4 DEF ScanOK
  <2> QED
    BY <2>1, <2>2
<1>2. ASSUME NEW p \in Page, KernelReclaim(p) PROVE ScanOK(u)'
  <2>1. UNCHANGED <<pc, upc, off, present, buildDataCount>> /\ g_supportUxpt
    BY <1>2, KernelFrame
  <2>2. pc[u] \in Scanning => UNCHANGED resident
    BY <1>2, <2>1, KernelFrame, Zenon DEF ObjInv, CallOK
  <2> QED
    BY <1>0, <2>1, <2>2 DEF ScanOK
<1>3. CASE UNCHANGED vars
  BY <1>0, <1>3, Zenon DEF ScanOK, vars, uptVars, callVars, kernelVars, objVars
<1> QED
  BY <1>1, <1>2, <1>3 DEF Next

\* A thread with an access open, or rebuilding, has every page pinned where the
\* kernel supports it, so that the kernel takes no frame.
LEMMA KernelKeeps ==
  ASSUME ObjInv, NEW p \in Page, KernelReclaim(p), NEW t \in Threads, Inside(t) \/ Building(t)
  PROVE  UNCHANGED <<resident, content>>
<1>1. g_supportUxpt
  BY KernelFrame
<1>2. pinned[t] = Page
  BY <1>1 DEF ObjInv, CallOK, Inside, Building
<1> QED
  BY <1>2, KernelFrame, Zenon

\* A Begin call opens its access on pages that all have their frames.
LEMMA FramesStep ==
  ASSUME ObjInv, ~MarkerVisible, [Next]_vars
  PROVE  FramesOK'
<1>0. /\ FramesOK /\ pc \in [Threads -> PC] /\ nBuilders \in Nat
      /\ resident \in SUBSET Page
  BY DEF ObjInv, PurgMemTypeOK, TypeOK
<1>1. ASSUME NEW t \in Threads, ThreadStep(t) PROVE FramesOK'
  <2>1. /\ g_supportUxpt' = g_supportUxpt
        /\ resident = Page => resident' = Page
        /\ \A u \in Threads \ {t} : pc'[u] = pc[u]
    BY <1>1, ThreadFrame, Zenon DEF Others
  <2>2. ASSUME Inside(t)' PROVE resident' = Page
    <3>1. CASE Inside(t)
      BY <1>0, <2>1, <3>1 DEF FramesOK
    <3>2. CASE TryBeginReadDone(t) \/ BeginWriteCheck(t)
      <4>1. upc[t] = "idle" /\ present[t] /\ buildDataCount # 0 /\ pc[t] \in Scanning
        BY <1>0, <2>2, <3>2, Zenon DEF TryBeginReadDone, BeginWriteCheck, IsPurged, Inside, Goto, At, Scanning
      <4> QED
        BY <2>1, <4>1, Zenon DEF ObjInv, ScanOK
    <3>3. CASE BuildDone(t)
      <4>1. nextBuilder # 0
        BY <1>0, <3>3 DEF BuildDone
      <4> QED
        BY <1>0, <2>1, <4>1 DEF FramesOK
    <3> QED
      BY <1>0, <1>1, <2>2, <3>1, <3>2, <3>3
         DEF ThreadStep, BeginAccess, Continue, PurgMemBeginRead, PurgMemBeginWrite, UptStep,
             TryBeginRead, BeginReadBuildData, BeginReadRecheck, BeginWriteLock, BuildMemset,
             BuildOne, BuildFails, FailUnlock, FailPut, EndAccessPurgMem, PutReturns,
             PurgMemAppendModify, Inside, Goto
  <2>3. \A u \in Threads : Inside(u)' => resident' = Page
    BY <1>0, <2>1, <2>2 DEF FramesOK, Inside
  <2>4. ASSUME nextBuilder' # 0 PROVE resident' = Page /\ \E w \in Threads : Building(w)'
    <3>1. CASE BuildMemset(t) \/ BuildOne(t)
      BY <3>1 DEF BuildMemset, BuildOne, FaultIn, Building
    <3>2. CASE ~(BuildMemset(t) \/ BuildOne(t))
      <4>1. nextBuilder' = nextBuilder /\ (Building(t) => pc' = pc)
        BY <1>1, <2>4, <3>2, Zenon
           DEF ThreadStep, BeginAccess, Continue, PurgMemBeginRead, PurgMemBeginWrite, UptStep,
               TryBeginRead, TryBeginReadDone, BeginReadBuildData, BeginReadRecheck,
               BeginWriteLock, BeginWriteCheck, BuildFails, BuildDone,
               FailUnlock, EndAccessPurgMem, PutReturns, PurgMemAppendModify, objVars, contentVars,
               Building, At
      <4>2. PICK w \in Threads : Building(w)
        BY <1>0, <2>4, <4>1 DEF FramesOK
      <4>3. Building(w)'
        BY <2>1, <4>1, <4>2 DEF Building
      <4> QED
        BY <1>0, <2>1, <2>4, <4>1, <4>3 DEF FramesOK
    <3> QED
      BY <3>1, <3>2
  <2> QED
    BY <1>0, <2>1, <2>3, <2>4 DEF FramesOK
<1>2. ASSUME NEW p \in Page, KernelReclaim(p) PROVE FramesOK'
  <2>1. UNCHANGED <<pc, nextBuilder, g_supportUxpt>> /\ g_supportUxpt
    BY <1>2, KernelFrame
  <2>2. \A t \in Threads : Inside(t) \/ Building(t) => UNCHANGED resident
    BY <1>2, KernelKeeps
  <2> QED
    BY <1>0, <2>1, <2>2 DEF FramesOK, Inside, Building
<1>3. CASE UNCHANGED vars
  BY <1>0, <1>3 DEF FramesOK, Inside, Building, vars, uptVars, kernelVars, objVars
<1> QED
  BY <1>1, <1>2, <1>3 DEF Next

\* ObjInv is inductive.
LEMMA ObjInvStep ==
  ASSUME ~MarkerVisible, ObjInv, [Next]_vars
  PROVE  ObjInv'
<1>1. PinInv'
  BY TableStep, PinInvStep DEF ObjInv
<1>2. PurgMemTypeOK'
  BY <1>1, ObjTypeStep DEF ObjInv, PinInv
<1>3. LockOK'
  BY LockStep DEF ObjInv
<1> QED
  BY <1>1, <1>2, <1>3, CallStep, ScanStep, FramesStep DEF ObjInv

\* It holds when PurgMemCreate has returned.
LEMMA ObjInvInit == Init => ObjInv /\ ContentOK
<1> SUFFICES ASSUME Init PROVE ObjInv /\ ContentOK
  OBVIOUS
<1>1. PinInv
  BY PinInvInit DEF Init
<1>2. PurgMemTypeOK
  BY <1>1, BoundsAssumption DEF PinInv, Init, PurgMemTypeOK, PC
<1>3. LockOK
  BY DEF Init, LockOK, RdLocked, WrLocked
<1>4. \A t \in Threads : CallOK(t) /\ ScanOK(t)
  BY DEF Init, UptInit, CallOK, ScanOK, Scanning
<1>5. FramesOK
  BY DEF Init, UptInit, FramesOK, Inside
<1>6. ContentOK
  BY DEF Init, UptInit, ContentOK
<1> QED
  BY <1>1, <1>2, <1>3, <1>4, <1>5, <1>6 DEF ObjInv

------------------------------------------------------------------------------
(* The content. *)

\* A reader's content is touched by nobody, a writer's or rebuilder's only by
\* itself.
LEMMA ContentFrame ==
  ASSUME NEW t \in Threads, ThreadStep(t)
  PROVE  \/ UNCHANGED <<content, nBuilders, nextBuilder, resident>>
         \/ BuildMemset(t) \/ BuildOne(t) \/ BuildFails(t) \/ BuildDone(t)
         \/ PurgMemAppendModify(t)
BY Zenon DEF ThreadStep, BeginAccess, Continue, PurgMemBeginRead, PurgMemBeginWrite, UptStep,
       TryBeginRead, TryBeginReadDone, BeginReadBuildData, BeginReadRecheck, IsPurgedStart,
       BeginWriteLock, BeginWriteCheck, FailUnlock, FailPut, EndAccessPurgMem, PutReturns,
       objVars, contentVars, uptVars, kernelVars, UxpteGet, UxptePut, UxpteIsPresent, StartOps,
       UxpteOps, UxpteAddLoad, UxpteAddCAS, UxpteSubLoad, UxpteSubCAS, IsPresentAt

\* As long as no builder and no append fails, every step keeps the content whole
\* where there are frames, or as far as the rebuild has got.
LEMMA ContentStep ==
  ASSUME ObjInv, ContentOK, ~BuilderMayFail, ~AppendMayFail, [Next]_vars
  PROVE  ContentOK'
<1>0. /\ nBuilders \in Nat /\ nBuilders > 0 /\ nextBuilder \in Nat
      /\ resident \in SUBSET Page /\ content \in [Page -> {Bad} \cup (0..MaxBuilders)]
  BY BoundsAssumption DEF ObjInv, PurgMemTypeOK, TypeOK
<1>1. ASSUME NEW t \in Threads, ThreadStep(t) PROVE ContentOK'
  <2>1. CASE UNCHANGED <<content, nBuilders, nextBuilder, resident>>
    BY <2>1 DEF ContentOK
  <2>2. CASE BuildMemset(t)
    BY <1>0, <2>2 DEF ContentOK, BuildMemset
  <2>3. CASE BuildOne(t)
    <3>1. /\ nextBuilder # 0 /\ nextBuilder <= nBuilders
          /\ nextBuilder' = nextBuilder + 1 /\ nBuilders' = nBuilders
          /\ content' = [p \in Page |-> Apply(content[p], nextBuilder)]
      BY <1>0, <2>3 DEF BuildOne
    <3>2. \A p \in Page : content'[p] = nextBuilder
      BY <3>1 DEF ContentOK, Apply
    <3> QED
      BY <1>0, <3>1, <3>2 DEF ContentOK
  <2>4. CASE BuildDone(t)
    <3>1. nextBuilder = nBuilders + 1 /\ nextBuilder' = 0 /\ UNCHANGED <<nBuilders, content, resident>>
      BY <2>4 DEF BuildDone, uptVars, kernelVars
    <3>2. \A p \in Page : content[p] = nBuilders
      BY <1>0, <3>1 DEF ContentOK
    <3> QED
      BY <1>0, <3>1, <3>2 DEF ContentOK
  <2>5. CASE PurgMemAppendModify(t)
    <3>1. pc[t] = "writing" /\ nextBuilder' = nextBuilder
      BY <2>5 DEF PurgMemAppendModify
    <3>2. \A u \in Threads : ~Building(u)
      BY <3>1, Exclusive DEF ObjInv, WrLocked, Building
    <3>3. nextBuilder = 0 /\ resident = Page
      BY <3>1, <3>2 DEF ObjInv, FramesOK, Inside
    <3>4. /\ nBuilders' = nBuilders + 1
          /\ content' = [p \in Page |-> Apply(content[p], nBuilders + 1)]
          /\ resident' = Page
      BY <2>5 DEF PurgMemAppendModify, FaultIn
    <3>5. \A p \in Page : content[p] = nBuilders
      BY <3>3 DEF ContentOK
    <3>6. nBuilders = (nBuilders + 1) - 1
      BY <1>0
    <3>7. \A p \in Page : content'[p] = nBuilders + 1
      BY <3>4, <3>5, <3>6 DEF Apply
    <3> QED
      BY <3>1, <3>3, <3>4, <3>7 DEF ContentOK
  <2> QED
    BY <1>1, <2>1, <2>2, <2>3, <2>4, <2>5, ContentFrame DEF BuildFails
<1>2. ASSUME NEW p \in Page, KernelReclaim(p) PROVE ContentOK'
  <2>1. nBuilders' = nBuilders /\ nextBuilder' = nextBuilder
    BY <1>2 DEF KernelReclaim
  <2>2. CASE nextBuilder = 0
    <3>1. \A q \in resident' : q \in resident /\ content'[q] = content[q]
      BY <1>0, <1>2 DEF KernelReclaim, ReclaimBegin, ReclaimEnd
    <3> QED
      BY <2>1, <2>2, <3>1 DEF ContentOK
  <2>3. CASE nextBuilder # 0
    <3>1. PICK w \in Threads : Building(w)
      BY <2>3 DEF ObjInv, FramesOK
    <3> QED
      BY <1>2, <2>1, <2>3, <3>1, KernelKeeps DEF ContentOK
  <2> QED
    BY <2>2, <2>3
<1>3. CASE UNCHANGED vars
  BY <1>3 DEF ContentOK, vars, uptVars, kernelVars, objVars
<1> QED
  BY <1>1, <1>2, <1>3 DEF Next

\* Whoever is inside an access sees the whole chain.
LEMMA InsideWhole ==
  ASSUME PurgMemInv
  PROVE  ReadersSeeLog
<1> SUFFICES ASSUME NEW t \in Threads, Inside(t)
             PROVE  \A p \in Page : content[p] = nBuilders
  BY DEF ReadersSeeLog
<1>1. pc[t] = "reading" => t \in rdHolders
  BY DEF PurgMemInv, ObjInv, LockOK, RdLocked
<1>2. \A u \in Threads : ~Building(u)
  BY <1>1, Exclusive DEF PurgMemInv, ObjInv, LockOK, WrLocked, RdLocked, Building, Inside
<1>3. nextBuilder = 0 /\ resident = Page
  BY <1>2 DEF PurgMemInv, ObjInv, FramesOK
<1> QED
  BY <1>3 DEF PurgMemInv, ContentOK

------------------------------------------------------------------------------
(* The theorems. *)

\* In every state of an object whose kernel hides the reclaim marker, the lock,
\* the pins of each call, the presence queries under way and the frames fit
\* together, whatever fails.
THEOREM ObjectInvariant == ~MarkerVisible => (Spec => []ObjInv)
<1>1. ASSUME ~MarkerVisible PROVE ObjInv /\ [Next]_vars => ObjInv'
  BY <1>1, ObjInvStep
<1>2. ASSUME ~MarkerVisible PROVE Spec => []ObjInv
  BY <1>1, <1>2, ObjInvInit, PTL DEF Spec
<1> QED
  BY <1>2

\* The values of the object's fields stay in their ranges.
THEOREM PurgMemTypeCorrect == ~MarkerVisible => (Spec => []PurgMemTypeOK)
<1>1. ObjInv => PurgMemTypeOK
  BY DEF ObjInv
<1> QED
  BY <1>1, ObjectInvariant, PTL

\* Every return path of PurgMemBeginRead, PurgMemBeginWrite and EndAccessPurgMem
\* gives back the lock and the references that the call took.
THEOREM NothingLeakedCorrect == ~MarkerVisible => (Spec => []NothingLeaked)
<1>1. ASSUME ObjInv PROVE NothingLeaked
  <2> SUFFICES ASSUME NEW t \in Threads
               PROVE  /\ pc[t] = "idle" => t \notin rdHolders \cup wrHolders /\ pinned[t] = {}
                      /\ pc[t] = "reading" => t \in rdHolders
                      /\ pc[t] = "writing" => t \in wrHolders
                      /\ Inside(t) /\ g_supportUxpt => pinned[t] = Page
    BY DEF NothingLeaked
  <2>1. pc[t] = "idle" => pinned[t] = {}
    BY <1>1 DEF ObjInv, CallOK, PinInv
  <2>2. Inside(t) /\ g_supportUxpt => pinned[t] = Page
    BY <1>1, Zenon DEF ObjInv, CallOK, Inside
  <2> QED
    BY <1>1, <2>1, <2>2 DEF ObjInv, LockOK, RdLocked, WrLocked
<1> QED
  BY <1>1, ObjectInvariant, PTL

\* The calls of purgeable_mem_c.c use the page table in the order its own
\* specification allows: what is proved of the table holds for the object.
THEOREM UsesPageTableCorrect == ~MarkerVisible => (Spec => UsesPageTable)
<1>1. ASSUME ~MarkerVisible PROVE ObjInv /\ [Next]_vars => [UptNext]_uptVars
  BY <1>1, TableStep
<1>2. Init => UptInit
  BY DEF Init
<1>3. ASSUME ~MarkerVisible PROVE Spec => UptSpec
  BY <1>1, <1>2, <1>3, ObjectInvariant, PTL DEF Spec, UptSpec
<1> QED
  BY <1>3 DEF UsesPageTable

\* No frame goes away, and the content does not change, under a reader.
LEMMA ReaderStep ==
  ASSUME ObjInv, [Next]_vars, NEW t \in Threads, Inside(t)
  PROVE  /\ resident \subseteq resident'
         /\ pc[t] = "reading" => content' = content
<1>0. resident \in SUBSET Page
  BY DEF ObjInv, PurgMemTypeOK, TypeOK
<1>1. ASSUME NEW u \in Threads, ThreadStep(u)
      PROVE  resident \subseteq resident' /\ (pc[t] = "reading" => content' = content)
  <2>1. resident \subseteq resident'
    BY <1>0, <1>1, ThreadFrame
  <2>2. ASSUME pc[t] = "reading" PROVE pc[u] \notin WrLocked
    BY <2>2 DEF ObjInv, LockOK, RdLocked
  <2>3. ASSUME pc[t] = "reading" PROVE content' = content
    BY <1>1, <2>2, <2>3, ContentFrame
       DEF WrLocked, BuildMemset, BuildOne, BuildFails, BuildDone, PurgMemAppendModify, Building
  <2> QED
    BY <2>1, <2>3
<1>2. ASSUME NEW p \in Page, KernelReclaim(p) PROVE UNCHANGED <<resident, content>>
  BY <1>2, KernelKeeps
<1>3. CASE UNCHANGED vars
  BY <1>3 DEF vars, uptVars, kernelVars, objVars
<1> QED
  BY <1>1, <1>2, <1>3 DEF Next

\* The references that BeginRead and BeginWrite hold keep every frame of the
\* object until the access ends.
THEOREM InsideNotReclaimedCorrect == ~MarkerVisible => (Spec => InsideNotReclaimed)
<1>1. ObjInv /\ [Next]_vars => [(\E t \in Threads : Inside(t)) => resident \subseteq resident']_vars
  BY ReaderStep
<1> QED
  BY <1>1, ObjectInvariant, PTL DEF Spec, InsideNotReclaimed

\* Neither a rebuild of another thread, nor an append, nor the kernel changes
\* the content under a reader, whatever fails.
THEOREM StableWhileReadingCorrect == ~MarkerVisible => (Spec => StableWhileReading)
<1>1. ObjInv /\ [Next]_vars =>
        [\A t \in Threads : pc[t] = "reading" /\ pc'[t] = "reading" => content' = content]_vars
  BY ReaderStep DEF Inside
<1> QED
  BY <1>1, ObjectInvariant, PTL DEF Spec, StableWhileReading

\* Nothing is observed half-way, no builder and no append fails.
NoFailure == ~MarkerVisible /\ ~BuilderMayFail /\ ~AppendMayFail

\* If moreover no builder and no append fails, the content is whole wherever
\* there is a frame, or as far as the rebuild under way has got.
THEOREM PurgMemInvariant == NoFailure => (Spec => []PurgMemInv)
<1>1. ASSUME NoFailure PROVE PurgMemInv /\ [Next]_vars => PurgMemInv'
  BY <1>1, ObjInvStep, ContentStep DEF PurgMemInv, NoFailure
<1>2. Init => PurgMemInv
  BY ObjInvInit DEF PurgMemInv
<1>3. ASSUME NoFailure PROVE Spec => []PurgMemInv
  BY <1>1, <1>2, <1>3, PTL DEF Spec
<1> QED
  BY <1>3

\* Between a Begin that returned true and its End a thread finds the effects of
\* all builders, in order, in every page.
THEOREM ReadersSeeLogCorrect == NoFailure => (Spec => []ReadersSeeLog)
<1>1. PurgMemInv => ReadersSeeLog
  BY InsideWhole
<1> QED
  BY <1>1, PurgMemInvariant, PTL

------------------------------------------------------------------------------
(* The object implements PurgeableContract. *)

\* The values that the refinement gives to the contract's variables.
readersBar == {t \in Threads : pc[t] = "reading"}
writersBar == {t \in Threads : pc[t] = "writing"}
wholeBar == \A p \in Page : content[p] = nBuilders

\* A thread that holds the write lock and is not writing is alone.
LEMMA AloneToBuild ==
  ASSUME LockOK, NEW t \in Threads, pc[t] \in WrLocked, pc[t] # "writing"
  PROVE  readersBar = {} /\ writersBar = {}
BY Exclusive DEF readersBar, writersBar, RdLocked, WrLocked

\* A position that changes outside the accesses changes neither set.
LEMMA OutsideStep ==
  ASSUME pc \in [Threads -> PC], NEW t \in Threads, NEW l \in PC,
         pc[t] \notin {"reading", "writing"}, l \notin {"reading", "writing"},
         pc' = pc \/ Goto(t, l)
  PROVE  readersBar' = readersBar /\ writersBar' = writersBar
BY DEF Goto, readersBar, writersBar

\* The content is lost, or recovered, while nobody is inside an access.
LEMMA LossStep ==
  ASSUME readersBar = {}, writersBar = {}, UNCHANGED <<pc, nBuilders>>
  PROVE  [Contract!ContractNext]_(Contract!contractVars)
<1>1. readersBar' = readersBar /\ writersBar' = writersBar
  BY DEF readersBar, writersBar
<1>2. CASE wholeBar' <=> wholeBar
  BY <1>1, <1>2 DEF Contract!contractVars, readersBar, writersBar, wholeBar
<1>3. CASE wholeBar' <=> ~wholeBar
  BY <1>1, <1>3, Zenon DEF Contract!ContractNext, Contract!LoseOrRecover, Contract!Nobody,
                    readersBar, writersBar, wholeBar
<1> QED
  BY <1>2, <1>3

\* Each thread's step is a step of the contract.
LEMMA ThreadContract ==
  ASSUME PurgMemInv, ReadersSeeLog', NEW t \in Threads, ThreadStep(t),
         ~AppendMayFail
  PROVE  [Contract!ContractNext]_(Contract!contractVars)
<1>0. pc \in [Threads -> PC] /\ LockOK /\ ReadersSeeLog
  BY InsideWhole DEF PurgMemInv, ObjInv, PurgMemTypeOK
<1>1. ASSUME Inside(t)' PROVE wholeBar'
  BY <1>1 DEF ReadersSeeLog, wholeBar
<1>2. CASE BuildMemset(t) \/ BuildOne(t)
  <2>1. pc[t] \in WrLocked /\ pc[t] # "writing" /\ UNCHANGED <<pc, nBuilders>>
    BY <1>2 DEF BuildMemset, BuildOne, Building, WrLocked
  <2> QED
    BY <1>0, <2>1, AloneToBuild, LossStep
<1>3. CASE PurgMemAppendModify(t)
  <2>1. pc[t] = "writing" /\ pc' = pc /\ nBuilders' = nBuilders + 1
    BY <1>3 DEF PurgMemAppendModify
  <2>2. wholeBar /\ wholeBar'
    BY <1>0, <1>1, <2>1 DEF ReadersSeeLog, wholeBar, Inside
  <2> QED
    BY <2>1, <2>2, Zenon DEF Contract!ContractNext, Contract!Modify, wholeBar
<1>4. CASE EndAccessPurgMem(t)
  <2>1. /\ pc[t] \in {"reading", "writing"} /\ Goto(t, "endPut")
        /\ UNCHANGED <<content, nBuilders>>
    BY <1>4 DEF EndAccessPurgMem, contentVars
  <2>2. readersBar' = readersBar \ {t} /\ writersBar' = writersBar \ {t}
    BY <1>0, <2>1 DEF Goto, readersBar, writersBar
  <2> QED
    BY <2>1, <2>2 DEF Contract!ContractNext, Contract!End, readersBar, writersBar
<1>5. CASE TryBeginReadDone(t) /\ pc'[t] = "reading"
  <2>1. pc[t] = "tryScan" /\ Goto(t, "reading") /\ UNCHANGED <<content, nBuilders>>
    BY <1>0, <1>5 DEF TryBeginReadDone, Goto, At, contentVars
  <2>2. readersBar' = readersBar \cup {t} /\ writersBar' = writersBar /\ t \notin readersBar
    BY <1>0, <2>1 DEF Goto, readersBar, writersBar
  <2>3. writersBar = {}
    BY <1>0, <2>1 DEF LockOK, RdLocked, WrLocked, writersBar
  <2>4. wholeBar /\ wholeBar'
    BY <1>1, <1>5, <2>1, Zenon DEF wholeBar, Inside
  <2> QED
    BY <2>1, <2>2, <2>3, <2>4, Zenon
       DEF Contract!ContractNext, Contract!BeginReadTrue, readersBar, writersBar, wholeBar
<1>6. CASE (BeginWriteCheck(t) \/ BuildDone(t)) /\ pc'[t] = "writing"
  <2>1. /\ pc[t] \in {"writeScan", "rebuild", "writeBuild"} /\ Goto(t, "writing")
        /\ UNCHANGED <<content, nBuilders>>
    BY <1>0, <1>6 DEF BeginWriteCheck, BuildDone, Building, Goto, At, objVars
  <2>2. readersBar = {} /\ writersBar = {}
    BY <1>0, <2>1, AloneToBuild DEF WrLocked
  <2>3. readersBar' = readersBar /\ writersBar' = {t}
    BY <1>0, <2>1, <2>2 DEF Goto, readersBar, writersBar
  <2>4. wholeBar /\ wholeBar'
    BY <1>1, <1>6, <2>1, Zenon DEF wholeBar, Inside
  <2> QED
    BY <2>1, <2>2, <2>3, <2>4, Zenon
       DEF Contract!ContractNext, Contract!BeginWriteTrue, Contract!Nobody,
           readersBar, writersBar, wholeBar
<1>7. CASE /\ ~(BuildMemset(t) \/ BuildOne(t) \/ PurgMemAppendModify(t) \/ EndAccessPurgMem(t))
           /\ ~(TryBeginReadDone(t) /\ pc'[t] = "reading")
           /\ ~((BeginWriteCheck(t) \/ BuildDone(t)) /\ pc'[t] = "writing")
  <2>1. UNCHANGED <<content, nBuilders>>
    BY <1>7, ContentFrame, Zenon DEF BuildDone, BuildFails
  <2>2. \/ pc' = pc
        \/ /\ pc[t] \notin {"reading", "writing"}
           /\ \E l \in PC \ {"reading", "writing"} : Goto(t, l)
    BY <1>0, <1>7, Zenon
       DEF ThreadStep, BeginAccess, Continue, PurgMemBeginRead, PurgMemBeginWrite, UptStep,
         TryBeginRead, TryBeginReadDone, BeginReadBuildData, BeginReadRecheck,
         BeginWriteLock, BeginWriteCheck, BuildFails, BuildDone, Building,
         FailUnlock, FailPut, PutReturns, Goto, At, PC
  <2>3. readersBar' = readersBar /\ writersBar' = writersBar
    <3>1. CASE pc' = pc
      BY <3>1 DEF readersBar, writersBar
    <3>2. CASE pc' # pc
      BY <1>0, <2>2, <3>2, OutsideStep
    <3> QED
      BY <3>1, <3>2
  <2>4. wholeBar' <=> wholeBar
    BY <2>1 DEF wholeBar
  <2> QED
    BY <2>1, <2>3, <2>4 DEF Contract!contractVars, readersBar, writersBar, wholeBar
<1> QED
  BY <1>2, <1>3, <1>4, <1>5, <1>6, <1>7

\* BeginRead, BeginWrite, their ends, AppendModify, purges and rebuilds are
\* steps of PurgeableContract: the object keeps what its header promises.
THEOREM KeepsContractCorrect == NoFailure => (Spec => KeepsContract)
<1>1. Init => Contract!ContractInit
  BY DEF Init, Contract!ContractInit, Contract!Nobody
<1>2. ASSUME NoFailure, PurgMemInv, ReadersSeeLog', [Next]_vars
      PROVE  [Contract!ContractNext]_(Contract!contractVars)
  <2>1. ASSUME NEW t \in Threads, ThreadStep(t)
        PROVE  [Contract!ContractNext]_(Contract!contractVars)
    BY <1>2, <2>1, ThreadContract DEF NoFailure
  <2>2. ASSUME NEW p \in Page, KernelReclaim(p)
        PROVE  [Contract!ContractNext]_(Contract!contractVars)
    <3>1. UNCHANGED <<pc, nBuilders>>
      BY <2>2 DEF KernelReclaim
    <3>2. CASE \E t \in Threads : Inside(t)
      <4>1. UNCHANGED content
        BY <1>2, <2>2, <3>2, KernelKeeps DEF PurgMemInv
      <4> QED
        BY <3>1, <4>1 DEF Contract!contractVars
    <3>3. CASE ~\E t \in Threads : Inside(t)
      <4>1. readersBar = {} /\ writersBar = {}
        BY <3>3 DEF Inside, readersBar, writersBar
      <4> QED
        BY <3>1, <4>1, LossStep
    <3> QED
      BY <3>2, <3>3
  <2>3. CASE UNCHANGED vars
    BY <2>3 DEF vars, objVars, Contract!contractVars
  <2> QED
    BY <1>2, <2>1, <2>2, <2>3 DEF Next
<1>3. ASSUME NoFailure
      PROVE  PurgMemInv /\ ReadersSeeLog' /\ [Next]_vars =>
               [Contract!ContractNext]_(Contract!contractVars)
  BY <1>2, <1>3
<1>4. ASSUME NoFailure PROVE Spec => Contract!ContractSpec
  BY <1>1, <1>3, <1>4, PurgMemInvariant, ReadersSeeLogCorrect, PTL DEF Spec, Contract!ContractSpec
<1> QED
  BY <1>4 DEF KeepsContract
==============================================================================
