------------------------------- MODULE PurgMem -------------------------------
(***************************************************************************)
(* A purgeable memory object of the C library                              *)
(* (src/libpurgeablemem/c/src/purgeable_mem_c.c) shared by several         *)
(* threads: BeginRead / EndRead, BeginWrite / EndWrite and AppendModify,   *)
(* over the page table of UxPageTable and the object's rwlock.             *)
(*                                                                         *)
(* The content of a page is abstracted to a number: n means that the       *)
(* effects of the first n builders of the chain are there, in order, and   *)
(* Bad that the page holds anything else: the effect of a modification     *)
(* that is not in the chain, or of builders applied to something else than *)
(* their predecessors' result.  A fresh or cleared page is 0.              *)
(***************************************************************************)
EXTENDS UxPageTable

CONSTANTS
  MaxBuilders,     \* bound on the builder chain
  CountLimit,      \* buildDataCount wraps here (2^32 in the code)
  BuilderMayFail,  \* may a builder's func return false during a rebuild?
  AppendMayFail,   \* may AppendModify return false?
  LockMayFail      \* may pthread_rwlock_rdlock / wrlock return an error?

ASSUME BoundsAssumption ==
  /\ MaxBuilders \in Nat \ {0}
  /\ CountLimit \in Nat /\ CountLimit > 1

ASSUME FailuresAssumption ==
  {BuilderMayFail, AppendMayFail, LockMayFail} \subseteq BOOLEAN

VARIABLES
  rdHolders,       \* rwlock: the threads that hold it for reading
  wrHolders,       \* rwlock: the thread, if any, that holds it for writing
  pc,              \* where a thread is in an API call
  nBuilders,       \* length of the builder chain
  buildDataCount,  \* successful PurgMemBuildData so far
  nextBuilder,     \* PurgMemBuildData: next builder to run, 0 before the memset
  content          \* what each page holds

objVars == <<rdHolders, wrHolders, nBuilders, buildDataCount, nextBuilder, content>>
vars == <<uptVars, objVars, pc>>

Bad == -1

PC == {"idle", "try", "tryScan", "rebuildLock", "rebuildScan", "rebuild", "reading",
       "writeLock", "writeScan", "writeBuild", "writing",
       "failUnlock", "failPut", "endPut"}

PurgMemTypeOK ==
  /\ TypeOK
  /\ rdHolders \in SUBSET Threads
  /\ wrHolders \in SUBSET Threads
  /\ pc \in [Threads -> PC]
  /\ nBuilders \in 1..MaxBuilders
  /\ buildDataCount \in 0..(CountLimit - 1)
  /\ nextBuilder \in 0..(MaxBuilders + 1)
  /\ content \in [Page -> {Bad} \cup (0..MaxBuilders)]

\* PurgMemCreate has returned: one builder, applied to the content but not yet
\* counted as a build.
Init ==
  /\ UptInit
  /\ rdHolders = {}
  /\ wrHolders = {}
  /\ pc = [t \in Threads |-> "idle"]
  /\ nBuilders = 1
  /\ buildDataCount = 0
  /\ nextBuilder = 0
  /\ content = [p \in Page |-> 1]

------------------------------------------------------------------------------
(* Helpers. *)

Goto(t, l) == pc' = [pc EXCEPT ![t] = l]

\* Builder k runs on what a page holds.
Apply(c, k) == IF c = k - 1 THEN k ELSE Bad

\* IsPurged: nothing built yet counts as purged without a look at the table.
\* The query starts here and its answer is read when the table call is over.
IsPurgedStart(t) ==
  IF buildDataCount = 0 THEN UNCHANGED uptVars ELSE UxpteIsPresent(t)

IsPurgedMut(t) == buildDataCount = 0
IsPurged(t) == buildDataCount = 0 \/ ~present[t]

\* The call at l is over its last page table operation.
At(t, l) == pc[t] = l /\ upc[t] = "idle"

WrLockFree == rdHolders = {} /\ wrHolders = {}

WrLock(t) == WrLockFree /\ wrHolders' = wrHolders \cup {t} /\ UNCHANGED rdHolders
WrUnlock(t) == wrHolders' = wrHolders \ {t} /\ UNCHANGED rdHolders

contentVars == <<nBuilders, buildDataCount, nextBuilder, content>>
lockVars == <<rdHolders, wrHolders>>

\* A Begin call gives up: the reference taken at its start is put back.
FailPut(t) == Goto(t, "failPut") /\ UxptePut(t)

------------------------------------------------------------------------------
(* PurgMemBeginRead. *)

PurgMemBeginRead(t) ==
  /\ pc[t] = "idle"
  /\ Goto(t, "try")
  /\ UxpteGet(t)
  /\ UNCHANGED objVars

\* TryBeginRead: take the read lock and ask whether the content is purged ...
TryBeginRead(t) ==
  /\ At(t, "try")
  /\ \/ /\ wrHolders = {}
        /\ rdHolders' = rdHolders \cup {t}
        /\ Goto(t, "tryScan")
        /\ IsPurgedStart(t)
        /\ UNCHANGED <<wrHolders, contentVars>>
     \/ LockMayFail /\ FailPut(t) /\ UNCHANGED objVars

\* ... keep the lock if it is not, release it and go to rebuild if it is.
TryBeginReadDone(t) ==
  /\ At(t, "tryScan")
  /\ IF IsPurged(t)
       THEN rdHolders' = rdHolders \ {t} /\ Goto(t, "rebuildLock")
       ELSE Goto(t, "reading") /\ UNCHANGED rdHolders
  /\ UNCHANGED <<uptVars, wrHolders, contentVars>>

\* BeginReadBuildData: under the write lock, ask again ...
BeginReadBuildDataMut(t) ==
  /\ At(t, "rebuildLock")
  /\ wrHolders = {}
  /\ rdHolders' = rdHolders \cup {t}
  /\ Goto(t, "rebuildScan") /\ IsPurgedStart(t) /\ UNCHANGED <<wrHolders, contentVars>>
BeginReadBuildData(t) ==
  /\ At(t, "rebuildLock")
  /\ \/ WrLock(t) /\ Goto(t, "rebuildScan") /\ IsPurgedStart(t) /\ UNCHANGED contentVars
     \/ LockMayFail /\ FailPut(t) /\ UNCHANGED objVars

\* ... and rebuild.  When another thread has rebuilt in between, rebuildRet is
\* still false and the call fails.
BeginReadRecheck(t) ==
  /\ At(t, "rebuildScan")
  /\ Goto(t, IF IsPurged(t) THEN "rebuild" ELSE "failUnlock")
  /\ UNCHANGED <<uptVars, objVars>>

------------------------------------------------------------------------------
(* PurgMemBeginWrite. *)

PurgMemBeginWriteMut(t) ==
  /\ pc[t] = "idle"
  /\ Goto(t, "writeLock")
  /\ UNCHANGED <<uptVars, objVars>>
PurgMemBeginWrite(t) ==
  /\ pc[t] = "idle"
  /\ Goto(t, "writeLock")
  /\ UxpteGet(t)
  /\ UNCHANGED objVars

BeginWriteLock(t) ==
  /\ At(t, "writeLock")
  /\ \/ WrLock(t) /\ Goto(t, "writeScan") /\ IsPurgedStart(t) /\ UNCHANGED contentVars
     \/ LockMayFail /\ FailPut(t) /\ UNCHANGED objVars

BeginWriteCheckMut(t) ==
  /\ At(t, "writeScan")
  /\ Goto(t, "writing")
  /\ UNCHANGED <<uptVars, objVars>>
BeginWriteCheck(t) ==
  /\ At(t, "writeScan")
  /\ Goto(t, IF IsPurged(t) THEN "writeBuild" ELSE "writing")
  /\ UNCHANGED <<uptVars, objVars>>

------------------------------------------------------------------------------
(* PurgMemBuildData, called by both with the write lock held. *)

Building(t) == pc[t] \in {"rebuild", "writeBuild"}

BuildMemset(t) ==
  /\ Building(t)
  /\ nextBuilder = 0
  /\ FaultIn
  /\ content' = [p \in Page |-> 0]
  /\ nextBuilder' = 1
  /\ UNCHANGED <<pc, lockVars, nBuilders, buildDataCount>>

\* PurgMemBuilderBuildAll, one builder of the chain.
BuildOneMut(t) ==
  /\ Building(t)
  /\ nextBuilder \in 1..(nBuilders + 1)
  /\ FaultIn
  /\ content' = [p \in Page |-> Apply(content[p], nextBuilder)]
  /\ nextBuilder' = nextBuilder + 1
  /\ UNCHANGED <<pc, lockVars, nBuilders, buildDataCount>>
BuildOne(t) ==
  /\ Building(t)
  /\ nextBuilder \in 1..nBuilders
  /\ FaultIn
  /\ content' = [p \in Page |-> Apply(content[p], nextBuilder)]
  /\ nextBuilder' = nextBuilder + 1
  /\ UNCHANGED <<pc, lockVars, nBuilders, buildDataCount>>

\* A builder returns false: the rest of the chain is not run.
BuildFails(t) ==
  /\ BuilderMayFail
  /\ Building(t)
  /\ nextBuilder \in 1..nBuilders
  /\ nextBuilder' = 0
  /\ Goto(t, "failUnlock")
  /\ UNCHANGED <<uptVars, lockVars, nBuilders, buildDataCount, content>>

\* The whole chain has run.  A reader releases the write lock and tries again,
\* a writer keeps it and returns.
BuildDone(t) ==
  /\ Building(t)
  /\ nextBuilder = nBuilders + 1
  /\ nextBuilder' = 0
  /\ buildDataCount' = (buildDataCount + 1) % CountLimit
  /\ IF pc[t] = "rebuild"
       THEN WrUnlock(t) /\ Goto(t, "try")
       ELSE Goto(t, "writing") /\ UNCHANGED lockVars
  /\ UNCHANGED <<uptVars, nBuilders, content>>

\* A failed rebuild releases the write lock before the reference.
FailUnlockMut(t) ==
  /\ pc[t] = "failUnlock"
  /\ FailPut(t)
  /\ UNCHANGED objVars
FailUnlock(t) ==
  /\ pc[t] = "failUnlock"
  /\ WrUnlock(t)
  /\ FailPut(t)
  /\ UNCHANGED contentVars

------------------------------------------------------------------------------
(* Inside an access, and its end. *)

\* PurgMemAppendModify, called between BeginWrite and EndWrite: the func is
\* applied first, then the builder is created and appended.  When the func
\* returns false, or it has run and the builder cannot be allocated, the chain
\* stays as it is and the content may have changed without it.
PurgMemAppendModify(t) ==
  /\ pc[t] = "writing"
  /\ FaultIn
  /\ \/ /\ nBuilders < MaxBuilders
        /\ content' = [p \in Page |-> Apply(content[p], nBuilders + 1)]
        /\ nBuilders' = nBuilders + 1
     \/ /\ AppendMayFail
        /\ content' \in {content, [p \in Page |-> Bad]}
        /\ UNCHANGED nBuilders
  /\ UNCHANGED <<pc, lockVars, buildDataCount, nextBuilder>>

\* EndAccessPurgMem: unlock, then put.
EndAccessPurgMem(t) ==
  /\ pc[t] \in {"reading", "writing"}
  /\ rdHolders' = rdHolders \ {t}
  /\ wrHolders' = wrHolders \ {t}
  /\ Goto(t, "endPut")
  /\ UxptePut(t)
  /\ UNCHANGED contentVars

\* The reference is put: the Begin call returns false, the End call returns.
PutReturns(t) ==
  /\ At(t, "failPut") \/ At(t, "endPut")
  /\ Goto(t, "idle")
  /\ UNCHANGED <<uptVars, objVars>>

------------------------------------------------------------------------------
UptStep(t) == UxpteOps(t) /\ UNCHANGED <<objVars, pc>>

BeginAccess(t) == PurgMemBeginRead(t) \/ PurgMemBeginWrite(t)

Continue(t) ==
  \/ UptStep(t)
  \/ TryBeginRead(t) \/ TryBeginReadDone(t)
  \/ BeginReadBuildData(t) \/ BeginReadRecheck(t)
  \/ BeginWriteLock(t) \/ BeginWriteCheck(t)
  \/ BuildMemset(t) \/ BuildOne(t) \/ BuildFails(t) \/ BuildDone(t)
  \/ FailUnlock(t)
  \/ EndAccessPurgMem(t)
  \/ PutReturns(t)

ThreadStep(t) == UserMayRun /\ (BeginAccess(t) \/ Continue(t) \/ PurgMemAppendModify(t))

\* The kernel discards the content with the frame.
KernelReclaim(p) ==
  /\ \/ ReclaimBegin(p) /\ UNCHANGED content
     \/ ReclaimEnd(p) /\ content' = [content EXCEPT ![p] = 0]
  /\ UNCHANGED <<pc, lockVars, nBuilders, buildDataCount, nextBuilder>>

Next ==
  \/ \E t \in Threads : ThreadStep(t)
  \/ \E p \in Page : KernelReclaim(p)

Spec == Init /\ [][Next]_vars

------------------------------------------------------------------------------
(* Properties. *)

Inside(t) == pc[t] \in {"reading", "writing"}

\* Whoever is between a Begin that returned true and its End sees, in every
\* page, the effects of all builders of the chain in order: a purge, a rebuild by
\* another thread or an append never leaves a reader with less.
ReadersSeeLog ==
  \A t \in Threads : Inside(t) => \A p \in Page : content[p] = nBuilders

\* Every return path of the Begin and End calls gives back what the call took:
\* an idle thread holds neither lock nor reference, one inside an access holds
\* its lock and, with kernel support, a reference on every page.
NothingLeaked ==
  \A t \in Threads :
    /\ pc[t] = "idle" => t \notin rdHolders \cup wrHolders /\ pinned[t] = {}
    /\ pc[t] = "reading" => t \in rdHolders
    /\ pc[t] = "writing" => t \in wrHolders
    /\ Inside(t) /\ g_supportUxpt => pinned[t] = Page

\* While a thread is reading nobody changes the content under it: no rebuild
\* of another reader, no append, no purge by the kernel.
StableWhileReading ==
  [][\A t \in Threads : pc[t] = "reading" /\ pc'[t] = "reading" => content' = content]_vars

\* With a reference held the OS takes no page of the content away between a
\* Begin that returned true and its End.
InsideNotReclaimed ==
  [][(\E t \in Threads : Inside(t)) => resident \subseteq resident']_vars

\* A Begin call returns false only when the content is purged and could not be
\* recovered: never when no builder and no lock fails.
NoSpuriousFailure ==
  ~BuilderMayFail /\ ~LockMayFail => \A t \in Threads : pc[t] # "failPut"

\* The object uses the page table as its clients may: every step is a step of
\* UxPageTable's specification or leaves the table alone.
UsesPageTable == UptSpec

Contract == INSTANCE PurgeableContract WITH
  readers <- {t \in Threads : pc[t] = "reading"},
  writers <- {t \in Threads : pc[t] = "writing"},
  nMods <- nBuilders,
  whole <- \A p \in Page : content[p] = nBuilders

\* The object keeps the promises of its header: BeginRead, BeginWrite, their
\* ends, AppendModify, purges and rebuilds are steps of PurgeableContract.
KeepsContract == Contract!ContractSpec
==============================================================================
