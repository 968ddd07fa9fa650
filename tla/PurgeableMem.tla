----------------------------- MODULE PurgeableMem -----------------------------
(***************************************************************************)
(* The C++ purgeable object: PurgeableMemBase                              *)
(* (src/libpurgeablemem/cpp/src/purgeable_mem_base.cpp) with the overrides *)
(* of PurgeableMem ("uxpt": a page table in user memory) and of            *)
(* PurgeableAshMem ("ashmem": ioctls of the ashmem driver).  A mutex is    *)
(* held during each call and not during the access between Begin and End,  *)
(* so that accesses of several threads overlap and only the reference      *)
(* count keeps the content in place.                                       *)
(*                                                                         *)
(* The pages of the object are taken together: UxPageTable has the         *)
(* page-by-page protocol.  Content is a number as in PurgMem: n for the    *)
(* effects of the first n builders, Bad for anything else.  The driver     *)
(* keeps a count of pins per region, which is 1 when the region is made,   *)
(* and a purged flag that stays until it is told of a rebuild (external;   *)
(* purgeableashmem_test.cpp, 180-213).  AshmemData has the life of the     *)
(* region and its descriptor; here the descriptor matters because Pin and  *)
(* Unpin reach the driver only through one that is greater than 0.         *)
(***************************************************************************)
EXTENDS Integers, FiniteSets

CONSTANTS
  Threads,
  Backends,        \* which of the two classes the object may be of
  Support,         \* may the kernel support purging?
  Descriptors,     \* what open() may return; 0 once the process closed its stdin
  RefLimit,        \* reference counts are 0 .. RefLimit-1
  CountLimit,      \* buildDataCount_ wraps here (2^32 in the code)
  MaxBuilders,     \* bound on the builder chain
  MaxBuilds,       \* bound: no access starts after that many builds
  BuilderMayFail,  \* may Build of a builder return false?
  TableMayFail,    \* may ResizeData fail to map the data or to make the table?
  Invalidates,     \* do clients call SetDataValid?
  Resizes          \* do clients replace the data, outside of accesses?

ASSUME ThreadsAssumption == IsFiniteSet(Threads)
ASSUME SupportAssumption ==
  /\ Support \subseteq BOOLEAN /\ Support # {}
  /\ Backends \subseteq {"uxpt", "ashmem"} /\ Backends # {}
ASSUME DescriptorsAssumption == Descriptors \subseteq Nat /\ Descriptors # {}
ASSUME LimitsAssumption ==
  /\ {RefLimit, CountLimit, MaxBuilders, MaxBuilds} \subseteq Nat \ {0}
  /\ CountLimit > 1 /\ RefLimit > 1 /\ Cardinality(Threads) < RefLimit
ASSUME ClientsAssumption ==
  {BuilderMayFail, TableMayFail, Invalidates, Resizes} \subseteq BOOLEAN

MAX_BUILD_TRYTIMES == 3
Bad == -1

VARIABLES
  backend,
  supported,       \* g_supportUxpt, or what the driver says of the region
  dataPtr,         \* is the data mapped?
  ashmemFd,        \* -1 before there was a region
  isSupport,       \* set when the driver says yes for a region, never reset
  isChange,        \* set by ChangeAshmemData, never reset
  pageTable,       \* "none": pageTable_ is null; "empty": its uxpt_ is; "mapped"
  refs,            \* reference count in the table's words, or in the driver;
                   \* 0 where there is no such count
  resident,        \* all frames are there (uxpt), not flagged as purged (ashmem)
  content,
  nBuilders,
  buildDataCount,
  isDataValid,
  dataLock,        \* the thread inside a call, as a set
  pc,
  tryTimes,
  kept,            \* history: references that EndRead did not give back
  tainted          \* history: the content is lost and the object does not know

tableVars == <<backend, supported, dataPtr, pageTable, ashmemFd, isSupport, isChange>>
dataVars == <<nBuilders, buildDataCount, content, resident, tainted>>
vars == <<tableVars, dataVars, refs, kept, isDataValid, dataLock, pc, tryTimes>>

\* Where a thread can be inside a call, and at all.
CallPositions == {"readLoop", "readBuild", "writeCheck", "writeBuild"}
Positions == CallPositions \cup {"idle", "reading", "writing"}

\* Every variable has its type; in particular the reference count of Pin and
\* Unpin neither overflows nor wraps below zero.
CxxTypeOK ==
  /\ {supported, dataPtr, resident, isDataValid, tainted} \subseteq BOOLEAN
  /\ {isSupport, isChange} \subseteq BOOLEAN
  /\ backend \in Backends /\ ashmemFd \in {-1} \cup Descriptors
  /\ pageTable \in {"none", "empty", "mapped"}
  /\ refs \in 0..(RefLimit - 1) /\ kept \in 0..refs
  /\ content \in {Bad} \cup 0..MaxBuilders
  /\ nBuilders \in 1..MaxBuilders
  /\ buildDataCount \in 0..(CountLimit - 1)
  /\ dataLock \in SUBSET Threads
  /\ pc \in [Threads -> Positions]
  /\ tryTimes \in [Threads -> 0..(MAX_BUILD_TRYTIMES + 1)]

Goto(t, l) == pc' = [pc EXCEPT ![t] = l]

------------------------------------------------------------------------------
(* The overrides of PurgeableMem and PurgeableAshMem. *)

\* Pin and Unpin change a count: the words of the table, or the driver's.  At
\* descriptor 0 they return false, which no caller looks at.
TableCounts == supported /\ pageTable = "mapped"
DriverCounts == isSupport /\ ashmemFd > 0
Counts == IF backend = "ashmem" THEN DriverCounts ELSE TableCounts

UxptPin == refs' = IF TableCounts THEN refs + 1 ELSE refs
AshmemPin == refs' = IF DriverCounts THEN refs + 1 ELSE refs
PinMut == refs' = refs
Pin == IF backend = "ashmem" THEN AshmemPin ELSE UxptPin

Decrement == (refs + RefLimit - 1) % RefLimit
UxptUnpin == refs' = IF TableCounts THEN Decrement ELSE refs
AshmemUnpin == refs' = IF DriverCounts THEN Decrement ELSE refs
UnpinMut == refs' = refs
Unpin == IF backend = "ashmem" THEN AshmemUnpin ELSE UxptUnpin

UxptIsPurged == pageTable # "none" /\ supported /\ (pageTable = "mapped" => ~resident)
AshmemIsPurged == isSupport /\ ~resident
IsPurged == IF backend = "ashmem" THEN AshmemIsPurged ELSE UxptIsPurged

IfNeedRebuild == buildDataCount = 0 \/ IsPurged

\* A write to the data: it brings back the frames, the driver's flag stays.
Touch == resident' = (resident \/ backend = "uxpt")

\* BuildContent: clear the data ...
BuildClear ==
  /\ content' = 0 /\ Touch
  /\ tainted' = (tainted \/ ~Counts)
  /\ UNCHANGED <<nBuilders, buildDataCount>>

\* Tells the driver, which clears its flag; the frames are there by now.
AfterRebuildSucc == resident' = TRUE

\* ... run the chain on it, and tell the subclass.
BuildSucceeds ==
  /\ content' = IF content = 0 THEN nBuilders ELSE Bad
  /\ AfterRebuildSucc /\ tainted' = FALSE
  /\ buildDataCount' = (buildDataCount + 1) % CountLimit
  /\ UNCHANGED nBuilders

BuildFailsMut ==
  /\ BuilderMayFail
  /\ content' \in 0..(nBuilders - 1)
  /\ AfterRebuildSucc
  /\ tainted' = (tainted \/ (backend = "uxpt" /\ buildDataCount > 0))
  /\ UNCHANGED <<nBuilders, buildDataCount>>
BuildFails ==
  /\ BuilderMayFail
  /\ content' \in 0..(nBuilders - 1)
  /\ Touch
  /\ tainted' = (tainted \/ (backend = "uxpt" /\ buildDataCount > 0))
  /\ UNCHANGED <<nBuilders, buildDataCount>>

------------------------------------------------------------------------------
(* Constructors. *)

\* A table in user memory, for data that was never touched.
UxptInit ==
  /\ backend = "uxpt" /\ pageTable = "mapped"
  /\ dataPtr = TRUE /\ resident = FALSE /\ refs = 0
  /\ ashmemFd = -1 /\ isSupport = FALSE

\* Without data, which ResizeData or ChangeAshmemData provides later, or with a
\* region, whose first pin the final Unpin of CreatePurgeableData takes back.
AshmemInit ==
  /\ backend = "ashmem" /\ pageTable = "none" /\ resident = TRUE
  /\ \/ /\ dataPtr = FALSE /\ refs = 0
        /\ ashmemFd = -1 /\ isSupport = FALSE
     \/ /\ ashmemFd \in Descriptors /\ isSupport = supported
        /\ dataPtr = TRUE /\ refs = IF DriverCounts THEN 0 ELSE 1

\* A constructor has succeeded.
Init ==
  /\ backend \in Backends /\ supported \in Support
  /\ UxptInit \/ AshmemInit
  /\ isChange = FALSE /\ content = 0
  /\ kept = 0 /\ tainted = FALSE
  /\ nBuilders = 1 /\ buildDataCount = 0
  /\ isDataValid = TRUE
  /\ dataLock = {}
  /\ pc = [t \in Threads |-> "idle"]
  /\ tryTimes = [t \in Threads |-> 0]

------------------------------------------------------------------------------
(* Begin calls: dataLock_ is held from here until the call returns.  A     *)
(* Begin that returns false at once, on invalid data or a null dataPtr_,   *)
(* changes nothing and is not a step.                                      *)

Enter(t, l) ==
  /\ pc[t] = "idle" /\ dataLock = {}
  /\ buildDataCount < MaxBuilds
  /\ dataPtr
  /\ dataLock' = {t}
  /\ Pin
  /\ Goto(t, l)
  /\ tryTimes' = [tryTimes EXCEPT ![t] = 0]
  /\ UNCHANGED <<tableVars, dataVars, kept, isDataValid>>

\* The call returns, with the access open or without.
ReturnTrue(t, l) == dataLock' = {} /\ Goto(t, l) /\ UNCHANGED refs
ReturnFalse(t) == dataLock' = {} /\ Goto(t, "idle") /\ Unpin

BeginRead(t) == isDataValid /\ Enter(t, "readLoop")

\* The head of BeginRead's loop.
ReadLoop(t) ==
  /\ pc[t] = "readLoop"
  /\ IF IfNeedRebuild
       THEN BuildClear /\ Goto(t, "readBuild") /\ UNCHANGED <<dataLock, refs>>
       ELSE ReturnTrue(t, "reading") /\ UNCHANGED dataVars
  /\ UNCHANGED <<tableVars, kept, isDataValid, tryTimes>>

\* After a build: the loop goes on unless the build failed or was the last try.
ReadBuiltMut(t) ==
  /\ pc[t] = "readBuild"
  /\ \/ BuildSucceeds /\ Goto(t, "readLoop") /\ UNCHANGED <<dataLock, refs>>
     \/ BuildFails /\ ReturnFalse(t)
  /\ UNCHANGED <<tableVars, kept, isDataValid, tryTimes>>
ReadBuilt(t) ==
  /\ pc[t] = "readBuild"
  /\ tryTimes' = [tryTimes EXCEPT ![t] = @ + 1]
  /\ \/ /\ BuildSucceeds
        /\ IF tryTimes'[t] > MAX_BUILD_TRYTIMES
             THEN ReturnFalse(t)
             ELSE Goto(t, "readLoop") /\ UNCHANGED <<dataLock, refs>>
     \/ BuildFails /\ ReturnFalse(t)
  /\ UNCHANGED <<tableVars, kept, isDataValid>>

\* BeginWrite does not look at isDataValid_ and builds at most once.
BeginWrite(t) == Enter(t, "writeCheck")

WriteCheck(t) ==
  /\ pc[t] = "writeCheck"
  /\ IF IfNeedRebuild
       THEN BuildClear /\ Goto(t, "writeBuild") /\ UNCHANGED <<dataLock, refs>>
       ELSE ReturnTrue(t, "writing") /\ UNCHANGED dataVars
  /\ UNCHANGED <<tableVars, kept, isDataValid, tryTimes>>

WriteBuilt(t) ==
  /\ pc[t] = "writeBuild"
  /\ \/ BuildSucceeds /\ ReturnTrue(t, "writing")
     \/ BuildFails /\ ReturnFalse(t)
  /\ UNCHANGED <<tableVars, kept, isDataValid, tryTimes>>

------------------------------------------------------------------------------
(* The other calls, each under dataLock_ from beginning to end. *)

EndRead(t) ==
  /\ pc[t] = "reading" /\ dataLock = {}
  /\ Goto(t, "idle")
  /\ IF isDataValid THEN Unpin ELSE UNCHANGED refs
  /\ kept' = IF ~isDataValid /\ Counts THEN kept + 1 ELSE kept
  /\ UNCHANGED <<tableVars, dataVars, isDataValid, dataLock, tryTimes>>

EndWrite(t) ==
  /\ pc[t] = "writing" /\ dataLock = {}
  /\ Goto(t, "idle")
  /\ Unpin
  /\ UNCHANGED <<tableVars, dataVars, kept, isDataValid, dataLock, tryTimes>>

\* The modifier is built on the data and then logged; one that fails may have
\* changed the data.
ModifyContentByBuilder(t) ==
  /\ pc[t] = "writing" /\ dataLock = {}
  /\ \/ /\ nBuilders < MaxBuilders
        /\ content' = IF content = nBuilders THEN nBuilders + 1 ELSE Bad
        /\ nBuilders' = nBuilders + 1
        /\ UNCHANGED tainted
     \/ /\ BuilderMayFail
        /\ content' \in {content, Bad}
        /\ tainted' = (tainted \/ content' # content)
        /\ UNCHANGED nBuilders
  /\ Touch
  /\ UNCHANGED <<tableVars, buildDataCount, refs, kept, isDataValid, dataLock, pc, tryTimes>>

\* Bound: the count keeps room for every thread.
SetDataValid ==
  /\ Invalidates /\ dataLock = {}
  /\ refs < RefLimit - Cardinality(Threads)
  /\ isDataValid' = ~isDataValid
  /\ UNCHANGED <<tableVars, dataVars, refs, kept, dataLock, pc, tryTimes>>

\* What pageTable_ may be after MAKE_UNIQUE of a UxPageTable: its constructor
\* drops a table that could not be mapped; without support there is none to map.
NewTables ==
  {"mapped"} \cup IF TableMayFail THEN {"none", IF supported THEN "empty" ELSE "mapped"} ELSE {}

UxptCreate ==
  /\ \/ dataPtr' = TRUE /\ pageTable' \in NewTables
     \/ TableMayFail /\ dataPtr' = FALSE /\ pageTable' = "none"
  /\ refs' = 0
  /\ UNCHANGED <<supported, ashmemFd, isSupport>>

\* A region with the given pins becomes the object's: the driver is asked
\* whether it purges it, and Unpin takes back one pin where it can.
TakeRegion(pins) ==
  /\ dataPtr' = TRUE /\ ashmemFd' \in Descriptors
  /\ supported' \in Support /\ isSupport' = (isSupport \/ supported')
  /\ refs' = IF DriverCounts' THEN pins - 1 ELSE pins
  /\ UNCHANGED pageTable

\* Without a region, or without the mapping of one, whose closed descriptor then
\* stays in ashmemFd_, there is no data.
AshmemCreate ==
  \/ TakeRegion(1)
  \/ /\ TableMayFail /\ dataPtr' = FALSE /\ refs' = 0
     /\ ashmemFd' \in {ashmemFd} \cup Descriptors
     /\ UNCHANGED <<supported, isSupport, pageTable>>

CreatePurgeableData == IF backend = "ashmem" THEN AshmemCreate ELSE UxptCreate

\* ResizeData replaces the data, and the table with it; it takes no lock and is
\* called here while nobody uses the object.  The counter of builds stays.
ResizeData ==
  /\ Resizes /\ \A t \in Threads : pc[t] = "idle"
  /\ CreatePurgeableData
  /\ kept' = 0
  /\ resident' = (backend = "ashmem") /\ content' = 0
  /\ UNCHANGED <<backend, isChange, nBuilders, buildDataCount, isDataValid, dataLock, pc, tryTimes>>
  /\ tainted' = (buildDataCount > 0 /\ ~IsPurged')

\* The client gives the object a region of its own that has the content.  It is
\* pinned as AshmemCreate leaves it, or was unpinned before; the latter only
\* where Unpin does not reach the driver, whose answer to an Unpin without a pin
\* the code does not tell.
ChangeAshmemData ==
  /\ Resizes /\ backend = "ashmem" /\ \A t \in Threads : pc[t] = "idle"
  /\ buildDataCount < MaxBuilds
  /\ \E pins \in 0..1 : TakeRegion(pins) /\ (DriverCounts' => pins = 1)
  /\ isChange' = TRUE /\ kept' = 0
  /\ resident' = TRUE /\ content' = nBuilders /\ tainted' = FALSE
  /\ buildDataCount' = (buildDataCount + 1) % CountLimit
  /\ UNCHANGED <<backend, nBuilders, isDataValid, dataLock, pc, tryTimes>>

------------------------------------------------------------------------------
\* The kernel takes what has no reference (external).
Reclaim ==
  /\ supported /\ dataPtr /\ resident
  /\ refs = 0
  /\ resident' = FALSE /\ content' = 0
  /\ tainted' = (tainted \/ ~Counts)
  /\ UNCHANGED <<tableVars, nBuilders, buildDataCount, refs, kept, isDataValid, dataLock, pc, tryTimes>>

InCall(t) == ReadLoop(t) \/ ReadBuilt(t) \/ WriteCheck(t) \/ WriteBuilt(t)

Next ==
  \/ \E t \in Threads :
       \/ BeginRead(t) \/ BeginWrite(t) \/ InCall(t)
       \/ EndRead(t) \/ EndWrite(t) \/ ModifyContentByBuilder(t)
  \/ SetDataValid
  \/ ResizeData \/ ChangeAshmemData
  \/ Reclaim

Spec == Init /\ [][Next]_vars

\* A thread that holds dataLock_ is scheduled again.
FairSpec == Spec /\ \A t \in Threads : WF_vars(InCall(t))

------------------------------------------------------------------------------
(* Properties. *)

Inside(t) == pc[t] \in {"reading", "writing"}

\* Whoever is between a Begin that returned true and its End sees the effects of
\* all builders in order, although accesses overlap and another thread's Begin,
\* which may clear and rebuild the data, runs under a lock the access does not
\* hold.  The content is lost unnoticed (tainted) in five cases only: a rebuild
\* failed over a table whose words its writes have made present; a modifier
\* failed half-way; ResizeData made new data that no table and no driver can
\* report as purged; the table could not be made and nothing counts; the region
\* has descriptor 0, which Pin and Unpin skip, and came without a pin.  A failed
\* rebuild of an ashmem object is not among them: AfterRebuildSucc runs only on
\* success.
CxxReadersSeeLog == \A t \in Threads : Inside(t) => content = nBuilders \/ tainted

\* When no call is running the count is the number of open accesses, as long as
\* no EndRead has met invalid data: every End and every failing Begin gives back
\* what its Begin took, on whichever of the paths through BeginRead's loop, so
\* that an object nobody uses can be reclaimed.  Nothing is said after an EndRead
\* that met invalid data and kept its reference, nor of descriptor 0, where Pin
\* and Unpin count nothing.
PinsBalanced ==
  dataLock = {} /\ Counts /\ kept = 0 => refs = Cardinality({t \in Threads : Inside(t)})

\* The references protect the data of an open access: a table that could be
\* mapped, a region that Pin can reach, or a region of the object's own at
\* descriptor 0, which keeps its first pin for good.
Protected ==
  IF backend = "ashmem" THEN ashmemFd > 0 \/ ~isChange ELSE pageTable = "mapped"

\* The OS takes nothing away between a Begin that returned true and its End,
\* whichever thread's, unless the table could not be made or the region was lent
\* at descriptor 0.
CxxInsideNotReclaimed ==
  [][(\E t \in Threads : Inside(t)) /\ Protected => (resident => resident')]_vars

\* A Begin call returns, even when its table could not be mapped and every look
\* at it says purged: MAX_BUILD_TRYTIMES ends the loop of BeginRead.
CxxCallsReturn ==
  \A t \in Threads : t \in dataLock ~> t \notin dataLock

------------------------------------------------------------------------------
(* The inductive invariant of the proofs. *)

Holders == {t \in Threads : pc[t] # "idle"}
Readers == {t \in Threads : pc[t] \in {"readLoop", "readBuild", "reading"}}
Building == \E t \in Threads : pc[t] \in {"readBuild", "writeBuild"}

\* The mutex and the references: dataLock_ is held by the one thread inside a
\* call, every thread from its Begin to its End has a reference, and as long as
\* the data is invalid the references that its readers will keep still fit.
RefsInv ==
  /\ dataLock = {t \in Threads : pc[t] \in CallPositions}
  /\ \A t, u \in dataLock : t = u
  /\ Counts => /\ refs = Cardinality(Holders) + kept
               /\ ~isDataValid => kept + Cardinality(Readers) < RefLimit - Cardinality(Threads)
  /\ ~Counts => refs \in 0..1 /\ kept = 0
  /\ kept < RefLimit - Cardinality(Threads)

\* The driver is asked about every region, and one that the object made and that
\* Unpin does not reach keeps the pin it was made with.
RegionInv ==
  backend = "ashmem" /\ dataPtr =>
    /\ ashmemFd # -1 /\ (supported => isSupport)
    /\ ~Counts /\ ~isChange => refs = 1

\* The counter of builds stays below its wrap.
BuildsBounded ==
  /\ buildDataCount < MaxBuilds + MAX_BUILD_TRYTIMES + 1
  /\ \A t \in Threads :
       /\ pc[t] \in {"readLoop", "readBuild"} =>
            tryTimes[t] <= MAX_BUILD_TRYTIMES /\ buildDataCount < MaxBuilds + tryTimes[t]
       /\ pc[t] \in {"writeCheck", "writeBuild"} => buildDataCount < MaxBuilds

\* What an open access and a running build know of the data.
ContentInv ==
  /\ \A t \in Threads : Inside(t) =>
       buildDataCount > 0 /\ (Counts => resident) /\ (content = nBuilders \/ tainted)
  /\ Building => /\ content = 0
                 /\ backend = "ashmem" /\ buildDataCount > 0 => AshmemIsPurged
  /\ ~Building /\ ~IfNeedRebuild => content = nBuilders \/ tainted

\* Lock, references, counter of builds and content fit together in every
\* reachable state, in the middle of calls too: a rebuild that clears the data
\* under an open access happens only where the loss is on record.
CxxInv == CxxTypeOK /\ RefsInv /\ RegionInv /\ BuildsBounded /\ ContentInv
==============================================================================
