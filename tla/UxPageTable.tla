----------------------------- MODULE UxPageTable -----------------------------
(***************************************************************************)
(* The user-extended page table of libpurgeablemem                         *)
(* (src/libpurgeablemem/common/src/ux_page_table_c.c): one word per data   *)
(* page, shared by the process and the kernel without a lock.  Bit 0 says  *)
(* that the page is present, the bits above count the users that pin it,   *)
(* and the all-ones count with bit 0 clear marks a page under reclaim.     *)
(*                                                                         *)
(* A thread walks the pages of a range in UxpteOps and applies one of      *)
(* UxpteAdd, UxpteSub or IsPresentAt to each; every load and every         *)
(* compare-and-swap is a step of its own.  The kernel's side (page faults  *)
(* and the two halves of a reclaim) is external: it is what the code above *)
(* relies on.                                                              *)
(***************************************************************************)
EXTENDS Integers, FiniteSets

CONSTANTS
  Threads,        \* the threads of the process that use the object
  NPages,         \* data pages covered by the table
  RefLimit,       \* reference counts are 0 .. RefLimit-1 (2^63 in the code)
  MarkerVisible   \* may a thread run between the two halves of a reclaim?

ASSUME ThreadsAssumption == IsFiniteSet(Threads)
ASSUME NPagesAssumption == NPages \in Nat \ {0}
ASSUME MarkerAssumption == MarkerVisible \in BOOLEAN

\* Fewer threads than the counter can hold: every count the threads can reach
\* stays below the pattern of UXPTE_UNDER_RECLAIM.
ASSUME RefLimitAssumption ==
  RefLimit \in Nat /\ Cardinality(Threads) + 2 <= RefLimit

Page == 1..NPages

------------------------------------------------------------------------------
(* The word of one page. *)

UXPTE_REFCNT_ONE == 2
WordMax == 2 * RefLimit - 1
Word == 0..WordMax

\* (uxpte_t)(-UXPTE_REFCNT_ONE)
UXPTE_UNDER_RECLAIM == WordMax + 1 - UXPTE_REFCNT_ONE

IsUxptePresentMut(pte) == pte # 0
IsUxptePresent(pte) == pte % 2 = 1

IsUxpteUnderReclaim(pte) == pte = UXPTE_UNDER_RECLAIM

Refcnt(pte) == pte \div 2

\* The unsigned sum of a word and UXPTE_REFCNT_ONE does not fit in the word.
AddOverflows(pte) == pte + UXPTE_REFCNT_ONE > WordMax

\* Unsigned subtraction: wraps below zero.
SubRefcntMut(pte) == IF pte >= 4 THEN pte - 4 ELSE 0
SubRefcnt(pte) ==
  IF pte >= UXPTE_REFCNT_ONE
    THEN pte - UXPTE_REFCNT_ONE
    ELSE pte + WordMax + 1 - UXPTE_REFCNT_ONE

\* What a page fault does to the word: only bit 0 changes.
SetPresent(pte) == IF IsUxptePresent(pte) THEN pte ELSE pte + 1

------------------------------------------------------------------------------
VARIABLES
  g_supportUxpt,  \* outcome of CheckUxpt, fixed before main
  uxpte,          \* the table
  resident,       \* kernel: the pages that have a frame
  reclaiming,     \* kernel: the pages whose reclaim has begun and not ended
  upc,            \* where a thread is in UxpteOps
  off,            \* the page its loop is at
  old, newVal,    \* the locals of UxpteAdd and UxpteSub
  present,        \* what its last UxpteIsPresent returned
  pinned          \* history: pages passed by UxpteGet and not yet by UxptePut

kernelVars == <<resident, reclaiming>>
callVars == <<upc, off, old, newVal, present, pinned>>
uptVars == <<g_supportUxpt, uxpte, kernelVars, callVars>>

Pinners(p) == {t \in Threads : p \in pinned[t]}

TypeOK ==
  /\ g_supportUxpt \in BOOLEAN
  /\ uxpte \in [Page -> Word]
  /\ resident \in SUBSET Page
  /\ reclaiming \in SUBSET resident
  /\ upc \in [Threads -> {"idle", "getLoad", "getCAS", "putLoad", "putCAS", "isPresent"}]
  /\ off \in [Threads -> Page]
  /\ old \in [Threads -> Word]
  /\ newVal \in [Threads -> Word]
  /\ present \in [Threads -> BOOLEAN]
  /\ pinned \in [Threads -> SUBSET Page]

\* The object exists and its first modification has been applied to every page:
\* the table was cleared by InitUxPageTable and each page then faulted in.
UptInit ==
  /\ g_supportUxpt \in BOOLEAN
  /\ uxpte = [p \in Page |-> IF g_supportUxpt THEN 1 ELSE 0]
  /\ resident = Page
  /\ reclaiming = {}
  /\ upc = [t \in Threads |-> "idle"]
  /\ off = [t \in Threads |-> 1]
  /\ old = [t \in Threads |-> 0]
  /\ newVal = [t \in Threads |-> 0]
  /\ present = [t \in Threads |-> FALSE]
  /\ pinned = [t \in Threads |-> {}]

------------------------------------------------------------------------------
(* Calls.  Without kernel support every operation returns at once and a    *)
(* presence query answers true.                                            *)

StartOps(t, first) ==
  /\ upc' = [upc EXCEPT ![t] = first]
  /\ off' = [off EXCEPT ![t] = 1]
  /\ old' = [old EXCEPT ![t] = 0]
  /\ newVal' = [newVal EXCEPT ![t] = 0]
  /\ UNCHANGED <<g_supportUxpt, uxpte, kernelVars, pinned>>

UxpteGet(t) ==
  /\ upc[t] = "idle"
  /\ IF g_supportUxpt
       THEN StartOps(t, "getLoad") /\ UNCHANGED present
       ELSE UNCHANGED uptVars

UxptePut(t) ==
  /\ upc[t] = "idle"
  /\ IF g_supportUxpt
       THEN StartOps(t, "putLoad") /\ UNCHANGED present
       ELSE UNCHANGED uptVars

UxpteIsPresent(t) ==
  /\ upc[t] = "idle"
  /\ IF g_supportUxpt
       THEN StartOps(t, "isPresent") /\ UNCHANGED present
       ELSE /\ present' = [present EXCEPT ![t] = TRUE]
            /\ UNCHANGED <<g_supportUxpt, uxpte, kernelVars,
                           upc, off, old, newVal, pinned>>

------------------------------------------------------------------------------
(* The loop of UxpteOps: the page is done, go to the next one or return.   *)

NextPage(t, first) ==
  /\ upc' = [upc EXCEPT ![t] = IF off[t] = NPages THEN "idle" ELSE first]
  /\ off' = [off EXCEPT ![t] = IF @ = NPages THEN 1 ELSE @ + 1]
  /\ old' = [old EXCEPT ![t] = 0]
  /\ newVal' = [newVal EXCEPT ![t] = 0]

\* UxpteAdd has returned for the page the thread is at: the caller takes the
\* page for pinned, whatever happened to the word.
GetUxpteAtDone(t) ==
  /\ NextPage(t, "getLoad")
  /\ pinned' = [pinned EXCEPT ![t] = @ \cup {off[t]}]

PutUxpteAtDone(t) ==
  /\ NextPage(t, "putLoad")
  /\ pinned' = [pinned EXCEPT ![t] = @ \ {off[t]}]

\* UxpteAdd up to the loop condition.  Under reclaim `continue` jumps to the
\* condition of the do-while, with newVal as the last round left it; on
\* overflow the function returns without a reference.
UxpteAddLoad(t) ==
  LET pte == uxpte[off[t]] IN
  /\ upc[t] = "getLoad"
  /\ IF AddOverflows(pte) /\ ~IsUxpteUnderReclaim(pte)
       THEN GetUxpteAtDone(t)
       ELSE /\ upc' = [upc EXCEPT ![t] = "getCAS"]
            /\ old' = [old EXCEPT ![t] = pte]
            /\ newVal' = [newVal EXCEPT ![t] =
                            IF IsUxpteUnderReclaim(pte) THEN @ ELSE pte + UXPTE_REFCNT_ONE]
            /\ UNCHANGED <<off, pinned>>
  /\ UNCHANGED <<g_supportUxpt, uxpte, kernelVars, present>>

\* The loop condition !UxpteCAS_(pte, old, newVal) of UxpteAdd.
UxpteAddCASMut(t) ==
  /\ upc[t] = "getCAS"
  /\ uxpte' = [uxpte EXCEPT ![off[t]] = newVal[t]]
  /\ GetUxpteAtDone(t)
  /\ UNCHANGED <<g_supportUxpt, kernelVars, present>>
UxpteAddCAS(t) ==
  /\ upc[t] = "getCAS"
  /\ IF uxpte[off[t]] = old[t]
       THEN /\ uxpte' = [uxpte EXCEPT ![off[t]] = newVal[t]]
            /\ GetUxpteAtDone(t)
       ELSE /\ upc' = [upc EXCEPT ![t] = "getLoad"]
            /\ UNCHANGED <<uxpte, off, old, newVal, pinned>>
  /\ UNCHANGED <<g_supportUxpt, kernelVars, present>>

UxpteSubLoad(t) ==
  LET pte == uxpte[off[t]] IN
  /\ upc[t] = "putLoad"
  /\ upc' = [upc EXCEPT ![t] = "putCAS"]
  /\ old' = [old EXCEPT ![t] = pte]
  /\ newVal' = [newVal EXCEPT ![t] = SubRefcnt(pte)]
  /\ UNCHANGED <<g_supportUxpt, uxpte, kernelVars, off, present, pinned>>

UxpteSubCASStale(t) ==
  /\ upc[t] = "putCAS"
  /\ IF uxpte[off[t]] = old[t]
       THEN /\ uxpte' = [uxpte EXCEPT ![off[t]] = newVal[t]]
            /\ PutUxpteAtDone(t)
       ELSE /\ old' = [old EXCEPT ![t] = uxpte[off[t]]]
            /\ UNCHANGED <<uxpte, upc, off, newVal, pinned>>
  /\ UNCHANGED <<g_supportUxpt, kernelVars, present>>
UxpteSubCAS(t) ==
  /\ upc[t] = "putCAS"
  /\ IF uxpte[off[t]] = old[t]
       THEN /\ uxpte' = [uxpte EXCEPT ![off[t]] = newVal[t]]
            /\ PutUxpteAtDone(t)
       ELSE /\ upc' = [upc EXCEPT ![t] = "putLoad"]
            /\ UNCHANGED <<uxpte, off, old, newVal, pinned>>
  /\ UNCHANGED <<g_supportUxpt, kernelVars, present>>

\* The presence query stops at the first page that is not there.
IsPresentAt(t) ==
  LET here == IsUxptePresent(uxpte[off[t]]) IN
  /\ upc[t] = "isPresent"
  /\ IF here
       THEN NextPage(t, "isPresent")
       ELSE /\ upc' = [upc EXCEPT ![t] = "idle"]
            /\ off' = [off EXCEPT ![t] = 1]
            /\ UNCHANGED <<old, newVal>>
  /\ present' = [present EXCEPT ![t] = here]
  /\ UNCHANGED <<g_supportUxpt, uxpte, kernelVars, pinned>>

UxpteOps(t) ==
  \/ UxpteAddLoad(t)
  \/ UxpteAddCAS(t)
  \/ UxpteSubLoad(t)
  \/ UxpteSubCAS(t)
  \/ IsPresentAt(t)

------------------------------------------------------------------------------
(* The kernel (external).                                                  *)

\* A thread writes to the whole range: pages without a frame fault in, and
\* the fault waits for a reclaim of the page to end.
FaultIn ==
  /\ reclaiming = {}
  /\ resident' = Page
  /\ uxpte' = [p \in Page |-> IF g_supportUxpt /\ p \notin resident
                                THEN SetPresent(uxpte[p]) ELSE uxpte[p]]
  /\ UNCHANGED <<g_supportUxpt, reclaiming, callVars>>

\* Reclaim takes a page whose count is zero by swapping in the marker ...
ReclaimBegin(p) ==
  /\ g_supportUxpt
  /\ p \in resident \ reclaiming
  /\ Refcnt(uxpte[p]) = 0
  /\ uxpte' = [uxpte EXCEPT ![p] = UXPTE_UNDER_RECLAIM]
  /\ reclaiming' = reclaiming \cup {p}
  /\ UNCHANGED <<g_supportUxpt, resident, callVars>>

\* ... and ends when the frame is gone and the word is cleared.
ReclaimEnd(p) ==
  /\ p \in reclaiming
  /\ uxpte' = [uxpte EXCEPT ![p] = 0]
  /\ resident' = resident \ {p}
  /\ reclaiming' = reclaiming \ {p}
  /\ UNCHANGED <<g_supportUxpt, callVars>>

\* A thread may take a step.  With MarkerVisible = FALSE the kernel is not
\* observed half-way through a reclaim.
UserMayRun == MarkerVisible \/ reclaiming = {}

------------------------------------------------------------------------------
(* The table on its own: threads get, query and put; anyone may write.     *)

UptThread(t) ==
  \/ pinned[t] = {} /\ UxpteGet(t)
  \/ pinned[t] = Page /\ UxptePut(t)
  \/ UxpteIsPresent(t)
  \/ UxpteOps(t)

UptNext ==
  \/ UserMayRun /\ (\E t \in Threads : UptThread(t))
  \/ UserMayRun /\ FaultIn
  \/ \E p \in Page : ReclaimBegin(p) \/ ReclaimEnd(p)

UptSpec == UptInit /\ [][UptNext]_uptVars

------------------------------------------------------------------------------
(* Properties. *)

\* The count in a page's word is the number of threads that UxpteGet has told
\* that they hold the page: no increment or decrement of UxpteAdd / UxpteSub is
\* lost or doubled by a concurrent one, by a fault or by a reclaim that came
\* between the load and the compare-and-swap.
PinAccounting ==
  g_supportUxpt =>
    \A p \in Page \ reclaiming : Refcnt(uxpte[p]) = Cardinality(Pinners(p))

\* The present bit tells the truth: IsPresentAt answers yes exactly for the
\* pages that have a frame.
PresentIsResident ==
  g_supportUxpt =>
    \A p \in Page \ reclaiming : IsUxptePresent(uxpte[p]) <=> p \in resident

\* The kernel takes no frame away from a page that some thread's UxpteGet has
\* pinned.
PinnedNotReclaimed ==
  [][\A p \in Page : p \in resident \ resident' => Pinners(p) = {}]_uptVars
==============================================================================
