-------------------------- MODULE UxPageTableProofs --------------------------
(***************************************************************************)
(* Proofs about UxPageTable, for any number of threads and pages and any   *)
(* width of the reference count.                                           *)
(***************************************************************************)
EXTENDS UxPageTable, FiniteSetTheorems, TLAPS

\* What a thread's position in UxpteOps says about the pages it has passed and
\* about its locals.  Getting, it has pinned the pages before the cursor;
\* putting, it still has those from the cursor on; the value it is about to
\* store is its loaded value plus or minus one reference.
PositionOK(t) ==
  /\ upc[t] \in {"getLoad", "getCAS"} => pinned[t] = 1..(off[t] - 1)
  /\ upc[t] \in {"putLoad", "putCAS"} => pinned[t] = off[t]..NPages
  /\ upc[t] \in {"idle", "isPresent"} => pinned[t] \in {{}, Page}
  /\ upc[t] = "getCAS" => newVal[t] = old[t] + UXPTE_REFCNT_ONE
  /\ upc[t] = "putCAS" => newVal[t] = SubRefcnt(old[t])

\* A page under reclaim carries the marker and nobody has it pinned.
ReclaimOK ==
  \A p \in reclaiming : uxpte[p] = UXPTE_UNDER_RECLAIM /\ Pinners(p) = {}

\* The inductive invariant behind PinAccounting and PresentIsResident.
PinInv ==
  /\ TypeOK
  /\ \A t \in Threads : PositionOK(t)
  /\ ReclaimOK
  /\ PinAccounting
  /\ PresentIsResident
  /\ ~g_supportUxpt => /\ reclaiming = {}
                       /\ \A t \in Threads : upc[t] = "idle" /\ pinned[t] = {}

------------------------------------------------------------------------------
(* The word of one page. *)

\* The bounds of the constants in the form the arithmetic steps need.
LEMMA ConstantFacts ==
  /\ Cardinality(Threads) \in Nat
  /\ RefLimit \in Nat /\ RefLimit >= 2
  /\ Cardinality(Threads) <= RefLimit - 2
  /\ WordMax \in Nat
  /\ 1 \in Page
BY ThreadsAssumption, NPagesAssumption, RefLimitAssumption, FS_CardinalityType
   DEF WordMax, Page

\* Counts and words are bounded by each other.
LEMMA RefcntFacts ==
  ASSUME NEW w \in Word
  PROVE  /\ Refcnt(w) \in Nat
         /\ Refcnt(w) < RefLimit
         /\ Refcnt(w) <= RefLimit - 2 => ~AddOverflows(w) /\ ~IsUxpteUnderReclaim(w)
BY ConstantFacts
   DEF Word, WordMax, Refcnt, AddOverflows, IsUxpteUnderReclaim, UXPTE_UNDER_RECLAIM,
       UXPTE_REFCNT_ONE

\* UxpteAdd's sum, when it does not overflow, is one more reference and leaves
\* the present bit alone.
LEMMA AddFacts ==
  ASSUME NEW w \in Word, ~AddOverflows(w)
  PROVE  /\ w + UXPTE_REFCNT_ONE \in Word
         /\ Refcnt(w + UXPTE_REFCNT_ONE) = Refcnt(w) + 1
         /\ IsUxptePresent(w + UXPTE_REFCNT_ONE) <=> IsUxptePresent(w)
BY ConstantFacts DEF Word, WordMax, Refcnt, AddOverflows, IsUxptePresent, UXPTE_REFCNT_ONE

\* UxpteSub's difference is one reference less when there is one to give back.
LEMMA SubFacts ==
  ASSUME NEW w \in Word
  PROVE  /\ SubRefcnt(w) \in Word
         /\ Refcnt(w) > 0 => /\ Refcnt(SubRefcnt(w)) = Refcnt(w) - 1
                             /\ IsUxptePresent(SubRefcnt(w)) <=> IsUxptePresent(w)
BY ConstantFacts DEF Word, WordMax, Refcnt, SubRefcnt, IsUxptePresent, UXPTE_REFCNT_ONE

\* A fault sets the present bit and keeps the count.
LEMMA SetPresentFacts ==
  ASSUME NEW w \in Word
  PROVE  /\ SetPresent(w) \in Word
         /\ Refcnt(SetPresent(w)) = Refcnt(w)
         /\ IsUxptePresent(SetPresent(w))
BY ConstantFacts DEF Word, WordMax, Refcnt, SetPresent, IsUxptePresent

\* The marker and the cleared word.
LEMMA MarkerFacts ==
  /\ UXPTE_UNDER_RECLAIM \in Word
  /\ 0 \in Word /\ Refcnt(0) = 0 /\ ~IsUxptePresent(0)
  /\ 1 \in Word /\ Refcnt(1) = 0 /\ IsUxptePresent(1)
BY ConstantFacts DEF Word, WordMax, UXPTE_UNDER_RECLAIM, UXPTE_REFCNT_ONE, Refcnt, IsUxptePresent

------------------------------------------------------------------------------
(* Who pins a page. *)

\* The pinners of a page are finitely many, no more than the threads.
LEMMA PinnersFacts ==
  ASSUME NEW p
  PROVE  /\ IsFiniteSet(Pinners(p))
         /\ Cardinality(Pinners(p)) \in Nat
         /\ Cardinality(Pinners(p)) <= RefLimit - 2
<1>1. Pinners(p) \in SUBSET Threads
  BY DEF Pinners
<1>2. IsFiniteSet(Pinners(p)) /\ Cardinality(Pinners(p)) <= Cardinality(Threads)
  BY <1>1, FS_Subset, ThreadsAssumption
<1>3. Cardinality(Pinners(p)) \in Nat
  BY <1>2, FS_CardinalityType
<1> QED
  BY <1>2, <1>3, ConstantFacts

\* One more page in a thread's set is one more pinner of that page only.
LEMMA PinAdd ==
  ASSUME pinned \in [Threads -> SUBSET Page], NEW t \in Threads, NEW q \in Page,
         q \notin pinned[t],
         pinned' = [pinned EXCEPT ![t] = @ \cup {q}]
  PROVE  \A p \in Page : Cardinality(Pinners(p)') =
            IF p = q THEN Cardinality(Pinners(p)) + 1 ELSE Cardinality(Pinners(p))
<1>1. Pinners(q)' = Pinners(q) \cup {t} /\ t \notin Pinners(q)
  BY DEF Pinners
<1>2. Cardinality(Pinners(q)') = Cardinality(Pinners(q)) + 1
  BY <1>1, FS_AddElement, PinnersFacts, Zenon
<1>3. \A p \in Page \ {q} : Pinners(p)' = Pinners(p)
  BY DEF Pinners
<1> QED
  BY <1>2, <1>3

\* One page less in a thread's set is one pinner less of that page only.
LEMMA PinRemove ==
  ASSUME pinned \in [Threads -> SUBSET Page], NEW t \in Threads, NEW q \in Page,
         q \in pinned[t],
         pinned' = [pinned EXCEPT ![t] = @ \ {q}]
  PROVE  /\ \A p \in Page : Cardinality(Pinners(p)') =
               IF p = q THEN Cardinality(Pinners(p)) - 1 ELSE Cardinality(Pinners(p))
         /\ Cardinality(Pinners(q)) > 0
<1>1. Pinners(q)' = Pinners(q) \ {t} /\ t \in Pinners(q)
  BY DEF Pinners
<1>2. Cardinality(Pinners(q)') = Cardinality(Pinners(q)) - 1
  BY <1>1, FS_RemoveElement, PinnersFacts, Zenon
<1>3. \A p \in Page \ {q} : Pinners(p)' = Pinners(p)
  BY DEF Pinners
<1>4. Cardinality(Pinners(q)) # 0
  BY <1>1, FS_EmptySet, PinnersFacts
<1> QED
  BY <1>2, <1>3, <1>4, PinnersFacts

------------------------------------------------------------------------------
(* Types. *)

\* The start of a table operation keeps the types.
LEMMA TypeStart ==
  ASSUME TypeOK, NEW t \in Threads, UxpteGet(t) \/ UxptePut(t) \/ UxpteIsPresent(t)
  PROVE  TypeOK'
<1> USE DEF TypeOK, uptVars, callVars, kernelVars
<1>1. CASE UxpteGet(t)
  BY <1>1, ConstantFacts, MarkerFacts DEF UxpteGet, StartOps
<1>2. CASE UxptePut(t)
  BY <1>2, ConstantFacts, MarkerFacts DEF UxptePut, StartOps
<1>3. CASE UxpteIsPresent(t)
  <2>1. CASE g_supportUxpt
    <3>1. StartOps(t, "isPresent") /\ UNCHANGED present
      BY <1>3, <2>1 DEF UxpteIsPresent
    <3> QED
      BY <3>1, ConstantFacts, MarkerFacts DEF StartOps
  <2>2. CASE ~g_supportUxpt
    <3>1. /\ present' = [present EXCEPT ![t] = TRUE]
          /\ UNCHANGED <<g_supportUxpt, uxpte, kernelVars, upc, off, old, newVal, pinned>>
      BY <1>3, <2>2 DEF UxpteIsPresent
    <3>2. present' \in [Threads -> BOOLEAN]
      BY <3>1, Zenon
    <3> QED
      BY <3>1, <3>2
  <2> QED
    BY <2>1, <2>2
<1> QED
  BY <1>1, <1>2, <1>3

\* Every step keeps the variables in their types: no word leaves its width and
\* the cursor of UxpteOps stays inside the table.
LEMMA TypeStep ==
  ASSUME TypeOK, [UptNext]_uptVars
  PROVE  TypeOK'
<1> USE DEF TypeOK, uptVars, callVars, kernelVars
<1>1. ASSUME NEW t \in Threads, UptThread(t)
      PROVE  TypeOK'
  <2>1. CASE UxpteGet(t) \/ UxptePut(t) \/ UxpteIsPresent(t)
    BY <2>1, TypeStart
  <2>4. ASSUME off[t] # NPages PROVE off[t] + 1 \in Page
    BY <2>4, NPagesAssumption DEF Page
  <2>5. CASE UxpteAddLoad(t)
    <3>1. CASE AddOverflows(uxpte[off[t]]) /\ ~IsUxpteUnderReclaim(uxpte[off[t]])
      BY <2>4, <2>5, <3>1, ConstantFacts, MarkerFacts DEF UxpteAddLoad, GetUxpteAtDone, NextPage
    <3>2. CASE IsUxpteUnderReclaim(uxpte[off[t]])
      BY <2>5, <3>2 DEF UxpteAddLoad
    <3>3. CASE ~AddOverflows(uxpte[off[t]]) /\ ~IsUxpteUnderReclaim(uxpte[off[t]])
      BY <2>5, <3>3, AddFacts DEF UxpteAddLoad
    <3> QED
      BY <3>1, <3>2, <3>3
  <2>6. CASE UxpteAddCAS(t)
    BY <2>4, <2>6, ConstantFacts, MarkerFacts DEF UxpteAddCAS, GetUxpteAtDone, NextPage
  <2>7. CASE UxpteSubLoad(t)
    BY <2>7, SubFacts DEF UxpteSubLoad
  <2>8. CASE UxpteSubCAS(t)
    BY <2>4, <2>8, ConstantFacts, MarkerFacts DEF UxpteSubCAS, PutUxpteAtDone, NextPage
  <2>9. CASE IsPresentAt(t)
    <3>1. IsUxptePresent(uxpte[off[t]]) \in BOOLEAN
      BY DEF IsUxptePresent
    <3> QED
      BY <2>4, <2>9, <3>1, ConstantFacts, MarkerFacts DEF IsPresentAt, NextPage
  <2> QED
    BY <1>1, <2>1, <2>5, <2>6, <2>7, <2>8, <2>9 DEF UptThread, UxpteOps
<1>2. CASE FaultIn
  BY <1>2, SetPresentFacts DEF FaultIn
<1>3. ASSUME NEW p \in Page, ReclaimBegin(p)
      PROVE  TypeOK'
  BY <1>3, MarkerFacts DEF ReclaimBegin
<1>4. ASSUME NEW p \in Page, ReclaimEnd(p)
      PROVE  TypeOK'
  BY <1>4, MarkerFacts DEF ReclaimEnd
<1>5. CASE UNCHANGED uptVars
  BY <1>5
<1> QED
  BY <1>1, <1>2, <1>3, <1>4, <1>5 DEF UptNext

\* The page table keeps its types for ever, with the marker visible or not.
THEOREM UptTypeCorrect == UptSpec => []TypeOK
<1>1. UptInit => TypeOK
  BY ConstantFacts, MarkerFacts DEF UptInit, TypeOK
<1> QED
  BY <1>1, TypeStep, PTL DEF UptSpec

------------------------------------------------------------------------------
(* The pin protocol. *)

\* A thread running while no reclaim is half-way finds, at every page, a count
\* that can still be incremented and is not the marker.
LEMMA CountBelowMarker ==
  ASSUME PinInv, g_supportUxpt, NEW p \in Page \ reclaiming
  PROVE  ~AddOverflows(uxpte[p]) /\ ~IsUxpteUnderReclaim(uxpte[p])
<1>1. uxpte[p] \in Word
  BY DEF PinInv, TypeOK
<1>2. Refcnt(uxpte[p]) = Cardinality(Pinners(p))
  BY DEF PinInv, PinAccounting
<1> QED
  BY <1>1, <1>2, RefcntFacts, PinnersFacts

\* The start of a table operation pins nothing and touches no word.
LEMMA PinStart ==
  ASSUME PinInv, NEW t \in Threads,
         \/ pinned[t] = {} /\ UxpteGet(t)
         \/ pinned[t] = Page /\ UxptePut(t)
         \/ UxpteIsPresent(t)
  PROVE  PinInv'
<1>0. TypeOK'
  BY TypeStart DEF PinInv
<1>1. UNCHANGED <<g_supportUxpt, uxpte, resident, reclaiming, pinned>>
  BY DEF UxpteGet, UxptePut, UxpteIsPresent, StartOps, uptVars, callVars, kernelVars
<1>2. ReclaimOK' /\ PinAccounting' /\ PresentIsResident'
  BY <1>1 DEF PinInv, ReclaimOK, PinAccounting, PresentIsResident, Pinners
<1>3. \A s \in Threads : PositionOK(s)'
  <2>1. \A s \in Threads \ {t} : UNCHANGED <<upc[s], off[s], old[s], newVal[s], pinned[s]>>
    BY DEF PinInv, TypeOK, UxpteGet, UxptePut, UxpteIsPresent, StartOps, uptVars, callVars
  <2>2. \A s \in Threads \ {t} : PositionOK(s)'
    BY <2>1 DEF PinInv, PositionOK
  <2>3. PositionOK(t)'
    <3>1. CASE pinned[t] = {} /\ UxpteGet(t)
      <4>1. CASE g_supportUxpt
        <5>1. upc'[t] = "getLoad" /\ off'[t] = 1 /\ pinned'[t] = {}
          BY <1>1, <3>1, <4>1 DEF PinInv, TypeOK, UxpteGet, StartOps
        <5>2. 1..(off'[t] - 1) = {}
          BY <5>1
        <5> QED
          BY <5>1, <5>2 DEF PositionOK
      <4>2. CASE ~g_supportUxpt
        BY <3>1, <4>2 DEF PinInv, PositionOK, UxpteGet, uptVars, callVars
      <4> QED
        BY <4>1, <4>2
    <3>2. CASE pinned[t] = Page /\ UxptePut(t)
      BY <3>2, <1>1 DEF PinInv, TypeOK, PositionOK, UxptePut, StartOps, uptVars, callVars, Page
    <3>3. CASE UxpteIsPresent(t)
      BY <3>3, <1>1 DEF PinInv, TypeOK, PositionOK, UxpteIsPresent, StartOps
    <3> QED
      BY <3>1, <3>2, <3>3
  <2> QED
    BY <2>2, <2>3
<1>4. ~g_supportUxpt' => /\ reclaiming' = {}
                        /\ \A s \in Threads : upc'[s] = "idle" /\ pinned'[s] = {}
  BY <1>1 DEF PinInv, UxpteGet, UxptePut, UxpteIsPresent, StartOps, uptVars, callVars
<1> QED
  BY <1>0, <1>2, <1>3, <1>4 DEF PinInv

\* A step inside a table operation: the successful compare-and-swaps move the
\* count and the pinners together, the others change neither.
LEMMA PinOps ==
  ASSUME PinInv, TypeOK', reclaiming = {}, NEW t \in Threads, UxpteOps(t)
  PROVE  PinInv'
<1> DEFINE q == off[t]
<1>0. /\ g_supportUxpt
      /\ q \in Page
      /\ uxpte[q] \in Word
      /\ UNCHANGED <<g_supportUxpt, resident, reclaiming>>
  BY DEF PinInv, TypeOK, UxpteOps, UxpteAddLoad, UxpteAddCAS, UxpteSubLoad, UxpteSubCAS,
         IsPresentAt, kernelVars
<1>1. \A s \in Threads \ {t} : PositionOK(s)'
  <2>1. \A s \in Threads \ {t} : UNCHANGED <<upc[s], off[s], old[s], newVal[s], pinned[s]>>
    BY DEF PinInv, TypeOK, UxpteOps, UxpteAddLoad, UxpteAddCAS, UxpteSubLoad, UxpteSubCAS,
           IsPresentAt, GetUxpteAtDone, PutUxpteAtDone, NextPage
  <2> QED
    BY <2>1 DEF PinInv, PositionOK
<1>2. ~AddOverflows(uxpte[q]) /\ ~IsUxpteUnderReclaim(uxpte[q])
  BY <1>0, CountBelowMarker
<1>3. Refcnt(uxpte[q]) = Cardinality(Pinners(q))
  BY <1>0 DEF PinInv, PinAccounting
<1>4. ASSUME UNCHANGED <<uxpte, pinned>>, PositionOK(t)'
      PROVE  PinInv'
  BY <1>0, <1>1, <1>4 DEF PinInv, ReclaimOK, PinAccounting, PresentIsResident, Pinners
<1>5. CASE UxpteAddLoad(t)
  <2>1. upc'[t] = "getCAS" /\ newVal'[t] = old'[t] + UXPTE_REFCNT_ONE
    BY <1>2, <1>5 DEF UxpteAddLoad, PinInv, TypeOK
  <2>2. UNCHANGED <<uxpte, off, pinned>>
    BY <1>2, <1>5 DEF UxpteAddLoad
  <2>3. PositionOK(t)'
    BY <1>5, <2>1, <2>2 DEF PositionOK, PinInv, UxpteAddLoad
  <2> QED
    BY <1>4, <2>2, <2>3
<1>6. CASE UxpteAddCAS(t)
  <2>1. CASE uxpte[q] # old[t]
    <3>1. UNCHANGED <<uxpte, off, pinned>> /\ upc'[t] = "getLoad"
      BY <1>6, <2>1 DEF UxpteAddCAS, PinInv, TypeOK
    <3>2. PositionOK(t)'
      BY <1>6, <3>1 DEF PositionOK, PinInv, UxpteAddCAS
    <3> QED
      BY <1>4, <3>1, <3>2
  <2>2. CASE uxpte[q] = old[t]
    <3>1. /\ uxpte' = [uxpte EXCEPT ![q] = uxpte[q] + UXPTE_REFCNT_ONE]
          /\ pinned' = [pinned EXCEPT ![t] = @ \cup {q}]
          /\ pinned[t] = 1..(q - 1)
      BY <1>6, <2>2 DEF UxpteAddCAS, GetUxpteAtDone, PinInv, PositionOK
    <3>2. q \notin pinned[t]
      BY <1>0, <3>1 DEF Page
    <3>3. \A p \in Page : Cardinality(Pinners(p)') =
             IF p = q THEN Cardinality(Pinners(p)) + 1 ELSE Cardinality(Pinners(p))
      BY <1>0, <3>1, <3>2, PinAdd, Zenon DEF PinInv, TypeOK
    <3>4. PinAccounting' /\ PresentIsResident'
      BY <1>0, <1>2, <3>1, <3>3, AddFacts DEF PinInv, TypeOK, PinAccounting, PresentIsResident
    <3>5. PositionOK(t)'
      <4>1. pinned'[t] = 1..q
        BY <1>0, <3>1 DEF PinInv, TypeOK, Page
      <4>2. /\ upc'[t] = IF q = NPages THEN "idle" ELSE "getLoad"
            /\ off'[t] = IF q = NPages THEN 1 ELSE q + 1
        BY <1>6, <2>2 DEF UxpteAddCAS, GetUxpteAtDone, NextPage, PinInv, TypeOK
      <4> QED
        BY <1>0, <4>1, <4>2, NPagesAssumption DEF PositionOK, Page
    <3> QED
      BY <1>0, <1>1, <3>4, <3>5 DEF PinInv, ReclaimOK
  <2> QED
    BY <2>1, <2>2
<1>7. CASE UxpteSubLoad(t)
  <2>1. /\ upc'[t] = "putCAS" /\ newVal'[t] = SubRefcnt(old'[t])
        /\ UNCHANGED <<uxpte, off, pinned>>
    BY <1>7 DEF UxpteSubLoad, PinInv, TypeOK
  <2>2. PositionOK(t)'
    BY <1>7, <2>1 DEF PositionOK, PinInv, UxpteSubLoad, SubRefcnt
  <2> QED
    BY <1>4, <2>1, <2>2
<1>8. CASE UxpteSubCAS(t)
  <2>1. CASE uxpte[q] # old[t]
    <3>1. UNCHANGED <<uxpte, off, pinned>> /\ upc'[t] = "putLoad"
      BY <1>8, <2>1 DEF UxpteSubCAS, PinInv, TypeOK
    <3>2. PositionOK(t)'
      BY <1>8, <3>1 DEF PositionOK, PinInv, UxpteSubCAS
    <3> QED
      BY <1>4, <3>1, <3>2
  <2>2. CASE uxpte[q] = old[t]
    <3>1. /\ uxpte' = [uxpte EXCEPT ![q] = SubRefcnt(uxpte[q])]
          /\ pinned' = [pinned EXCEPT ![t] = @ \ {q}]
          /\ pinned[t] = q..NPages
      BY <1>8, <2>2 DEF UxpteSubCAS, PutUxpteAtDone, PinInv, PositionOK
    <3>2. q \in pinned[t]
      BY <1>0, <3>1 DEF Page
    <3>3. /\ \A p \in Page : Cardinality(Pinners(p)') =
               IF p = q THEN Cardinality(Pinners(p)) - 1 ELSE Cardinality(Pinners(p))
          /\ Cardinality(Pinners(q)) > 0
      BY <1>0, <3>1, <3>2, PinRemove, Zenon DEF PinInv, TypeOK
    <3>4. PinAccounting' /\ PresentIsResident'
      BY <1>0, <1>3, <3>1, <3>3, SubFacts DEF PinInv, TypeOK, PinAccounting, PresentIsResident
    <3>5. PositionOK(t)'
      <4>1. pinned'[t] = (q + 1)..NPages
        BY <1>0, <3>1, NPagesAssumption DEF PinInv, TypeOK, Page
      <4>2. /\ upc'[t] = IF q = NPages THEN "idle" ELSE "putLoad"
            /\ off'[t] = IF q = NPages THEN 1 ELSE q + 1
        BY <1>8, <2>2 DEF UxpteSubCAS, PutUxpteAtDone, NextPage, PinInv, TypeOK
      <4> QED
        BY <1>0, <4>1, <4>2, NPagesAssumption DEF PositionOK, Page
    <3> QED
      BY <1>0, <1>1, <3>4, <3>5 DEF PinInv, ReclaimOK
  <2> QED
    BY <2>1, <2>2
<1>9. CASE IsPresentAt(t)
  <2>1. UNCHANGED <<uxpte, pinned>> /\ upc'[t] \in {"idle", "isPresent"}
    BY <1>9 DEF IsPresentAt, NextPage, PinInv, TypeOK
  <2>2. PositionOK(t)'
    BY <1>9, <2>1 DEF PositionOK, PinInv, IsPresentAt
  <2> QED
    BY <1>4, <2>1, <2>2
<1> QED
  BY <1>5, <1>6, <1>7, <1>8, <1>9 DEF UxpteOps

\* A fault sets the present bit of the pages it brings in and no count.
LEMMA PinFault ==
  ASSUME PinInv, TypeOK', FaultIn
  PROVE  PinInv'
<1>1. UNCHANGED <<g_supportUxpt, reclaiming, upc, off, old, newVal, pinned>> /\ reclaiming = {}
  BY DEF FaultIn, callVars
<1>2. \A s \in Threads : PositionOK(s)'
  BY <1>1 DEF PinInv, PositionOK
<1>3. ReclaimOK'
  BY <1>1 DEF ReclaimOK
<1>4. PinAccounting'
  BY <1>1, SetPresentFacts DEF PinInv, TypeOK, PinAccounting, FaultIn, Pinners
<1>5. PresentIsResident'
  BY <1>1, SetPresentFacts DEF PinInv, TypeOK, PresentIsResident, FaultIn
<1> QED
  BY <1>1, <1>2, <1>3, <1>4, <1>5 DEF PinInv

\* Reclaim starts on a page with a zero count, which nobody has pinned.
LEMMA PinReclaimBegin ==
  ASSUME PinInv, TypeOK', NEW p \in Page, ReclaimBegin(p)
  PROVE  PinInv'
<1>1. UNCHANGED <<g_supportUxpt, resident, upc, off, old, newVal, pinned>> /\ g_supportUxpt
  BY DEF ReclaimBegin, callVars
<1>2. \A s \in Threads : PositionOK(s)'
  BY <1>1 DEF PinInv, PositionOK
<1>3. Pinners(p) = {}
  <2>1. Cardinality(Pinners(p)) = 0
    BY DEF PinInv, TypeOK, PinAccounting, ReclaimBegin
  <2> QED
    BY <2>1, FS_EmptySet, PinnersFacts
<1>4. /\ reclaiming' = reclaiming \cup {p}
      /\ uxpte'[p] = UXPTE_UNDER_RECLAIM
      /\ \A r \in Page \ {p} : uxpte'[r] = uxpte[r]
      /\ \A r \in Page : Pinners(r)' = Pinners(r)
  BY <1>1 DEF PinInv, TypeOK, ReclaimBegin, Pinners
<1>5. ReclaimOK'
  BY <1>3, <1>4 DEF PinInv, TypeOK, ReclaimOK
<1>6. PinAccounting'
  BY <1>1, <1>4 DEF PinInv, PinAccounting
<1>7. PresentIsResident'
  BY <1>1, <1>4 DEF PinInv, PresentIsResident
<1> QED
  BY <1>1, <1>2, <1>5, <1>6, <1>7 DEF PinInv

\* It ends with a cleared word on a page that still nobody has pinned.
LEMMA PinReclaimEnd ==
  ASSUME PinInv, TypeOK', NEW p \in Page, ReclaimEnd(p)
  PROVE  PinInv'
<1>1. UNCHANGED <<g_supportUxpt, upc, off, old, newVal, pinned>> /\ p \in reclaiming
  BY DEF ReclaimEnd, callVars
<1>2. \A s \in Threads : PositionOK(s)'
  BY <1>1 DEF PinInv, PositionOK
<1>3. Pinners(p) = {} /\ Cardinality(Pinners(p)) = 0
  BY <1>1, FS_EmptySet DEF PinInv, ReclaimOK
<1>4. ReclaimOK'
  BY <1>1 DEF PinInv, TypeOK, ReclaimOK, ReclaimEnd, Pinners
<1>5. /\ reclaiming' = reclaiming \ {p}
      /\ resident' = resident \ {p}
      /\ uxpte'[p] = 0
      /\ \A r \in Page \ {p} : uxpte'[r] = uxpte[r]
      /\ \A r \in Page : Pinners(r)' = Pinners(r)
  BY <1>1 DEF PinInv, TypeOK, ReclaimEnd, Pinners
<1>6. PinAccounting'
  BY <1>1, <1>3, <1>5, MarkerFacts DEF PinInv, PinAccounting
<1>7. PresentIsResident'
  BY <1>1, <1>5, MarkerFacts DEF PinInv, PresentIsResident
<1> QED
  BY <1>1, <1>2, <1>4, <1>6, <1>7 DEF PinInv, TypeOK

\* PinInv is inductive when no thread runs half-way through a reclaim.
LEMMA PinInvStep ==
  ASSUME ~MarkerVisible, PinInv, [UptNext]_uptVars
  PROVE  PinInv'
<1>1. TypeOK'
  BY TypeStep DEF PinInv
<1>2. ASSUME NEW t \in Threads, UserMayRun, UptThread(t)
      PROVE  PinInv'
  <2>1. reclaiming = {}
    BY <1>2 DEF UserMayRun
  <2>2. CASE UxpteOps(t)
    BY <1>1, <2>1, <2>2, PinOps
  <2> QED
    BY <1>2, <2>2, PinStart DEF UptThread
<1>3. CASE UNCHANGED uptVars
  <2>1. \A s \in Threads : PositionOK(s)'
    BY <1>3 DEF PinInv, PositionOK, uptVars, callVars
  <2>2. ReclaimOK' /\ PinAccounting' /\ PresentIsResident'
    BY <1>3 DEF PinInv, ReclaimOK, PinAccounting, PresentIsResident, Pinners, uptVars, callVars, kernelVars
  <2> QED
    BY <1>1, <1>3, <2>1, <2>2 DEF PinInv, uptVars, callVars, kernelVars
<1> QED
  BY <1>1, <1>2, <1>3, PinFault, PinReclaimBegin, PinReclaimEnd DEF UptNext

\* PinInv holds at the start: nobody holds anything.
LEMMA PinInvInit == UptInit => PinInv
<1> SUFFICES ASSUME UptInit PROVE PinInv
  OBVIOUS
<1>1. TypeOK
  BY ConstantFacts, MarkerFacts DEF UptInit, TypeOK
<1>2. \A p \in Page : Pinners(p) = {} /\ Cardinality(Pinners(p)) = 0
  BY FS_EmptySet DEF UptInit, Pinners
<1>3. \A s \in Threads : PositionOK(s)
  BY DEF UptInit, PositionOK
<1>4. ReclaimOK /\ PinAccounting /\ PresentIsResident
  BY <1>2, MarkerFacts DEF UptInit, ReclaimOK, PinAccounting, PresentIsResident
<1> QED
  BY <1>1, <1>3, <1>4 DEF PinInv, UptInit

------------------------------------------------------------------------------
(* The theorems. *)

\* The inductive invariant holds in every reachable state.
THEOREM PinInvariant == ~MarkerVisible => (UptSpec => []PinInv)
<1>1. ASSUME ~MarkerVisible PROVE PinInv /\ [UptNext]_uptVars => PinInv'
  BY <1>1, PinInvStep
<1>2. ASSUME ~MarkerVisible PROVE UptSpec => []PinInv
  BY <1>1, <1>2, PinInvInit, PTL DEF UptSpec
<1> QED
  BY <1>2

\* As long as the reclaim marker is not observed, UxpteAdd and UxpteSub lose no
\* update: the count of a page is the number of threads holding it.
THEOREM PinAccountingCorrect == ~MarkerVisible => (UptSpec => []PinAccounting)
<1>1. PinInv => PinAccounting
  BY DEF PinInv
<1> QED
  BY <1>1, PinInvariant, PTL

\* Under the same assumption IsPresentAt's bit is the truth about the frame.
THEOREM PresenceCorrect == ~MarkerVisible => (UptSpec => []PresentIsResident)
<1>1. PinInv => PresentIsResident
  BY DEF PinInv
<1> QED
  BY <1>1, PinInvariant, PTL

\* Under the same assumption the OS never takes a page away from a thread whose
\* UxpteGet has passed it and whose UxptePut has not.
THEOREM PinProtects == ~MarkerVisible => (UptSpec => PinnedNotReclaimed)
<1>1. ASSUME PinInv, [UptNext]_uptVars
      PROVE  [\A p \in Page : p \in resident \ resident' => Pinners(p) = {}]_uptVars
  <2>1. ASSUME NEW p \in Page, p \in resident \ resident', UptNext
        PROVE  Pinners(p) = {}
    <3>1. ASSUME NEW t \in Threads, UptThread(t) PROVE resident' = resident
      BY <3>1 DEF UptThread, UxpteOps, UxpteGet, UxptePut, UxpteIsPresent, StartOps,
         UxpteAddLoad, UxpteAddCAS, UxpteSubLoad, UxpteSubCAS, IsPresentAt, uptVars, kernelVars
    <3>2. \E r \in Page : ReclaimEnd(r)
      BY <2>1, <3>1 DEF UptNext, FaultIn, ReclaimBegin
    <3>3. p \in reclaiming
      BY <2>1, <3>2 DEF ReclaimEnd
    <3> QED
      BY <1>1, <3>3 DEF PinInv, ReclaimOK
  <2> QED
    BY <1>1, <2>1
<1> QED
  BY <1>1, PinInvariant, PTL DEF PinnedNotReclaimed, UptSpec
==============================================================================
