-------------------------- MODULE PurgeableMemProofs --------------------------
(***************************************************************************)
(* Proofs about PurgeableMem, for any number of threads, either class of   *)
(* object and any limits.                                                  *)
(***************************************************************************)
EXTENDS PurgeableMem, FiniteSetTheorems, TLAPS

------------------------------------------------------------------------------
(* Arithmetic and cardinalities. *)

\* A remainder below its modulus.
LEMMA SmallMod ==
  ASSUME NEW a \in Nat, NEW n \in Nat, a < n
  PROVE  a % n = a
OBVIOUS

\* Adding the modulus does not change a remainder.
LEMMA WrapMod ==
  ASSUME NEW a \in Nat, NEW n \in Nat, a < n
  PROVE  (a + n) % n = a
OBVIOUS

\* Unpin takes one reference off when there is one.
LEMMA DecrementFacts ==
  ASSUME refs \in 1..(RefLimit - 1)
  PROVE  Decrement = refs - 1
BY WrapMod, LimitsAssumption DEF Decrement

\* The bounds of the constants in the form the arithmetic steps need.
LEMMA ConstantFacts ==
  /\ Cardinality(Threads) \in Nat
  /\ RefLimit \in Nat /\ RefLimit > 1 /\ Cardinality(Threads) < RefLimit
  /\ CountLimit \in Nat /\ CountLimit > 1
  /\ MaxBuilds \in Nat /\ MaxBuilds > 0
  /\ MaxBuilders \in Nat /\ MaxBuilders > 0
BY ThreadsAssumption, LimitsAssumption, FS_CardinalityType

\* Holders and readers are finitely many.
LEMMA SubsetFacts ==
  ASSUME NEW S \in SUBSET Threads
  PROVE  /\ IsFiniteSet(S)
         /\ Cardinality(S) \in Nat
         /\ Cardinality(S) <= Cardinality(Threads)
<1>1. IsFiniteSet(S) /\ Cardinality(S) <= Cardinality(Threads)
  BY FS_Subset, ThreadsAssumption
<1> QED
  BY <1>1, FS_CardinalityType

\* Readers are among the holders, and neither is more than the threads.
LEMMA HolderFacts ==
  /\ IsFiniteSet(Holders) /\ Cardinality(Holders) \in Nat
  /\ Cardinality(Holders) <= Cardinality(Threads)
  /\ IsFiniteSet(Readers) /\ Cardinality(Readers) \in Nat
  /\ Cardinality(Readers) <= Cardinality(Holders)
<1>1. Holders \in SUBSET Threads /\ Readers \in SUBSET Threads /\ Readers \in SUBSET Holders
  BY DEF Holders, Readers
<1>2. IsFiniteSet(Holders) /\ IsFiniteSet(Readers)
  BY <1>1, SubsetFacts
<1>3. Cardinality(Readers) <= Cardinality(Holders)
  BY <1>1, <1>2, FS_Subset
<1> QED
  BY <1>1, <1>3, SubsetFacts

\* A Begin makes one more holder.
LEMMA HoldersEnter ==
  ASSUME pc \in [Threads -> Positions], NEW t \in Threads, NEW l, l # "idle",
         pc[t] = "idle", Goto(t, l)
  PROVE  Cardinality(Holders') = Cardinality(Holders) + 1
<1>1. Holders' = Holders \cup {t} /\ t \notin Holders
  BY DEF Holders, Goto
<1> QED
  BY <1>1, HolderFacts, FS_AddElement, Zenon

\* An End, or a Begin that fails, makes one holder less.
LEMMA HoldersLeave ==
  ASSUME pc \in [Threads -> Positions], NEW t \in Threads, pc[t] # "idle", Goto(t, "idle")
  PROVE  Cardinality(Holders') = Cardinality(Holders) - 1 /\ Cardinality(Holders) > 0
<1>1. Holders' = Holders \ {t} /\ t \in Holders
  BY DEF Holders, Goto
<1>2. Cardinality(Holders) # 0
  BY <1>1, HolderFacts, FS_EmptySet
<1>3. Cardinality(Holders') = Cardinality(Holders) - 1
  BY <1>1, HolderFacts, FS_RemoveElement, Zenon
<1> QED
  BY <1>2, <1>3, HolderFacts

\* Moving on inside a call or into the access changes no holder.
LEMMA HoldersStay ==
  ASSUME pc \in [Threads -> Positions], NEW t \in Threads, NEW l, l # "idle",
         pc[t] # "idle", Goto(t, l)
  PROVE  Holders' = Holders
BY DEF Holders, Goto

\* The end of a read is one reader less.
LEMMA ReadersLeave ==
  ASSUME pc \in [Threads -> Positions], NEW t \in Threads, pc[t] = "reading", Goto(t, "idle")
  PROVE  Cardinality(Readers') = Cardinality(Readers) - 1 /\ Cardinality(Readers) > 0
<1>1. Readers' = Readers \ {t} /\ t \in Readers
  BY DEF Readers, Goto
<1>2. Cardinality(Readers) # 0
  BY <1>1, HolderFacts, FS_EmptySet
<1>3. Cardinality(Readers') = Cardinality(Readers) - 1
  BY <1>1, HolderFacts, FS_RemoveElement, Zenon
<1> QED
  BY <1>2, <1>3, HolderFacts

\* A step that makes no new reader.
LEMMA ReadersShrink ==
  ASSUME Readers' \subseteq Readers
  PROVE  Cardinality(Readers') \in Nat /\ Cardinality(Readers') <= Cardinality(Readers)
<1>1. Cardinality(Readers') <= Cardinality(Readers) /\ IsFiniteSet(Readers')
  BY HolderFacts, FS_Subset
<1> QED
  BY <1>1, FS_CardinalityType

------------------------------------------------------------------------------
(* The mutex and the references. *)

\* The part of CxxTypeOK that rests on RefsInv.
RefTypeOK ==
  /\ refs \in 0..(RefLimit - 1) /\ kept \in 0..refs
  /\ dataLock \in SUBSET Threads

\* The count has room for a Begin.
LEMMA RefsBound ==
  ASSUME CxxTypeOK, RefsInv
  PROVE  /\ Counts => refs <= Cardinality(Holders) + kept
         /\ refs < RefLimit /\ refs \in Nat /\ kept \in Nat
         /\ Counts => refs < RefLimit - Cardinality(Threads) + Cardinality(Holders)
BY ConstantFacts, HolderFacts DEF CxxTypeOK, RefsInv

\* A thread inside a call holds dataLock_ alone.
LEMMA LockedAlone ==
  ASSUME RefsInv, NEW t \in Threads, pc[t] \in CallPositions
  PROVE  dataLock = {t} /\ \A u \in Threads \ {t} : pc[u] \notin CallPositions
BY DEF RefsInv, CallPositions

\* A Begin takes the mutex and a reference.
LEMMA EnterRefs ==
  ASSUME CxxTypeOK, RefsInv, NEW t \in Threads, NEW l \in {"readLoop", "writeCheck"},
         Enter(t, l), l = "readLoop" => isDataValid
  PROVE  RefsInv' /\ RefTypeOK'
<1>0. pc \in [Threads -> Positions]
  BY DEF CxxTypeOK
<1>1. Cardinality(Holders') = Cardinality(Holders) + 1
  BY <1>0, HoldersEnter DEF Enter
<1>2. Cardinality(Holders') <= Cardinality(Threads)
  <2>1. Holders' \in SUBSET Threads
    BY DEF Holders
  <2> QED
    BY <2>1, SubsetFacts
<1>3. Counts' = Counts
  BY DEF Enter, Counts, TableCounts, DriverCounts, tableVars
<1>4. refs' = IF Counts THEN refs + 1 ELSE refs
  BY DEF Enter, Pin, AshmemPin, UxptPin, Counts
<1>5. kept' = kept /\ isDataValid' = isDataValid
  BY DEF Enter
<1>6. pc' = [pc EXCEPT ![t] = l] /\ pc[t] = "idle" /\ dataLock = {} /\ dataLock' = {t}
  BY DEF Enter, Goto
<1>7. ASSUME ~isDataValid PROVE Readers' = Readers
  BY <1>6, <1>7, <1>0 DEF Readers
<1>8. Counts' => refs' = Cardinality(Holders') + kept'
  BY <1>1, <1>3, <1>4, <1>5, HolderFacts DEF RefsInv, CxxTypeOK
<1>9. refs' \in 0..(RefLimit - 1) /\ kept' \in 0..refs'
  BY <1>1, <1>2, <1>3, <1>4, <1>5, <1>8, ConstantFacts, HolderFacts DEF RefsInv, CxxTypeOK
<1>10. dataLock' = {u \in Threads : pc'[u] \in CallPositions}
  BY <1>0, <1>6 DEF RefsInv, CallPositions
<1> QED
  BY <1>3, <1>4, <1>5, <1>6, <1>7, <1>8, <1>9, <1>10 DEF RefsInv, RefTypeOK

\* Going on inside a call.
LEMMA StayRefs ==
  ASSUME CxxTypeOK, RefsInv, NEW t \in Threads, NEW l \in CallPositions,
         pc[t] \in CallPositions,
         l \in {"readLoop", "readBuild"} => pc[t] \in {"readLoop", "readBuild"},
         Goto(t, l), UNCHANGED <<tableVars, refs, kept, isDataValid, dataLock>>
  PROVE  RefsInv' /\ RefTypeOK'
<1>0. pc \in [Threads -> Positions] /\ pc' = [pc EXCEPT ![t] = l]
  BY DEF CxxTypeOK, Goto
<1>1. Holders' = Holders
  BY <1>0 DEF Holders, CallPositions
<1>2. Readers' \subseteq Readers
  BY <1>0 DEF Readers, CallPositions
<1>3. Counts' = Counts
  BY DEF Counts, TableCounts, DriverCounts, tableVars
<1>4. dataLock' = {u \in Threads : pc'[u] \in CallPositions}
  BY <1>0 DEF RefsInv
<1>5. Cardinality(Readers') \in Nat /\ Cardinality(Readers') <= Cardinality(Readers)
  BY <1>2, ReadersShrink
<1>6. RefTypeOK'
  BY DEF CxxTypeOK, RefTypeOK
<1> QED
  BY <1>1, <1>3, <1>4, <1>5, <1>6, ConstantFacts, HolderFacts DEF RefsInv, CxxTypeOK

\* A Begin that returns true keeps its reference for the access.
LEMMA ReturnTrueRefs ==
  ASSUME CxxTypeOK, RefsInv, NEW t \in Threads, NEW l \in {"reading", "writing"},
         pc[t] \in CallPositions,
         l = "reading" => pc[t] \in {"readLoop", "readBuild"},
         ReturnTrue(t, l), UNCHANGED <<tableVars, kept, isDataValid>>
  PROVE  RefsInv' /\ RefTypeOK'
<1>0. /\ pc \in [Threads -> Positions] /\ pc' = [pc EXCEPT ![t] = l]
      /\ refs' = refs /\ dataLock' = {}
  BY DEF CxxTypeOK, Goto, ReturnTrue
<1>1. Holders' = Holders
  BY <1>0 DEF Holders, CallPositions
<1>2. Readers' \subseteq Readers
  BY <1>0 DEF Readers, CallPositions
<1>3. Counts' = Counts
  BY DEF Counts, TableCounts, DriverCounts, tableVars
<1>4. dataLock' = {u \in Threads : pc'[u] \in CallPositions}
  BY <1>0, LockedAlone DEF CallPositions
<1>5. Cardinality(Readers') \in Nat /\ Cardinality(Readers') <= Cardinality(Readers)
  BY <1>2, ReadersShrink
<1>6. RefTypeOK'
  BY <1>0 DEF CxxTypeOK, RefTypeOK
<1> QED
  BY <1>0, <1>1, <1>3, <1>4, <1>5, <1>6, ConstantFacts, HolderFacts DEF RefsInv, CxxTypeOK

\* A step that leaves a call or an access and gives back the reference.
LEMMA UnpinRefs ==
  ASSUME CxxTypeOK, RefsInv, NEW t \in Threads, pc[t] # "idle",
         Goto(t, "idle"), Unpin, dataLock' = dataLock \ {t},
         UNCHANGED <<tableVars, kept, isDataValid>>
  PROVE  RefsInv' /\ RefTypeOK'
<1>0. pc \in [Threads -> Positions] /\ pc' = [pc EXCEPT ![t] = "idle"]
  BY DEF CxxTypeOK, Goto
<1>1. Cardinality(Holders') = Cardinality(Holders) - 1 /\ Cardinality(Holders) > 0
  BY <1>0, HoldersLeave
<1>2. Readers' \subseteq Readers
  BY <1>0 DEF Readers
<1>3. Counts' = Counts
  BY DEF Counts, TableCounts, DriverCounts, tableVars
<1>4. dataLock' = {u \in Threads : pc'[u] \in CallPositions}
  BY <1>0 DEF RefsInv, CallPositions
<1>5. Cardinality(Readers') \in Nat /\ Cardinality(Readers') <= Cardinality(Readers)
  BY <1>2, ReadersShrink
<1>6. Counts => refs \in 1..(RefLimit - 1)
  BY <1>1, HolderFacts, ConstantFacts DEF RefsInv, CxxTypeOK
<1>7. refs' = IF Counts THEN refs - 1 ELSE refs
  BY <1>6, DecrementFacts DEF Unpin, UxptUnpin, AshmemUnpin, Counts
<1>8. RefTypeOK'
  BY <1>1, <1>6, <1>7, HolderFacts, ConstantFacts DEF CxxTypeOK, RefsInv, RefTypeOK
<1>9. Counts' => refs' = Cardinality(Holders') + kept'
  BY <1>1, <1>3, <1>6, <1>7, HolderFacts DEF RefsInv, CxxTypeOK
<1> QED
  BY <1>3, <1>4, <1>5, <1>7, <1>8, <1>9, ConstantFacts, HolderFacts DEF RefsInv, CxxTypeOK

\* An EndRead that meets invalid data keeps the reference, which kept records.
LEMMA KeepRefs ==
  ASSUME CxxTypeOK, RefsInv, NEW t \in Threads, EndRead(t), ~isDataValid
  PROVE  RefsInv' /\ RefTypeOK'
<1>0. /\ pc \in [Threads -> Positions] /\ pc' = [pc EXCEPT ![t] = "idle"]
      /\ Goto(t, "idle") /\ pc[t] = "reading"
      /\ refs' = refs /\ kept' = IF Counts THEN kept + 1 ELSE kept
      /\ dataLock = {} /\ dataLock' = {} /\ isDataValid' = isDataValid
  BY DEF CxxTypeOK, EndRead, Goto
<1>1. Cardinality(Holders') = Cardinality(Holders) - 1 /\ Cardinality(Holders) > 0
  BY <1>0, HoldersLeave
<1>2. Cardinality(Readers') = Cardinality(Readers) - 1 /\ Cardinality(Readers) > 0
  BY <1>0, ReadersLeave
<1>3. Counts' = Counts
  BY DEF Counts, TableCounts, DriverCounts, EndRead, tableVars
<1>4. dataLock' = {u \in Threads : pc'[u] \in CallPositions}
  BY <1>0 DEF RefsInv, CallPositions
<1>5. RefTypeOK'
  BY <1>0, <1>1, HolderFacts, ConstantFacts DEF CxxTypeOK, RefsInv, RefTypeOK
<1> QED
  BY <1>0, <1>1, <1>2, <1>3, <1>4, <1>5, ConstantFacts, HolderFacts DEF RefsInv, CxxTypeOK

\* A step that starts the references afresh, while nobody uses the object.
LEMMA FreshRefs ==
  ASSUME CxxTypeOK, RefsInv, \A t \in Threads : pc[t] = "idle",
         refs' \in 0..1, Counts' => refs' = 0, kept' = 0, UNCHANGED <<isDataValid, dataLock, pc>>
  PROVE  RefsInv' /\ RefTypeOK'
<1>1. Holders' = {} /\ Readers' = {}
  BY DEF Holders, Readers
<1>2. Cardinality(Holders') = 0 /\ Cardinality(Readers') = 0
  BY <1>1, FS_EmptySet
<1> QED
  BY <1>2, ConstantFacts DEF RefsInv, RefTypeOK, CxxTypeOK

\* SetDataValid may turn the data invalid while its readers' references fit.
LEMMA ValidRefs ==
  ASSUME CxxTypeOK, RefsInv, SetDataValid
  PROVE  RefsInv' /\ RefTypeOK'
<1>1. Holders' = Holders /\ Readers' = Readers /\ Counts' = Counts
  BY DEF SetDataValid, Holders, Readers, Counts, TableCounts, DriverCounts, tableVars
<1>2. refs < RefLimit - Cardinality(Threads)
  BY DEF SetDataValid
<1>3. Counts => kept + Cardinality(Readers) < RefLimit - Cardinality(Threads)
  BY <1>2, HolderFacts, ConstantFacts DEF RefsInv, CxxTypeOK
<1> QED
  BY <1>1, <1>3 DEF SetDataValid, RefsInv, RefTypeOK, CxxTypeOK

\* Steps that do not touch the references or the mutex.
LEMMA OtherRefs ==
  ASSUME CxxTypeOK, RefsInv,
         UNCHANGED <<tableVars, refs, kept, isDataValid, dataLock, pc>>
  PROVE  RefsInv' /\ RefTypeOK'
<1>1. Holders' = Holders /\ Readers' = Readers /\ Counts' = Counts
  BY DEF Holders, Readers, Counts, TableCounts, DriverCounts, tableVars
<1> QED
  BY <1>1 DEF RefsInv, RefTypeOK, CxxTypeOK

\* What a region, or a table, that is new to the object counts.
LEMMA TakeRegionFacts ==
  ASSUME backend = "ashmem", UNCHANGED backend, NEW pins \in 0..1, TakeRegion(pins),
         DriverCounts' => pins = 1
  PROVE  refs' \in 0..1 /\ (Counts' => refs' = 0) /\ (~Counts' => refs' = pins)
BY DEF TakeRegion, Counts

LEMMA CreateFacts ==
  ASSUME CxxTypeOK, CreatePurgeableData, UNCHANGED backend
  PROVE  refs' \in 0..1 /\ (Counts' => refs' = 0)
<1>1. CASE backend = "ashmem" /\ TakeRegion(1)
  BY <1>1, TakeRegionFacts
<1>2. CASE refs' = 0
  BY <1>2
<1> QED
  BY <1>1, <1>2 DEF CreatePurgeableData, AshmemCreate, UxptCreate

\* Every step keeps mutex and references in order.
LEMMA RefsStep ==
  ASSUME CxxTypeOK, RefsInv, [Next]_vars
  PROVE  RefsInv' /\ RefTypeOK'
<1>1. ASSUME NEW t \in Threads, BeginRead(t) PROVE RefsInv' /\ RefTypeOK'
  BY <1>1, EnterRefs DEF BeginRead
<1>2. ASSUME NEW t \in Threads, BeginWrite(t) PROVE RefsInv' /\ RefTypeOK'
  BY <1>2, EnterRefs DEF BeginWrite
<1>3. ASSUME NEW t \in Threads, ReadLoop(t) PROVE RefsInv' /\ RefTypeOK'
  <2>1. CASE IfNeedRebuild
    BY <1>3, <2>1, StayRefs DEF ReadLoop, CallPositions
  <2>2. CASE ~IfNeedRebuild
    BY <1>3, <2>2, ReturnTrueRefs DEF ReadLoop, CallPositions
  <2> QED
    BY <2>1, <2>2
<1>4. ASSUME NEW t \in Threads, ReadBuilt(t) PROVE RefsInv' /\ RefTypeOK'
  <2>1. pc[t] \in CallPositions /\ pc[t] = "readBuild" /\ pc[t] # "idle"
    BY <1>4 DEF ReadBuilt, CallPositions
  <2>2. UNCHANGED <<tableVars, kept, isDataValid>>
    BY <1>4 DEF ReadBuilt
  <2>3. \/ ReturnFalse(t)
        \/ Goto(t, "readLoop") /\ UNCHANGED <<dataLock, refs>>
    BY <1>4 DEF ReadBuilt
  <2>4. CASE ReturnFalse(t)
    BY <2>1, <2>2, <2>4, LockedAlone, UnpinRefs DEF ReturnFalse
  <2>5. CASE Goto(t, "readLoop") /\ UNCHANGED <<dataLock, refs>>
    BY <2>1, <2>2, <2>5, StayRefs DEF CallPositions
  <2> QED
    BY <2>3, <2>4, <2>5
<1>5. ASSUME NEW t \in Threads, WriteCheck(t) PROVE RefsInv' /\ RefTypeOK'
  <2>1. CASE IfNeedRebuild
    BY <1>5, <2>1, StayRefs DEF WriteCheck, CallPositions
  <2>2. CASE ~IfNeedRebuild
    BY <1>5, <2>2, ReturnTrueRefs DEF WriteCheck, CallPositions
  <2> QED
    BY <2>1, <2>2
<1>6. ASSUME NEW t \in Threads, WriteBuilt(t) PROVE RefsInv' /\ RefTypeOK'
  <2>1. pc[t] \in CallPositions /\ pc[t] # "idle" /\ UNCHANGED <<tableVars, kept, isDataValid>>
    BY <1>6 DEF WriteBuilt, CallPositions
  <2>2. CASE ReturnTrue(t, "writing")
    BY <2>1, <2>2, ReturnTrueRefs
  <2>3. CASE ReturnFalse(t)
    BY <2>1, <2>3, LockedAlone, UnpinRefs DEF ReturnFalse
  <2> QED
    BY <1>6, <2>2, <2>3 DEF WriteBuilt
<1>7. ASSUME NEW t \in Threads, EndRead(t) PROVE RefsInv' /\ RefTypeOK'
  <2>1. CASE isDataValid
    BY <1>7, <2>1, UnpinRefs DEF EndRead
  <2>2. CASE ~isDataValid
    BY <1>7, <2>2, KeepRefs
  <2> QED
    BY <2>1, <2>2
<1>8. ASSUME NEW t \in Threads, EndWrite(t) PROVE RefsInv' /\ RefTypeOK'
  BY <1>8, UnpinRefs DEF EndWrite
<1>9. CASE SetDataValid
  BY <1>9, ValidRefs
<1>10. CASE ResizeData \/ ChangeAshmemData
  <2>1. refs' \in 0..1 /\ (Counts' => refs' = 0)
    <3>1. CASE ResizeData
      BY <3>1, CreateFacts DEF ResizeData
    <3>2. CASE ChangeAshmemData
      BY <3>2, TakeRegionFacts DEF ChangeAshmemData
    <3> QED
      BY <1>10, <3>1, <3>2
  <2> QED
    BY <1>10, <2>1, FreshRefs DEF ResizeData, ChangeAshmemData
<1>11. CASE Reclaim \/ (\E t \in Threads : ModifyContentByBuilder(t)) \/ UNCHANGED vars
  BY <1>11, OtherRefs DEF Reclaim, ModifyContentByBuilder, vars
<1> QED
  BY <1>1, <1>2, <1>3, <1>4, <1>5, <1>6, <1>7, <1>8, <1>9, <1>10, <1>11 DEF Next, InCall

\* Every region is asked about, and one of the object's own at descriptor 0 keeps
\* its pin.
LEMMA RegionStep ==
  ASSUME CxxTypeOK, RegionInv, [Next]_vars
  PROVE  RegionInv'
<1>0. ASSUME NEW pins, TakeRegion(pins) PROVE ashmemFd' # -1 /\ (supported' => isSupport')
  <2>1. ashmemFd' \in Nat
    BY <1>0, DescriptorsAssumption DEF TakeRegion
  <2>2. supported' => isSupport'
    BY <1>0, Zenon DEF TakeRegion
  <2> QED
    BY <2>1, <2>2
<1>1. CASE UNCHANGED tableVars /\ (~Counts => refs' = refs)
  BY <1>1 DEF RegionInv, tableVars, Counts, TableCounts, DriverCounts
<1>2. CASE ResizeData
  <2>1. CASE backend = "ashmem" /\ TakeRegion(1)
    <3>1. UNCHANGED backend /\ (~Counts' => refs' = 1)
      BY <1>2, <2>1, TakeRegionFacts DEF ResizeData
    <3>2. ashmemFd' # -1 /\ (supported' => isSupport')
      BY <2>1, <1>0
    <3> QED
      BY <3>1, <3>2 DEF RegionInv
  <2>2. CASE backend # "ashmem" \/ dataPtr' = FALSE
    BY <1>2, <2>2 DEF RegionInv, ResizeData
  <2> QED
    BY <1>2, <2>1, <2>2 DEF ResizeData, CreatePurgeableData, AshmemCreate
<1>3. CASE ChangeAshmemData
  BY <1>0, <1>3 DEF ChangeAshmemData, RegionInv
<1>4. Next => \/ ResizeData \/ ChangeAshmemData
              \/ UNCHANGED tableVars /\ (~Counts => refs' = refs)
  BY DEF Next, InCall, BeginRead, BeginWrite, Enter, ReadLoop, ReadBuilt, WriteCheck, WriteBuilt,
         ReturnTrue, ReturnFalse, EndRead, EndWrite, ModifyContentByBuilder, SetDataValid, Reclaim,
         Pin, Unpin, AshmemPin, UxptPin, AshmemUnpin, UxptUnpin, Counts
<1> QED
  BY <1>1, <1>2, <1>3, <1>4 DEF vars

------------------------------------------------------------------------------
(* The types of the rest. *)

\* The other parts of CxxTypeOK.
FlagTypeOK == resident \in BOOLEAN /\ tainted \in BOOLEAN

NumberTypeOK ==
  /\ content \in {Bad} \cup 0..MaxBuilders
  /\ nBuilders \in 1..MaxBuilders
  /\ buildDataCount \in 0..(CountLimit - 1)

ControlTypeOK ==
  /\ {supported, dataPtr, isDataValid, isSupport, isChange} \subseteq BOOLEAN
  /\ backend \in Backends /\ ashmemFd \in {-1} \cup Descriptors
  /\ pageTable \in {"none", "empty", "mapped"}
  /\ pc \in [Threads -> Positions]
  /\ tryTimes \in [Threads -> 0..(MAX_BUILD_TRYTIMES + 1)]

\* CxxTypeOK in the parts the proofs treat separately.
LEMMA TypeParts == CxxTypeOK <=> RefTypeOK /\ FlagTypeOK /\ NumberTypeOK /\ ControlTypeOK
BY DEF CxxTypeOK, RefTypeOK, FlagTypeOK, NumberTypeOK, ControlTypeOK

\* The counter of builds after one more build.
LEMMA CountFacts ==
  ASSUME buildDataCount \in 0..(CountLimit - 1)
  PROVE  /\ (buildDataCount + 1) % CountLimit \in 0..(CountLimit - 1)
         /\ (buildDataCount + 1) % CountLimit <= buildDataCount + 1
         /\ buildDataCount + 1 < CountLimit => (buildDataCount + 1) % CountLimit = buildDataCount + 1
<1>1. CASE buildDataCount + 1 < CountLimit
  BY <1>1, SmallMod, ConstantFacts
<1>2. CASE buildDataCount + 1 = CountLimit
  BY <1>2, WrapMod, ConstantFacts
<1> QED
  BY <1>1, <1>2, ConstantFacts

\* The steps that change the data.
LEMMA DataSteps ==
  ASSUME [Next]_vars
  PROVE  \/ UNCHANGED dataVars
         \/ BuildClear \/ BuildSucceeds \/ BuildFails
         \/ \E t \in Threads : ModifyContentByBuilder(t)
         \/ ResizeData \/ ChangeAshmemData \/ Reclaim
BY DEF Next, InCall, ReadLoop, ReadBuilt, WriteCheck, WriteBuilt, SetDataValid, vars,
       BeginRead, BeginWrite, EndRead, EndWrite, Enter

\* The flags stay Boolean.
LEMMA FlagTypeStep ==
  ASSUME FlagTypeOK, [Next]_vars
  PROVE  FlagTypeOK'
BY DataSteps, Zenon DEF FlagTypeOK, dataVars, BuildClear, BuildSucceeds, BuildFails, Touch,
       AfterRebuildSucc, ModifyContentByBuilder, ResizeData, ChangeAshmemData, Reclaim

\* Content, chain and counter of builds stay within their bounds.
LEMMA NumberTypeStep ==
  ASSUME NumberTypeOK, [Next]_vars
  PROVE  NumberTypeOK'
<1>1. CASE UNCHANGED dataVars
  BY <1>1 DEF NumberTypeOK, dataVars
<1>2. CASE BuildClear \/ BuildFails \/ Reclaim \/ ResizeData
  BY <1>2, ConstantFacts DEF NumberTypeOK, BuildClear, BuildFails, Reclaim, ResizeData
<1>3. CASE BuildSucceeds
  BY <1>3, CountFacts DEF NumberTypeOK, BuildSucceeds
<1>4. CASE ChangeAshmemData
  BY <1>4, CountFacts DEF NumberTypeOK, ChangeAshmemData
<1>5. CASE \E t \in Threads : ModifyContentByBuilder(t)
  BY <1>5, ConstantFacts DEF NumberTypeOK, ModifyContentByBuilder
<1> QED
  BY <1>1, <1>2, <1>3, <1>4, <1>5, DataSteps

\* Positions and tryTimes stay within theirs; the latter because BeginRead's loop
\* ends after MAX_BUILD_TRYTIMES.
LEMMA ControlTypeStep ==
  ASSUME CxxTypeOK, BuildsBounded, [Next]_vars
  PROVE  ControlTypeOK'
<1>0. ControlTypeOK
  BY TypeParts
<1>1. CASE UNCHANGED <<tableVars, isDataValid, pc, tryTimes>>
  BY <1>0, <1>1 DEF ControlTypeOK, tableVars
<1>2. ASSUME NEW t \in Threads, NEW l \in Positions, Goto(t, l),
             UNCHANGED <<tableVars, isDataValid>>,
             \/ UNCHANGED tryTimes
             \/ \E n \in 0..(MAX_BUILD_TRYTIMES + 1) : tryTimes' = [tryTimes EXCEPT ![t] = n]
      PROVE  ControlTypeOK'
  BY <1>0, <1>2 DEF ControlTypeOK, tableVars, Goto
<1>3. ASSUME NEW t \in Threads, BeginRead(t) \/ BeginWrite(t) PROVE ControlTypeOK'
  BY <1>2, <1>3 DEF BeginRead, BeginWrite, Enter, Positions, CallPositions, MAX_BUILD_TRYTIMES
<1>4. ASSUME NEW t \in Threads, ReadLoop(t) \/ WriteCheck(t) \/ WriteBuilt(t) PROVE ControlTypeOK'
  BY <1>2, <1>4 DEF ReadLoop, WriteCheck, WriteBuilt, ReturnTrue, ReturnFalse, Positions, CallPositions
<1>5. ASSUME NEW t \in Threads, ReadBuilt(t) PROVE ControlTypeOK'
  <2>1. PICK l \in Positions : Goto(t, l)
    BY <1>5 DEF ReadBuilt, ReturnFalse, Positions, CallPositions
  <2>2. tryTimes' \in [Threads -> 0..(MAX_BUILD_TRYTIMES + 1)]
    <3>1. tryTimes[t] + 1 \in 0..(MAX_BUILD_TRYTIMES + 1)
      BY <1>0, <1>5 DEF ReadBuilt, BuildsBounded, ControlTypeOK, MAX_BUILD_TRYTIMES
    <3> QED
      BY <1>0, <1>5, <3>1 DEF ReadBuilt, ControlTypeOK
  <2> QED
    BY <1>0, <1>5, <2>1, <2>2 DEF ReadBuilt, ControlTypeOK, tableVars, Goto
<1>6. ASSUME NEW t \in Threads, EndRead(t) \/ EndWrite(t) PROVE ControlTypeOK'
  BY <1>2, <1>6 DEF EndRead, EndWrite, Positions
<1>7. CASE SetDataValid
  BY <1>0, <1>7 DEF SetDataValid, ControlTypeOK, tableVars
<1>8. ASSUME NEW pins, TakeRegion(pins)
      PROVE  /\ {supported', dataPtr', isSupport'} \subseteq BOOLEAN
             /\ ashmemFd' \in Descriptors /\ UNCHANGED pageTable
  BY <1>0, <1>8, SupportAssumption, Zenon DEF TakeRegion, ControlTypeOK
<1>9. CASE ResizeData
  <2>1. /\ {supported', dataPtr', isSupport'} \subseteq BOOLEAN
        /\ ashmemFd' \in {-1} \cup Descriptors
        /\ pageTable' \in {"none", "empty", "mapped"}
    BY <1>0, <1>8, <1>9, Zenon
       DEF ResizeData, ControlTypeOK, CreatePurgeableData, AshmemCreate, UxptCreate, NewTables
  <2> QED
    BY <1>0, <1>9, <2>1, Zenon DEF ResizeData, ControlTypeOK
<1>10. CASE ChangeAshmemData
  BY <1>0, <1>8, <1>10, Zenon DEF ChangeAshmemData, ControlTypeOK
<1>11. CASE Reclaim \/ (\E t \in Threads : ModifyContentByBuilder(t)) \/ UNCHANGED vars
  BY <1>1, <1>11 DEF Reclaim, ModifyContentByBuilder, vars
<1> QED
  BY <1>3, <1>4, <1>5, <1>6, <1>7, <1>9, <1>10, <1>11 DEF Next, InCall

------------------------------------------------------------------------------
(* The counter of builds. *)

\* Within a call the counter moves with tryTimes; between calls it stands still
\* except for ChangeAshmemData.
LEMMA BoundsStep ==
  ASSUME CxxTypeOK, RefsInv, BuildsBounded, [Next]_vars
  PROVE  BuildsBounded'
<1> USE ConstantFacts DEF MAX_BUILD_TRYTIMES
<1>0. /\ buildDataCount \in Nat /\ pc \in [Threads -> Positions]
      /\ tryTimes \in [Threads -> 0..(MAX_BUILD_TRYTIMES + 1)]
  BY DEF CxxTypeOK
<1>1. CASE UNCHANGED <<buildDataCount, pc, tryTimes>>
  BY <1>1 DEF BuildsBounded
<1>2. ASSUME NEW t \in Threads, NEW l, Enter(t, l) PROVE BuildsBounded'
  BY <1>0, <1>2 DEF Enter, Goto, dataVars, BuildsBounded
<1>3. ASSUME NEW t \in Threads, ReadLoop(t) \/ WriteCheck(t) PROVE BuildsBounded'
  <2>1. /\ UNCHANGED <<buildDataCount, tryTimes>>
        /\ \/ pc[t] = "readLoop" /\ (Goto(t, "readBuild") \/ Goto(t, "reading"))
           \/ pc[t] = "writeCheck" /\ (Goto(t, "writeBuild") \/ Goto(t, "writing"))
    BY <1>3 DEF ReadLoop, WriteCheck, BuildClear, ReturnTrue, dataVars
  <2> QED
    BY <1>0, <2>1 DEF BuildsBounded, Goto
<1>4. ASSUME NEW t \in Threads, ReadBuilt(t) PROVE BuildsBounded'
  <2>1. /\ tryTimes' = [tryTimes EXCEPT ![t] = tryTimes[t] + 1] /\ pc[t] = "readBuild"
        /\ \/ tryTimes'[t] > MAX_BUILD_TRYTIMES /\ Goto(t, "idle")
           \/ tryTimes'[t] <= MAX_BUILD_TRYTIMES /\ Goto(t, "readLoop")
           \/ Goto(t, "idle")
    BY <1>0, <1>4 DEF ReadBuilt, ReturnFalse
  <2>2. buildDataCount' \in Nat /\ buildDataCount' <= buildDataCount + 1
    BY <1>4, <1>0, CountFacts DEF ReadBuilt, BuildSucceeds, BuildFails, CxxTypeOK
  <2>3. \A u \in Threads \ {t} : pc'[u] \notin CallPositions
    BY <1>0, <2>1, LockedAlone DEF Goto, CallPositions
  <2> QED
    BY <1>0, <2>1, <2>2, <2>3 DEF BuildsBounded, Goto, CallPositions
<1>5. ASSUME NEW t \in Threads, WriteBuilt(t) PROVE BuildsBounded'
  <2>1. /\ UNCHANGED tryTimes /\ pc[t] = "writeBuild"
        /\ Goto(t, "idle") \/ Goto(t, "writing")
    BY <1>5 DEF WriteBuilt, ReturnFalse, ReturnTrue
  <2>2. buildDataCount' \in Nat /\ buildDataCount' <= buildDataCount + 1
    BY <1>5, <1>0, CountFacts DEF WriteBuilt, BuildSucceeds, BuildFails, CxxTypeOK
  <2>3. \A u \in Threads : pc'[u] \notin CallPositions
    BY <1>0, <2>1, LockedAlone DEF Goto, CallPositions
  <2> QED
    BY <1>0, <2>1, <2>2, <2>3 DEF BuildsBounded, Goto, CallPositions
<1>6. ASSUME NEW t \in Threads, EndRead(t) \/ EndWrite(t) PROVE BuildsBounded'
  BY <1>0, <1>6 DEF EndRead, EndWrite, Goto, dataVars, BuildsBounded
<1>7. CASE ChangeAshmemData
  BY <1>0, <1>7, CountFacts DEF ChangeAshmemData, BuildsBounded, CxxTypeOK
<1> QED
  BY <1>1, <1>2, <1>3, <1>4, <1>5, <1>6, <1>7
     DEF Next, InCall, BeginRead, BeginWrite, SetDataValid, ResizeData, Reclaim,
         ModifyContentByBuilder, dataVars, vars

------------------------------------------------------------------------------
(* The content. *)

\* The bounds of the model keep the counter of builds from wrapping to 0.
NoWrap == CountLimit > MaxBuilds + MAX_BUILD_TRYTIMES

\* An open access keeps its object's count above zero.
LEMMA InsideCounts ==
  ASSUME CxxTypeOK, RefsInv, Counts, NEW t \in Threads, Inside(t)
  PROVE  refs > 0
<1>1. t \in Holders
  BY DEF Holders, Inside
<1>2. Cardinality(Holders) # 0
  BY <1>1, HolderFacts, FS_EmptySet
<1> QED
  BY <1>2, HolderFacts DEF RefsInv, CxxTypeOK

\* Nobody builds while the mutex is free, nor does anybody but its holder.
LEMMA BuildingLocked ==
  ASSUME RefsInv
  PROVE  /\ dataLock = {} => ~Building
         /\ \A t \in Threads : pc[t] \in {"readLoop", "writeCheck"} => ~Building
BY DEF RefsInv, Building, CallPositions

\* Where an access is open and there is a count the data does not look purged.
LEMMA InsideNotPurged ==
  ASSUME CxxTypeOK, ContentInv, Counts, NEW t \in Threads, Inside(t)
  PROVE  ~IfNeedRebuild
BY SupportAssumption
   DEF ContentInv, CxxTypeOK, IfNeedRebuild, IsPurged, AshmemIsPurged, UxptIsPurged, Counts, TableCounts, DriverCounts

\* Steps that change neither data nor table and open no access.
LEMMA SameContent ==
  ASSUME ContentInv, UNCHANGED <<tableVars, dataVars>>, Building' <=> Building,
         \A t \in Threads : Inside(t)' => Inside(t)
  PROVE  ContentInv'
BY DEF ContentInv, tableVars, dataVars, Counts, TableCounts, DriverCounts, IfNeedRebuild, IsPurged,
       AshmemIsPurged, UxptIsPurged

\* A Begin that finds the data in place opens its access on it.
LEMMA OpenContent ==
  ASSUME CxxTypeOK, RefsInv, ContentInv, NEW t \in Threads,
         pc[t] \in {"readLoop", "writeCheck"}, ~IfNeedRebuild,
         NEW l \in {"reading", "writing"}, Goto(t, l), UNCHANGED <<tableVars, dataVars>>
  PROVE  ContentInv'
<1>1. ~Building /\ ~Building'
  BY BuildingLocked, LockedAlone DEF Building, Goto, CxxTypeOK, CallPositions
<1>2. buildDataCount > 0 /\ (Counts => resident)
  BY SupportAssumption
     DEF CxxTypeOK, IfNeedRebuild, IsPurged, AshmemIsPurged, UxptIsPurged, Counts, TableCounts, DriverCounts
<1> QED
  BY <1>1, <1>2
     DEF ContentInv, tableVars, dataVars, Counts, TableCounts, DriverCounts, IfNeedRebuild, IsPurged,
         AshmemIsPurged, UxptIsPurged

\* A rebuild starts under an open access only where nothing counts, and then the
\* loss is on record.
LEMMA ClearContent ==
  ASSUME CxxTypeOK, RefsInv, ContentInv, NEW t \in Threads,
         pc[t] \in {"readLoop", "writeCheck"}, IfNeedRebuild, BuildClear,
         NEW l \in {"readBuild", "writeBuild"}, Goto(t, l), UNCHANGED tableVars
  PROVE  ContentInv'
<1>0. pc' = [pc EXCEPT ![t] = l] /\ pc \in [Threads -> Positions]
  BY DEF Goto, CxxTypeOK
<1>1. Building'
  BY <1>0 DEF Building
<1>2. /\ content' = 0 /\ buildDataCount' = buildDataCount
      /\ resident' = (resident \/ backend = "uxpt")
      /\ tainted' = (tainted \/ ~Counts)
  BY DEF BuildClear, Touch
<1>3. UNCHANGED <<backend, isSupport>> /\ Counts' = Counts
  BY DEF tableVars, Counts, TableCounts, DriverCounts
<1>4. backend = "ashmem" /\ buildDataCount > 0 => AshmemIsPurged'
  <2>1. buildDataCount > 0 => buildDataCount # 0
    BY DEF CxxTypeOK
  <2>2. SUFFICES ASSUME backend = "ashmem", buildDataCount > 0 PROVE AshmemIsPurged'
    OBVIOUS
  <2>3. isSupport /\ ~resident
    BY <2>1, <2>2, Zenon DEF IfNeedRebuild, IsPurged, AshmemIsPurged
  <2>4. ~resident' /\ isSupport'
    BY <1>2, <1>3, <2>2, <2>3, Zenon
  <2> QED
    BY <2>4, Zenon DEF AshmemIsPurged
<1>5. ASSUME NEW u \in Threads, Inside(u)'
      PROVE  buildDataCount > 0 /\ (Counts => resident) /\ tainted'
  <2>1. Inside(u)
    BY <1>0, <1>5 DEF Inside
  <2>2. buildDataCount > 0 /\ (Counts => resident) /\ ~Counts
    BY <2>1, InsideNotPurged DEF ContentInv
  <2> QED
    BY <1>2, <2>2, Zenon
<1> QED
  BY <1>1, <1>2, <1>3, <1>4, <1>5, Zenon DEF ContentInv

\* A build that succeeds leaves the whole content for everyone.
LEMMA BuiltContent ==
  ASSUME NoWrap, CxxTypeOK, RefsInv, BuildsBounded, ContentInv, NEW t \in Threads,
         pc[t] \in {"readBuild", "writeBuild"}, BuildSucceeds,
         NEW l \in {"readLoop", "writing", "idle"}, Goto(t, l), UNCHANGED tableVars
  PROVE  ContentInv'
<1>1. Building /\ ~Building'
  BY LockedAlone DEF Building, Goto, CxxTypeOK, CallPositions
<1>2. content' = nBuilders /\ nBuilders' = nBuilders /\ resident' = TRUE
  BY <1>1 DEF ContentInv, BuildSucceeds, AfterRebuildSucc
<1>3. buildDataCount' = buildDataCount + 1
  <2>1. buildDataCount + 1 < CountLimit /\ buildDataCount \in 0..(CountLimit - 1)
    BY ConstantFacts DEF NoWrap, BuildsBounded, CxxTypeOK, MAX_BUILD_TRYTIMES
  <2> QED
    BY <2>1, CountFacts DEF BuildSucceeds
<1>4. buildDataCount' > 0
  BY <1>3 DEF CxxTypeOK
<1> QED
  BY <1>1, <1>2, <1>4 DEF ContentInv

\* A build that fails leaves incomplete content that looks present only where
\* the loss is on record.
LEMMA FailedContent ==
  ASSUME CxxTypeOK, RefsInv, ContentInv, NEW t \in Threads,
         pc[t] \in {"readBuild", "writeBuild"}, BuildFails, Goto(t, "idle"), UNCHANGED tableVars
  PROVE  ContentInv'
<1>1. Building /\ ~Building'
  BY LockedAlone DEF Building, Goto, CxxTypeOK, CallPositions
<1>2. /\ buildDataCount' = buildDataCount
      /\ resident' = (resident \/ backend = "uxpt")
      /\ tainted' = (tainted \/ (backend = "uxpt" /\ buildDataCount > 0))
  BY DEF BuildFails, Touch
<1>3. UNCHANGED <<backend, isSupport>> /\ Counts' = Counts
  BY DEF tableVars, Counts, TableCounts, DriverCounts
<1>4. ASSUME NEW u \in Threads, Inside(u)'
      PROVE  buildDataCount > 0 /\ (Counts => resident) /\ tainted
  <2>1. Inside(u)
    BY <1>4 DEF Inside, Goto, CxxTypeOK
  <2>2. content # nBuilders
    BY <1>1 DEF ContentInv, CxxTypeOK
  <2> QED
    BY <2>1, <2>2 DEF ContentInv
<1>5. ASSUME ~IfNeedRebuild' PROVE tainted'
  <2>1. buildDataCount > 0
    BY <1>2, <1>5 DEF IfNeedRebuild, CxxTypeOK
  <2>2. CASE backend = "uxpt"
    BY <1>2, <2>1, <2>2, Zenon
  <2>3. CASE backend = "ashmem"
    <3>1. AshmemIsPurged
      BY <1>1, <2>1, <2>3 DEF ContentInv
    <3>2. AshmemIsPurged'
      BY <1>2, <1>3, <2>3, <3>1 DEF AshmemIsPurged, CxxTypeOK
    <3> QED
      BY <1>3, <1>5, <2>3, <3>2 DEF IfNeedRebuild, IsPurged
  <2> QED
    BY <2>2, <2>3, SupportAssumption DEF CxxTypeOK
<1> QED
  BY <1>1, <1>2, <1>3, <1>4, <1>5, Zenon DEF ContentInv

\* A modifier is built on the whole content and then part of it.
LEMMA ModifiedContent ==
  ASSUME CxxTypeOK, RefsInv, ContentInv, NEW t \in Threads, ModifyContentByBuilder(t)
  PROVE  ContentInv'
<1>0. /\ pc[t] = "writing" /\ dataLock = {} /\ buildDataCount' = buildDataCount
      /\ resident' = (resident \/ backend = "uxpt") /\ pc' = pc
  BY DEF ModifyContentByBuilder, Touch
<1>1. ~Building /\ ~Building'
  BY <1>0, BuildingLocked DEF Building
<1>2. Inside(t)
  BY <1>0 DEF Inside
<1>3. UNCHANGED <<backend, supported, isSupport, pageTable>> /\ Counts' = Counts
  BY DEF ModifyContentByBuilder, tableVars, Counts, TableCounts, DriverCounts
<1>4. IfNeedRebuild <=> IfNeedRebuild'
  BY <1>0, <1>2, <1>3, SupportAssumption
     DEF ContentInv, CxxTypeOK, IfNeedRebuild, IsPurged, AshmemIsPurged, UxptIsPurged, Counts, TableCounts, DriverCounts
<1>5. content' = nBuilders' \/ tainted'
  <2>1. content = nBuilders \/ tainted
    BY <1>2 DEF ContentInv
  <2>2. CASE /\ content' = IF content = nBuilders THEN nBuilders + 1 ELSE Bad
             /\ nBuilders' = nBuilders + 1 /\ UNCHANGED tainted
    <3>1. content = nBuilders => content' = nBuilders'
      BY <2>2
    <3> QED
      BY <2>1, <2>2, <3>1
  <2>3. CASE tainted' = (tainted \/ content' # content) /\ UNCHANGED nBuilders
    BY <2>1, <2>3, Zenon
  <2> QED
    BY <2>2, <2>3 DEF ModifyContentByBuilder
<1>6. \A u \in Threads : Inside(u)' => Inside(u)
  BY <1>0 DEF Inside
<1> QED
  BY <1>0, <1>1, <1>3, <1>4, <1>5, <1>6, Zenon DEF ContentInv

\* A reclaim happens where nobody has pinned, or the loss is on record.
LEMMA ReclaimedContent ==
  ASSUME CxxTypeOK, RefsInv, RegionInv, ContentInv, Reclaim
  PROVE  ContentInv'
<1>0. /\ supported /\ dataPtr /\ refs = 0
      /\ resident' = FALSE /\ content' = 0 /\ tainted' = (tainted \/ ~Counts)
      /\ UNCHANGED <<backend, supported, isSupport, ashmemFd, pageTable, buildDataCount, pc>>
  BY DEF Reclaim, tableVars
<1>1. Building' <=> Building
  BY <1>0 DEF Building
<1>2. ASSUME NEW u \in Threads, Inside(u)'
      PROVE  buildDataCount > 0 /\ ~Counts
  <2>1. Inside(u)
    BY <1>0, <1>2 DEF Inside
  <2>2. ~Counts
    BY <1>0, <2>1, InsideCounts
  <2> QED
    BY <2>1, <2>2 DEF ContentInv
<1>3. Counts' = Counts
  BY <1>0 DEF Counts, TableCounts, DriverCounts
<1>4. ~IfNeedRebuild' => ~Counts
  BY <1>0, SupportAssumption
     DEF CxxTypeOK, IfNeedRebuild, IsPurged, AshmemIsPurged, UxptIsPurged, Counts, TableCounts, DriverCounts
<1>5. backend = "ashmem" => AshmemIsPurged'
  BY <1>0 DEF AshmemIsPurged, RegionInv
<1> QED
  BY <1>0, <1>1, <1>2, <1>3, <1>4, <1>5, Zenon DEF ContentInv

\* Replacing the data of an object nobody uses.
LEMMA ReplacedContent ==
  ASSUME CxxTypeOK, ResizeData \/ ChangeAshmemData
  PROVE  ContentInv'
<1>1. \A t \in Threads : pc'[t] = "idle"
  BY DEF ResizeData, ChangeAshmemData
<1>2. ~Building' /\ \A t \in Threads : ~Inside(t)'
  BY <1>1 DEF Building, Inside
<1>3. ASSUME ~IfNeedRebuild' PROVE content' = nBuilders' \/ tainted'
  <2>1. CASE ResizeData
    <3>1. buildDataCount > 0
      BY <1>3, <2>1 DEF ResizeData, IfNeedRebuild, CxxTypeOK
    <3> QED
      BY <1>3, <2>1, <3>1, Zenon DEF ResizeData, IfNeedRebuild
  <2>2. CASE ChangeAshmemData
    BY <2>2 DEF ChangeAshmemData
  <2> QED
    BY <2>1, <2>2
<1> QED
  BY <1>2, <1>3 DEF ContentInv

\* Every step keeps the content in order.
LEMMA ContentStep ==
  ASSUME NoWrap, CxxInv, [Next]_vars
  PROVE  ContentInv'
<1>0. CxxTypeOK /\ RefsInv /\ RegionInv /\ BuildsBounded /\ ContentInv /\ pc \in [Threads -> Positions]
  BY DEF CxxInv, CxxTypeOK
<1>1. ASSUME NEW t \in Threads, NEW l \in {"readLoop", "writeCheck"}, Enter(t, l) PROVE ContentInv'
  <2>1. ~Building /\ ~Building'
    BY <1>0, <1>1, BuildingLocked DEF Enter, Goto, Building
  <2>2. \A u \in Threads : Inside(u)' => Inside(u)
    BY <1>0, <1>1 DEF Enter, Goto, Inside
  <2> QED
    BY <1>0, <1>1, <2>1, <2>2, SameContent DEF Enter
<1>2. ASSUME NEW t \in Threads, EndRead(t) \/ EndWrite(t) PROVE ContentInv'
  <2>1. Goto(t, "idle") /\ dataLock = {} /\ UNCHANGED <<tableVars, dataVars>>
    BY <1>2 DEF EndRead, EndWrite
  <2>2. ~Building /\ ~Building'
    BY <1>0, <2>1, BuildingLocked DEF Goto, Building
  <2>3. \A u \in Threads : Inside(u)' => Inside(u)
    BY <1>0, <2>1 DEF Goto, Inside
  <2> QED
    BY <1>0, <2>1, <2>2, <2>3, SameContent
<1>3. ASSUME NEW t \in Threads, ReadLoop(t) PROVE ContentInv'
  <2>1. CASE IfNeedRebuild
    BY <1>0, <1>3, <2>1, ClearContent DEF ReadLoop
  <2>2. CASE ~IfNeedRebuild
    BY <1>0, <1>3, <2>2, OpenContent DEF ReadLoop, ReturnTrue
  <2> QED
    BY <2>1, <2>2
<1>4. ASSUME NEW t \in Threads, WriteCheck(t) PROVE ContentInv'
  <2>1. CASE IfNeedRebuild
    BY <1>0, <1>4, <2>1, ClearContent DEF WriteCheck
  <2>2. CASE ~IfNeedRebuild
    BY <1>0, <1>4, <2>2, OpenContent DEF WriteCheck, ReturnTrue
  <2> QED
    BY <2>1, <2>2
<1>5. ASSUME NEW t \in Threads, ReadBuilt(t) \/ WriteBuilt(t) PROVE ContentInv'
  <2>1. pc[t] \in {"readBuild", "writeBuild"} /\ UNCHANGED tableVars
    BY <1>5 DEF ReadBuilt, WriteBuilt
  <2>2. CASE BuildSucceeds /\ \E l \in {"readLoop", "writing", "idle"} : Goto(t, l)
    BY <1>0, <2>1, <2>2, BuiltContent
  <2>3. CASE BuildFails /\ Goto(t, "idle")
    BY <1>0, <2>1, <2>3, FailedContent
  <2> QED
    BY <1>5, <2>2, <2>3 DEF ReadBuilt, WriteBuilt, ReturnTrue, ReturnFalse
<1>6. CASE SetDataValid \/ UNCHANGED vars
  <2>1. UNCHANGED <<tableVars, dataVars, pc>>
    BY <1>6 DEF SetDataValid, vars
  <2> QED
    BY <1>0, <2>1, SameContent DEF Building, Inside
<1>7. CASE \E t \in Threads : ModifyContentByBuilder(t)
  BY <1>0, <1>7, ModifiedContent
<1>8. CASE Reclaim
  BY <1>0, <1>8, ReclaimedContent
<1>9. CASE ResizeData \/ ChangeAshmemData
  BY <1>0, <1>9, ReplacedContent
<1> QED
  BY <1>1, <1>2, <1>3, <1>4, <1>5, <1>6, <1>7, <1>8, <1>9 DEF Next, InCall, BeginRead, BeginWrite

------------------------------------------------------------------------------
(* The theorems. *)

\* What holds whether or not the counter of builds can wrap.
AccessInv == CxxTypeOK /\ RefsInv /\ RegionInv /\ BuildsBounded

\* The constructor's state satisfies the invariant.
LEMMA InitInv == Init => CxxInv
<1> SUFFICES ASSUME Init PROVE CxxInv
  OBVIOUS
<1>1. Holders = {} /\ Readers = {} /\ ~Building
  BY DEF Init, Holders, Readers, Building
<1>2. Cardinality(Holders) = 0 /\ Cardinality(Readers) = 0
  BY <1>1, FS_EmptySet
<1>3. refs \in 0..1 /\ (Counts => refs = 0)
  BY DEF Init, UxptInit, AshmemInit, Counts
<1>4. RefTypeOK /\ NumberTypeOK
  BY <1>3, ConstantFacts DEF Init, RefTypeOK, NumberTypeOK
<1>5. FlagTypeOK /\ ControlTypeOK
  <2>1. FlagTypeOK /\ {supported, dataPtr, isDataValid, isSupport, isChange} \subseteq BOOLEAN
    BY SupportAssumption, Zenon DEF Init, UxptInit, AshmemInit, FlagTypeOK
  <2>2. /\ pc \in [Threads -> Positions] /\ tryTimes \in [Threads -> 0..(MAX_BUILD_TRYTIMES + 1)]
        /\ ashmemFd \in {-1} \cup Descriptors /\ pageTable \in {"none", "empty", "mapped"}
    BY DEF Init, UxptInit, AshmemInit, Positions, MAX_BUILD_TRYTIMES
  <2> QED
    BY <2>1, <2>2 DEF Init, ControlTypeOK
<1>6. CxxTypeOK
  BY <1>4, <1>5, TypeParts
<1>7. RefsInv
  BY <1>2, <1>3, ConstantFacts DEF Init, RefsInv, CallPositions
<1>8. RegionInv
  BY DescriptorsAssumption DEF Init, UxptInit, AshmemInit, RegionInv, Counts
<1>9. BuildsBounded
  BY ConstantFacts DEF Init, BuildsBounded, MAX_BUILD_TRYTIMES
<1>10. ContentInv
  BY <1>1 DEF Init, ContentInv, Inside, IfNeedRebuild
<1> QED
  BY <1>6, <1>7, <1>8, <1>9, <1>10 DEF CxxInv

\* Every step keeps types, mutex, references and counter in order.
LEMMA AccessStep == AccessInv /\ [Next]_vars => AccessInv'
<1> SUFFICES ASSUME AccessInv, [Next]_vars PROVE AccessInv'
  OBVIOUS
<1>1. CxxTypeOK /\ RefsInv /\ RegionInv /\ BuildsBounded
  BY DEF AccessInv
<1>2. RefsInv' /\ RefTypeOK'
  BY <1>1, RefsStep
<1>3. RegionInv'
  BY <1>1, RegionStep
<1>4. BuildsBounded'
  BY <1>1, BoundsStep
<1>5. FlagTypeOK' /\ NumberTypeOK'
  BY <1>1, TypeParts, FlagTypeStep, NumberTypeStep
<1>6. ControlTypeOK'
  BY <1>1, ControlTypeStep
<1>7. CxxTypeOK'
  BY <1>2, <1>5, <1>6 DEF CxxTypeOK, RefTypeOK, FlagTypeOK, NumberTypeOK, ControlTypeOK
<1> QED
  BY <1>2, <1>3, <1>4, <1>7 DEF AccessInv

\* The reference count of Pin and Unpin stays within its width, and the mutex,
\* the references and the counter of builds are in order in every state.
THEOREM CxxAccess == Spec => []AccessInv
<1>1. Init => AccessInv
  BY InitInv DEF AccessInv, CxxInv
<1> QED
  BY <1>1, AccessStep, PTL DEF Spec

\* Types, for every set of threads and all limits.
THEOREM CxxTypeCorrect == Spec => []CxxTypeOK
<1>1. AccessInv => CxxTypeOK
  BY DEF AccessInv
<1> QED
  BY <1>1, CxxAccess, PTL

\* Every End and every Begin that returns false gives back what its Begin took,
\* wherever Pin and Unpin count and until an EndRead meets invalid data.
THEOREM PinsBalancedCorrect == Spec => []PinsBalanced
<1>1. AccessInv => PinsBalanced
  <2> SUFFICES ASSUME AccessInv, dataLock = {}, Counts, kept = 0
               PROVE  refs = Cardinality({t \in Threads : Inside(t)})
    BY DEF PinsBalanced
  <2>1. Holders = {t \in Threads : Inside(t)}
    BY DEF AccessInv, RefsInv, CxxTypeOK, Positions, Holders, Inside
  <2> QED
    BY <2>1, HolderFacts DEF AccessInv, RefsInv
<1> QED
  BY <1>1, CxxAccess, PTL

\* The kernel takes nothing away during an access, at descriptor 0 neither, unless
\* the table could not be made or the region was lent at descriptor 0.
THEOREM CxxInsideProtected == Spec => CxxInsideNotReclaimed
<1>1. ASSUME AccessInv, [Next]_vars
      PROVE  [(\E t \in Threads : Inside(t)) /\ Protected => (resident => resident')]_vars
  <2>1. ASSUME NEW t \in Threads, Inside(t), Protected, resident, Next PROVE resident'
    <3>1. ASSUME Reclaim PROVE FALSE
      <4>1. supported /\ dataPtr /\ refs = 0
        BY <3>1 DEF Reclaim
      <4>2. ~Counts
        BY <1>1, <2>1, <4>1, InsideCounts DEF AccessInv
      <4>3. CASE backend = "uxpt"
        BY <2>1, <4>1, <4>2, <4>3 DEF Protected, Counts, TableCounts, DriverCounts
      <4>4. CASE backend = "ashmem"
        <5>1. ashmemFd # -1 /\ isSupport /\ (isChange \/ refs = 1)
          BY <1>1, <4>1, <4>2, <4>4 DEF AccessInv, RegionInv
        <5>2. ~isChange
          BY <2>1, <4>2, <4>4, <5>1 DEF Protected, Counts, DriverCounts
        <5> QED
          BY <4>1, <5>1, <5>2
      <4> QED
        BY <1>1, <4>3, <4>4, SupportAssumption DEF AccessInv, CxxTypeOK
    <3>2. ~ResizeData /\ ~ChangeAshmemData
      BY <2>1 DEF ResizeData, ChangeAshmemData, Inside
    <3> QED
      BY <2>1, <3>1, <3>2, DataSteps, Zenon
         DEF dataVars, BuildClear, BuildSucceeds, BuildFails, Touch, AfterRebuildSucc,
             ModifyContentByBuilder
  <2> QED
    BY <1>1, <2>1
<1> QED
  BY <1>1, CxxAccess, PTL DEF CxxInsideNotReclaimed, Spec

\* The invariant behind the content, as long as the counter does not wrap.
THEOREM CxxInvariant == NoWrap => (Spec => []CxxInv)
<1>1. ASSUME NoWrap PROVE CxxInv /\ [Next]_vars => CxxInv'
  <2>1. ASSUME CxxInv, [Next]_vars PROVE CxxInv'
    BY <1>1, <2>1, ContentStep, AccessStep DEF AccessInv, CxxInv
  <2> QED
    BY <2>1
<1>2. ASSUME NoWrap PROVE Spec => []CxxInv
  BY <1>1, <1>2, InitInv, PTL DEF Spec
<1> QED
  BY <1>2

\* Whoever is between a Begin that returned true and its End sees the effects of
\* all builders in order, unless the content was lost in one of the known ways.
THEOREM CxxReadersCorrect == NoWrap => (Spec => []CxxReadersSeeLog)
<1>1. CxxInv => CxxReadersSeeLog
  BY DEF CxxInv, ContentInv, CxxReadersSeeLog
<1> QED
  BY <1>1, CxxInvariant, PTL
==============================================================================
