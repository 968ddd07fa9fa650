------------------------ MODULE PurgMemLifecycleProofs ------------------------
(***************************************************************************)
(* Creation and destruction of a C purgeable object, whichever steps fail: *)
(* LifeInv is inductive, and the properties of PurgMemLifecycle follow.    *)
(* At the end, that PurgMemObject keeps to both of its parts.              *)
(***************************************************************************)
EXTENDS PurgMemObject, TLAPS

\* PurgMemCreate has six steps.
LEMMA OrderLength == Len(Order) = 6
BY DEF Order

\* What they take.
LEMMA OrderFacts ==
  /\ DOMAIN Order = 1..6
  /\ Resource = {"obj", "data", "uptStruct", "uptMap", "lock", "builder"}
  /\ Order[1] = "obj" /\ Order[2] = "data" /\ Order[3] = "uptStruct"
  /\ Order[4] = "uptMap" /\ Order[5] = "lock" /\ Order[6] = "builder"
BY DEF Order, Resource

\* The steps of PurgMemCreate take different things.
LEMMA TakenStep ==
  ASSUME NEW k \in 1..6
  PROVE  /\ Taken(k) = Taken(k - 1) \cup Needed({Order[k]})
         /\ Taken(k - 1) \cap Needed({Order[k]}) = {}
         /\ Taken(k - 1) \subseteq Taken(6)
<1>1. {Order[i] : i \in 1..k} = {Order[i] : i \in 1..(k - 1)} \cup {Order[k]}
  OBVIOUS
<1>2. Order[k] \notin {Order[i] : i \in 1..(k - 1)}
  <2>1. SUFFICES ASSUME NEW i \in 1..(k - 1) PROVE Order[i] # Order[k]
    OBVIOUS
  <2>2. i \in 1..5 /\ k \in 2..6 /\ i < k
    OBVIOUS
  <2>. QED BY <2>2, OrderFacts
<1>3. {Order[i] : i \in 1..(k - 1)} \subseteq {Order[i] : i \in 1..6}
  OBVIOUS
<1>. QED BY <1>1, <1>2, <1>3 DEF Taken, Needed

\* Before the first step nothing is taken, after the last everything.
LEMMA TakenAll ==
  /\ Taken(0) = {}
  /\ Taken(6) = Needed(Resource)
<1>1. {Order[i] : i \in 1..0} = {}
  OBVIOUS
<1>2. {Order[i] : i \in 1..6} = Resource
  BY OrderFacts DEF Resource
<1>. QED BY <1>1, <1>2 DEF Taken, Needed

\* The flags are Boolean at first ...
LEMMA FlagsInit == LifeInit => LifeFlagsOK
BY Zenon DEF LifeInit, LifeFlagsOK

\* ... and stay so.
LEMMA FlagsStep == LifeFlagsOK /\ [LifeNext]_lifeVars => LifeFlagsOK'
<1>. SUFFICES ASSUME LifeFlagsOK, [LifeNext]_lifeVars PROVE LifeFlagsOK'
  OBVIOUS
<1>. USE DEF LifeFlagsOK
<1>1. CASE UNCHANGED lifeVars
  BY <1>1, Zenon DEF lifeVars
<1>2. CASE PurgMemCreate \/ UnwindReturn \/ PurgMemDestroy \/ ClientForgets
  BY <1>2, Zenon DEF PurgMemCreate, UnwindReturn, PurgMemDestroy, ClientForgets
<1>3. CASE CreateStep \/ CreateFails
  BY <1>3, Zenon DEF CreateStep, CreateFails, Take
<1>4. CASE UnwindStep \/ DestroyStep
  BY <1>4, Zenon DEF UnwindStep, DestroyStep, Release, ReleaseFails
<1>5. CASE DestroyLockFails \/ DestroyReturn
  BY <1>5, Zenon DEF DestroyLockFails, DestroyReturn
<1>. QED BY <1>1, <1>2, <1>3, <1>4, <1>5, Zenon DEF LifeNext

\* There is no object at first.
LEMMA InitLife == LifeInit => LifeInv
BY OrderLength, FlagsInit DEF LifeInit, LifeInv, LifeTypeOK, NoBadFree, LeakOnlyIfReleaseFailed

\* What the object needs depends on g_supportUxpt only, which no step changes.
LEMMA SameNeeds ==
  ASSUME UNCHANGED g_supportUxpt
  PROVE  /\ \A k : Taken(k)' = Taken(k)
         /\ \A k : DestroyGroup(k)' = DestroyGroup(k)
BY DEF Taken, Needed, DestroyGroup

\* The steps, one lemma each.  PurgMemCreate begins with nothing taken.
LEMMA CreateStarts == LifeInv /\ LifeFlagsOK' /\ PurgMemCreate => LifeInv'
<1>. SUFFICES ASSUME LifeInv, LifeFlagsOK', PurgMemCreate PROVE LifeInv'
  OBVIOUS
<1>1. UNCHANGED g_supportUxpt /\ live = {} /\ Taken(0) = {}
  BY TakenAll DEF LifeInv, PurgMemCreate
<1>. QED
  BY <1>1, SameNeeds, OrderLength
  DEF LifeInv, LifeTypeOK, PurgMemCreate, Goto, NoBadFree, LeakOnlyIfReleaseFailed

\* A step of PurgMemCreate takes the next resource, the last hands the object out.
LEMMA CreateSteps == LifeInv /\ LifeFlagsOK' /\ CreateStep => LifeInv'
<1>. SUFFICES ASSUME LifeInv, LifeFlagsOK', CreateStep PROVE LifeInv'
  OBVIOUS
<1>a. at \in 1..6
  BY OrderLength DEF LifeInv, LifeTypeOK, CreateStep
<1>b. Taken(at) = Taken(at - 1) \cup Needed({Order[at]})
  BY <1>a, TakenStep, Zenon
<1>1. UNCHANGED g_supportUxpt /\ live' = Taken(at) /\ field' = live'
  BY <1>b DEF LifeInv, CreateStep, Take
<1>2. Taken(at) \subseteq Taken(6) /\ Taken(6) \subseteq Resource
  <2>1. CASE at = 6
    BY <2>1, TakenAll DEF Needed
  <2>2. CASE at # 6
    <3>1. at + 1 \in 1..6 /\ (at + 1) - 1 = at
      BY <1>a, <2>2
    <3>2. Taken((at + 1) - 1) \subseteq Taken(6)
      BY <3>1, TakenStep, Zenon
    <3>. QED BY <3>1, <3>2, TakenAll DEF Needed
  <2>. QED BY <2>1, <2>2
<1>3. {"obj", "lock"} \subseteq Taken(6)
  BY TakenAll, OrderFacts DEF Needed
<1>4. (at + 1) - 1 = at /\ at + 1 > 0
  BY <1>a
<1>5. NoBadFree' /\ LeakOnlyIfReleaseFailed' /\ ~inCreate'
  BY Zenon DEF LifeInv, CreateStep, Take, NoBadFree, LeakOnlyIfReleaseFailed
<1>6. /\ UNCHANGED leaked
      /\ \/ at = 6 /\ phase' = "idle" /\ at' = 0 /\ handle'
         \/ at # 6 /\ phase' = "create" /\ at' = at + 1 /\ ~handle'
  <2>1. ~handle
    BY DEF LifeInv, CreateStep
  <2>2. /\ UNCHANGED leaked
        /\ IF at = 6 THEN phase' = "idle" /\ at' = 0 /\ handle' = TRUE
                     ELSE phase' = "create" /\ at' = at + 1 /\ handle' = handle
    BY OrderLength DEF CreateStep, Goto
  <2>. QED BY <2>1, <2>2, Zenon
<1>7. LifeTypeOK' /\ live' \subseteq Taken(6)'
  <2>1. at' \in 0..6 /\ phase' \in {"idle", "create"}
    BY <1>a, <1>6
  <2>2. live' \subseteq Taken(6)' /\ field' = live' /\ live' \subseteq Resource
    BY <1>1, <1>2, SameNeeds
  <2>3. leaked' \subseteq Resource
    BY <1>6 DEF LifeInv, LifeTypeOK
  <2>. QED BY <2>1, <2>2, <2>3, OrderLength DEF LifeTypeOK
<1>. QED
  BY <1>a, <1>1, <1>3, <1>4, <1>5, <1>6, <1>7, SameNeeds, OrderLength DEF LifeInv

\* A step of PurgMemCreate that fails leaves the earlier ones to be unwound.
LEMMA CreateFailing == LifeInv /\ LifeFlagsOK' /\ CreateFails => LifeInv'
<1>. SUFFICES ASSUME LifeInv, LifeFlagsOK', CreateFails PROVE LifeInv'
  OBVIOUS
<1>1. UNCHANGED <<g_supportUxpt, live, field>> /\ at \in 1..6 /\ live = Taken(at - 1) /\ field = live
  BY OrderLength DEF LifeInv, LifeTypeOK, CreateFails
<1>2. at = 6 => {"obj", "lock"} \subseteq live
  <2>1. Taken(5) \cup Needed({"builder"}) = Taken(6)
    <3>1. 6 \in 1..6 /\ 6 - 1 = 5
      OBVIOUS
    <3>2. Taken(6) = Taken(6 - 1) \cup Needed({Order[6]})
      BY <3>1, TakenStep, Zenon
    <3>. QED BY <3>1, <3>2, OrderFacts
  <2>. QED BY <1>1, <2>1, TakenAll, OrderFacts DEF Needed
<1>. QED
  BY <1>1, <1>2, SameNeeds, OrderLength
  DEF LifeInv, LifeTypeOK, CreateFails, Goto, NoBadFree, LeakOnlyIfReleaseFailed

\* A label of PurgMemCreate releases what the last step but those undone has taken.
LEMMA UnwindSteps == LifeInv /\ LifeFlagsOK' /\ UnwindStep => LifeInv'
<1>. SUFFICES ASSUME LifeInv, LifeFlagsOK', UnwindStep PROVE LifeInv'
  OBVIOUS
<1>. DEFINE rs == Needed({Order[at]})
<1>1. /\ UNCHANGED g_supportUxpt /\ at \in 1..5 /\ at - 1 \in 0..5
      /\ phase = "unwind" /\ phase' = "unwind" /\ at' = at - 1
  BY OrderLength DEF LifeInv, LifeTypeOK, UnwindStep, Goto
<1>2. Taken(at) = Taken(at - 1) \cup rs /\ Taken(at - 1) \cap rs = {}
  <2>1. at \in 1..6
    BY <1>1
  <2>. QED BY <2>1, TakenStep, Zenon
<1>3. field \ rs = Taken(at') /\ rs \subseteq live
  BY <1>1, <1>2 DEF LifeInv, UnwindStep
<1>4. (inCreate' <=> inCreate) /\ (handle' <=> handle) /\ UNCHANGED leaked
  BY Zenon DEF UnwindStep
<1>5. CASE Release(rs)
  <2>1. (failed' <=> failed) /\ (badFree' => badFree)
    BY <1>3, <1>5, Zenon DEF Release
  <2>2. live' = live \ rs /\ field' = field \ rs
    BY <1>5 DEF Release
  <2>3. LifeTypeOK' /\ live' \subseteq Taken(6)'
    BY <1>1, <1>4, <2>2, SameNeeds, OrderLength DEF LifeInv, LifeTypeOK
  <2>4. field' \subseteq live' /\ (live' = field' \/ failed')
    BY <1>1, <2>1, <2>2 DEF LifeInv
  <2>. QED
    <3>1. NoBadFree' /\ LeakOnlyIfReleaseFailed' /\ ~inCreate' /\ ~handle'
      BY <1>1, <1>4, <2>1 DEF LifeInv, NoBadFree, LeakOnlyIfReleaseFailed
    <3>2. at' < 6 /\ field' = Taken(at)'
      BY <1>1, <1>3, <2>2, SameNeeds
    <3>. QED BY <1>1, <2>3, <2>4, <3>1, <3>2, OrderLength DEF LifeInv
<1>6. CASE ReleaseFails(rs, rs)
  <2>1. failed' /\ (badFree' <=> badFree)
    BY <1>6, Zenon DEF ReleaseFails
  <2>2. live' = live /\ field' = field \ rs
    BY <1>6 DEF ReleaseFails
  <2>. QED
    BY <1>1, <1>3, <1>4, <2>1, <2>2, SameNeeds, OrderLength
    DEF LifeInv, LifeTypeOK, NoBadFree, LeakOnlyIfReleaseFailed
<1>. QED BY <1>5, <1>6 DEF UnwindStep

\* PurgMemCreate returns when all is undone.
LEMMA UnwindReturns == LifeInv /\ LifeFlagsOK' /\ UnwindReturn => LifeInv'
<1>. SUFFICES ASSUME LifeInv, LifeFlagsOK', UnwindReturn PROVE LifeInv'
  OBVIOUS
<1>1. UNCHANGED g_supportUxpt /\ (live = {} \/ failed)
  BY TakenAll DEF LifeInv, UnwindReturn
<1>. QED
  BY <1>1, SameNeeds, OrderLength
  DEF LifeInv, LifeTypeOK, UnwindReturn, Abandon, Goto, NoBadFree, LeakOnlyIfReleaseFailed

\* PurgMemDestroy begins with all fields.
LEMMA DestroyStarts == LifeInv /\ LifeFlagsOK' /\ PurgMemDestroy => LifeInv'
BY SameNeeds, OrderLength
DEF LifeInv, LifeTypeOK, PurgMemDestroy, Goto, NoBadFree, LeakOnlyIfReleaseFailed

\* PurgMemDestroy cannot lock and leaves all as it is.
LEMMA DestroyLockFailing == LifeInv /\ LifeFlagsOK' /\ DestroyLockFails => LifeInv'
<1>. SUFFICES ASSUME LifeInv, LifeFlagsOK', DestroyLockFails PROVE LifeInv'
  OBVIOUS
<1>1. failed' /\ ~inCreate' /\ (handle <=> handle') /\ (badFree' <=> badFree)
  BY Zenon DEF DestroyLockFails
<1>2. /\ phase = "destroy" /\ phase' = "idle" /\ at' = 0
      /\ UNCHANGED <<g_supportUxpt, field>>
  BY DEF DestroyLockFails, Goto
<1>3. \/ inCreate /\ live' = {} /\ leaked' = leaked \cup live
      \/ ~inCreate /\ UNCHANGED <<live, leaked>>
  BY DEF DestroyLockFails, Abandon
<1>. QED
  BY <1>1, <1>2, <1>3, SameNeeds, OrderLength
  DEF LifeInv, LifeTypeOK, NoBadFree, LeakOnlyIfReleaseFailed

\* PurgMemDestroy releases one group of resources, or fails to.
LEMMA DestroySteps == LifeInv /\ LifeFlagsOK' /\ DestroyStep => LifeInv'
<1>. SUFFICES ASSUME LifeInv, LifeFlagsOK', DestroyStep PROVE LifeInv'
  OBVIOUS
<1>. DEFINE rs == DestroyGroup(at) \cap field
<1>1. /\ UNCHANGED <<g_supportUxpt, inCreate, handle, leaked>> /\ at \in 1..3
      /\ phase = "destroy" /\ phase' = "destroy" /\ at' = at + 1
  BY DEF DestroyStep, Goto
<1>2. {"obj", "lock"} \cap rs = {}
  BY <1>1 DEF DestroyGroup, Needed
<1>3. CASE Release(rs) /\ UNCHANGED err
  <2>1. \A k \in 1..3 : k < at' => k < at \/ k = at
    BY <1>1
  <2>2. ~err => \A k \in 1..3 : k < at' => DestroyGroup(k) \cap live' = {}
    BY <1>1, <1>3, <2>1 DEF LifeInv, Release
  <2>3. /\ NoBadFree' /\ (inCreate' <=> inCreate) /\ (handle' <=> handle)
        /\ (err' <=> err) /\ (failed' <=> failed)
    BY <1>1, <1>3, Zenon DEF LifeInv, NoBadFree, Release
  <2>4. live' = live \ rs /\ field' = field \ rs
    BY <1>3 DEF Release
  <2>5. LifeTypeOK' /\ live' \subseteq Taken(6)'
    BY <1>1, <2>4, SameNeeds, OrderLength DEF LifeInv, LifeTypeOK
  <2>. QED
    BY <1>1, <1>2, <2>2, <2>3, <2>4, <2>5, SameNeeds, OrderLength
    DEF LifeInv, LeakOnlyIfReleaseFailed
<1>4. CASE ReleaseFails(rs, {}) /\ err' = TRUE
  BY <1>1, <1>4, SameNeeds, OrderLength
  DEF LifeInv, LifeTypeOK, ReleaseFails, NoBadFree, LeakOnlyIfReleaseFailed
<1>. QED BY <1>3, <1>4 DEF DestroyStep

\* A PurgMemDestroy that met no error has nothing left but the lock and the object.
LEMMA DestroyReturns == LifeInv /\ LifeFlagsOK' /\ DestroyReturn => LifeInv'
<1>. SUFFICES ASSUME LifeInv, LifeFlagsOK', DestroyReturn PROVE LifeInv'
  OBVIOUS
<1>1. UNCHANGED g_supportUxpt /\ phase = "destroy" /\ at = 4
  BY DEF DestroyReturn
<1>2. ~err => live \ {"lock", "obj"} = {}
  <2>1. Taken(6) \subseteq
          DestroyGroup(1) \cup DestroyGroup(2) \cup DestroyGroup(3) \cup {"lock", "obj"}
    BY TakenAll, OrderFacts DEF DestroyGroup, Needed
  <2>2. ~err => \A k \in 1..3 : DestroyGroup(k) \cap live = {}
    BY <1>1 DEF LifeInv
  <2>. QED BY <2>1, <2>2, OrderLength DEF LifeInv
<1>. QED
  BY <1>1, <1>2, SameNeeds, OrderLength
  DEF LifeInv, LifeTypeOK, DestroyReturn, Abandon, Goto, NoBadFree, LeakOnlyIfReleaseFailed

\* A client gives up its handle.
LEMMA Forgetting == LifeInv /\ LifeFlagsOK' /\ ClientForgets => LifeInv'
BY SameNeeds, OrderLength
DEF LifeInv, LifeTypeOK, ClientForgets, NoBadFree, LeakOnlyIfReleaseFailed

-----------------------------------------------------------------------------

\* The inductive invariant: created, unwound or destroyed, what an object has and
\* what its fields say it has agree in the way each phase relies on.
THEOREM LifecycleInvariant == LifeSpec => []LifeInv
<1>1. LifeInv /\ [LifeNext]_lifeVars => LifeInv'
  <2>. SUFFICES ASSUME LifeInv, [LifeNext]_lifeVars PROVE LifeInv'
    OBVIOUS
  <2>1. CASE UNCHANGED lifeVars
    BY <2>1, Zenon
    DEF lifeVars, LifeInv, LifeTypeOK, LifeFlagsOK, NoBadFree, LeakOnlyIfReleaseFailed,
        Taken, Needed, DestroyGroup
  <2>2. LifeFlagsOK'
    BY FlagsStep DEF LifeInv, LifeTypeOK
  <2>. QED
    BY <2>1, <2>2, CreateStarts, CreateSteps, CreateFailing, UnwindSteps, UnwindReturns,
       DestroyStarts, DestroyLockFailing, DestroySteps, DestroyReturns, Forgetting
    DEF LifeNext
<1>. QED BY <1>1, InitLife, PTL DEF LifeSpec

\* Neither the labels of PurgMemCreate nor a PurgMemDestroy that is repeated after
\* a failure release anything that is not there.
THEOREM NoBadFreeCorrect == LifeSpec => []NoBadFree
<1>1. LifeInv => NoBadFree
  BY DEF LifeInv
<1>. QED BY <1>1, LifecycleInvariant, PTL

\* Nothing is lost on any error path of the two, unless munmap or the lock failed.
THEOREM LeakCorrect == LifeSpec => []LeakOnlyIfReleaseFailed
<1>1. LifeInv => LeakOnlyIfReleaseFailed
  BY DEF LifeInv
<1>. QED BY <1>1, LifecycleInvariant, PTL

\* A PurgMemDestroy that failed can be repeated: the fields are what is left.
THEOREM RetryCorrect == LifeSpec => []RetryFindsRest
<1>1. LifeInv => RetryFindsRest
  BY DEF LifeInv, RetryFindsRest
<1>. QED BY <1>1, LifecycleInvariant, PTL

------------------------------------------------------------------------------
(* The object with its chain. *)

\* Its steps are steps of PurgMemLifecycle, so that the theorems above hold for an
\* object whose chain is built, lengthened and destroyed between them.
THEOREM ObjectLives == ObjSpec => LifeSpec
<1>1. ObjInit => LifeInit
  BY DEF ObjInit
<1>2. [ObjNext]_objVars => [LifeNext]_lifeVars
  <2>. SUFFICES ASSUME [ObjNext]_objVars PROVE [LifeNext]_lifeVars
    OBVIOUS
  <2>1. CASE CreateObject
    BY <2>1, Zenon DEF CreateObject, LifeNext
  <2>2. CASE DestroyObject
    BY <2>2, Zenon DEF DestroyObject, LifeNext
  <2>3. CASE UseChains
    BY <2>3, Zenon DEF UseChains
  <2>4. CASE WalkChain
    BY <2>4, Zenon DEF WalkChain
  <2>5. CASE UNCHANGED objVars
    BY <2>5, Zenon DEF objVars
  <2>. QED BY <2>1, <2>2, <2>3, <2>4, <2>5 DEF ObjNext
<1>. QED BY <1>1, <1>2, PTL DEF ObjSpec, LifeSpec

\* The object's field is the head of a chain that nobody has handed over or freed.
HasChain == "builder" \in field => builder \in heads

\* The steps of the lifecycle that leave the chains alone give the object no builder.
LEMMA NoNewBuilder ==
  ASSUME LifeInv, LifeNext, ~(CreateStep /\ at = Len(Order))
  PROVE  "builder" \in field' => "builder" \in field
<1>1. CASE CreateStep
  <2>1. at \in 1..5
    BY <1>1, OrderLength DEF CreateStep, LifeInv, LifeTypeOK
  <2>2. Order[at] # "builder"
    BY <2>1, OrderFacts
  <2>3. field' = field \cup Needed({Order[at]})
    BY <1>1 DEF CreateStep, Take
  <2>4. Needed({Order[at]}) \subseteq {Order[at]}
    BY DEF Needed
  <2>. QED BY <2>2, <2>3, <2>4
<1>2. CASE PurgMemCreate
  BY <1>2 DEF PurgMemCreate
<1>3. CASE UnwindStep
  BY <1>3 DEF UnwindStep, Release, ReleaseFails
<1>4. CASE DestroyStep
  BY <1>4 DEF DestroyStep, Release, ReleaseFails
<1>5. CASE CreateFails \/ UnwindReturn \/ PurgMemDestroy \/ DestroyLockFails
           \/ DestroyReturn \/ ClientForgets
  BY <1>5, Zenon
  DEF CreateFails, UnwindReturn, PurgMemDestroy, DestroyLockFails, DestroyReturn, ClientForgets
<1>. QED BY <1>1, <1>2, <1>3, <1>4, <1>5 DEF LifeNext

\* PurgMemDestroy's first step takes the builder from the object.
LEMMA BuilderGoes ==
  ASSUME DestroyStep, at = 1
  PROVE  "builder" \notin field'
<1>1. DestroyGroup(1) = {"builder"}
  BY DEF DestroyGroup, Needed
<1>2. ~Unmaps(DestroyGroup(at) \cap field)
  BY <1>1 DEF Unmaps
<1>3. field' = field \ (DestroyGroup(at) \cap field)
  BY <1>2 DEF DestroyStep, Release, ReleaseFails
<1>. QED BY <1>1, <1>3

\* No call of the client takes the object's chain away.
LEMMA ChainStays == LifeInv /\ HasChain /\ [ObjNext]_objVars => HasChain'
<1>. SUFFICES ASSUME LifeInv, HasChain, [ObjNext]_objVars PROVE HasChain'
  OBVIOUS
<1>1. CASE CreateObject
  <2>1. CASE CreateStep /\ at = Len(Order) /\ builder' \in heads' \ heads
    BY <2>1 DEF HasChain
  <2>2. CASE ~(CreateStep /\ at = Len(Order)) /\ LifeNext /\ UNCHANGED <<chainVars, builder>>
    BY <2>2, NoNewBuilder DEF HasChain, chainVars, heapVars
  <2>3. CreateStep /\ at < Len(Order) => ~(at = Len(Order))
    BY OrderLength DEF LifeInv, LifeTypeOK
  <2>4. PurgMemCreate \/ CreateFails \/ UnwindStep \/ UnwindReturn =>
          LifeNext /\ ~(CreateStep /\ at = Len(Order))
    <3>1. PurgMemCreate \/ UnwindStep \/ UnwindReturn => phase # "create"
      BY DEF PurgMemCreate, UnwindStep, UnwindReturn
    <3>2. CreateFails => phase' # "create" /\ phase' # "idle"
      BY DEF CreateFails, Goto
    <3>3. CreateStep => phase = "create" /\ phase' \in {"create", "idle"}
      BY DEF CreateStep, Goto
    <3>. QED BY <3>1, <3>2, <3>3 DEF LifeNext
  <2>. QED BY <1>1, <2>1, <2>2, <2>3, <2>4 DEF CreateObject, LifeNext
<1>2. CASE DestroyObject
  <2>1. CASE DestroyStep /\ at = 1 /\ "builder" \in field
    BY <2>1, BuilderGoes DEF HasChain
  <2>2. CASE LifeNext /\ phase # "create" /\ UNCHANGED <<chainVars, builder>>
    <3>1. ~CreateStep
      BY <2>2 DEF CreateStep
    <3>. QED BY <2>2, <3>1, NoNewBuilder DEF HasChain, chainVars, heapVars
  <2>3. DestroyStep \/ PurgMemDestroy \/ DestroyLockFails \/ DestroyReturn \/ ClientForgets =>
          LifeNext /\ phase # "create"
    BY DEF DestroyStep, PurgMemDestroy, DestroyLockFails, DestroyReturn, ClientForgets, LifeNext
  <2>. QED BY <1>2, <2>1, <2>2, <2>3, Zenon DEF DestroyObject
<1>3. CASE UseChains
  <2>1. builder \in heads => builder \in heads'
    BY <1>3
    DEF UseChains, PurgMemBuilderCreate, PurgMemBuilderAppendFunc, PurgMemBuilderAppendBuilder,
        PurgMemBuilderBuildAll, PurgMemBuilderDestroy, heapVars
  <2>. QED BY <1>3, <2>1 DEF UseChains, HasChain, lifeVars
<1>4. CASE WalkChain
  <2>1. heads' = heads
    BY <1>4 DEF WalkChain, Walk, AppendBuilder, BuildNode, BuildNodeFails, FreeNode, heapVars
  <2>. QED BY <1>4, <2>1 DEF WalkChain, HasChain, lifeVars
<1>5. CASE UNCHANGED objVars
  BY <1>5 DEF objVars, lifeVars, chainVars, heapVars, HasChain
<1>. QED BY <1>1, <1>2, <1>3, <1>4, <1>5 DEF ObjNext

\* Its steps are steps of BuilderChain: PurgMemDestroy passes PurgMemBuilderDestroy
\* the head of a chain that exists, whatever failed or was repeated before, and the
\* safety of the chains holds for it.
THEOREM ObjectKeepsChains == ObjSpec => ChainInit /\ [][ChainNext]_chainVars
<1>1. ObjInit => ChainInit /\ HasChain
  BY DEF ObjInit, HasChain, LifeInit
<1>2. HasChain /\ [ObjNext]_objVars => [ChainNext]_chainVars
  <2>. SUFFICES ASSUME HasChain, [ObjNext]_objVars PROVE [ChainNext]_chainVars
    OBVIOUS
  <2>1. CASE CreateObject
    BY <2>1, Zenon DEF CreateObject, ChainNext
  <2>2. CASE DestroyObject
    BY <2>2, Zenon DEF DestroyObject, ChainNext, HasChain
  <2>3. CASE UseChains
    BY <2>3, Zenon DEF UseChains, ChainNext
  <2>4. CASE WalkChain
    BY <2>4, Zenon DEF WalkChain, ChainNext
  <2>5. CASE UNCHANGED objVars
    BY <2>5, Zenon DEF objVars
  <2>. QED BY <2>1, <2>2, <2>3, <2>4, <2>5 DEF ObjNext
<1>3. ObjSpec => []LifeInv
  BY ObjectLives, LifecycleInvariant, PTL
<1>. QED BY <1>1, <1>2, <1>3, ChainStays, PTL DEF ObjSpec
==============================================================================
