---------------------------- MODULE PurgMemObject ----------------------------
(***************************************************************************)
(* A C purgeable object and its chain of builders, in the hands of one     *)
(* client: PurgMemCreate makes the chain with its last step, AppendModify  *)
(* lengthens it, PurgMemDestroy destroys it with its first step, while the *)
(* client makes, joins and destroys chains of its own.                     *)
(***************************************************************************)
EXTENDS PurgMemLifecycle, BuilderChain

VARIABLE builder    \* the object's field of that name

objVars == <<lifeVars, chainVars, builder>>

ObjInit == LifeInit /\ ChainInit /\ builder = NULL

\* PurgMemCreate ends with PurgMemAppendModify, which makes the first builder.
CreateObject ==
  /\ op = "idle"
  /\ \/ PurgMemCreate /\ UNCHANGED <<chainVars, builder>>
     \/ CreateStep /\ at < Len(Order) /\ UNCHANGED <<chainVars, builder>>
     \/ CreateStep /\ at = Len(Order) /\ PurgMemBuilderCreate /\ builder' \in heads' \ heads
     \/ (CreateFails \/ UnwindStep \/ UnwindReturn) /\ UNCHANGED <<chainVars, builder>>

\* PurgMemDestroy hands the chain, if the object still has one, to
\* PurgMemBuilderDestroy and goes on when that has returned.
DestroyObject ==
  /\ op = "idle"
  /\ \/ DestroyStep /\ at = 1 /\ "builder" \in field
        /\ PurgMemBuilderDestroy(builder) /\ builder' = NULL
     \/ /\ \/ DestroyStep /\ ~(at = 1 /\ "builder" \in field)
           \/ PurgMemDestroy \/ DestroyLockFails \/ DestroyReturn \/ ClientForgets
        /\ UNCHANGED <<chainVars, builder>>

\* Between these calls the client appends to the object's chain, which a Begin
\* builds, and works on chains of its own.  An object whose destroy has failed
\* has lost its chain and is only destroyed again.
UseChains ==
  /\ phase = "idle"
  /\ \/ PurgMemBuilderCreate
     \/ \E h \in heads :
          \/ PurgMemBuilderAppendFunc(h)
          \/ \E new \in heads \ {builder} : PurgMemBuilderAppendBuilder(h, new)
          \/ PurgMemBuilderBuildAll(h)
          \/ h # builder /\ PurgMemBuilderDestroy(h)
  /\ UNCHANGED <<lifeVars, builder>>

WalkChain == Walk /\ UNCHANGED <<lifeVars, builder>>

ObjNext == CreateObject \/ DestroyObject \/ UseChains \/ WalkChain

\* The client's thread runs its walk to the end.
ObjSpec == ObjInit /\ [][ObjNext]_objVars /\ WF_objVars(WalkChain)
==============================================================================
