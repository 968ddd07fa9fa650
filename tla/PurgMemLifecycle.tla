--------------------------- MODULE PurgMemLifecycle ---------------------------
(***************************************************************************)
(* Creation and destruction of a C purgeable object: PurgMemCreate with    *)
(* its goto unwinding and PurgMemDestroy with its partial failures, one    *)
(* step per resource taken or released.  One thread creates, destroys,     *)
(* retries a destroy that failed, and creates again.                       *)
(***************************************************************************)
EXTENDS Naturals, Sequences

CONSTANT ReleaseMayFail   \* may munmap, and the lock Destroy takes, fail?

ASSUME ReleaseAssumption == ReleaseMayFail \in BOOLEAN

\* What PurgMemCreate takes, in this order.
Order == <<"obj", "data", "uptStruct", "uptMap", "lock", "builder">>
Resource == {Order[i] : i \in DOMAIN Order}

VARIABLES
  g_supportUxpt,
  phase,         \* "idle", "create", "unwind" or "destroy"
  at,            \* the step the phase is at
  inCreate,      \* is the running PurgMemDestroy called by PurgMemCreate?
  err,           \* PurgMemDestroy: some release failed
  live,          \* resources taken for the object and not released
  field,         \* the object's fields: resources it has a pointer to
  handle,        \* the caller's pointer is not NULL
  leaked,        \* live resources of objects nobody has a pointer to
  failed,        \* history: a release or Destroy's lock has failed
  badFree        \* history: something that was not live has been released

lifeVars == <<g_supportUxpt, phase, at, inCreate, err, live, field, handle, leaked, failed, badFree>>

LifeFlagsOK ==
  /\ g_supportUxpt \in BOOLEAN /\ inCreate \in BOOLEAN /\ err \in BOOLEAN
  /\ handle \in BOOLEAN /\ failed \in BOOLEAN /\ badFree \in BOOLEAN

LifeTypeOK ==
  /\ LifeFlagsOK
  /\ phase \in {"idle", "create", "unwind", "destroy"}
  /\ at \in 0..Len(Order)
  /\ live \in SUBSET Resource /\ field \in SUBSET Resource /\ leaked \in SUBSET Resource

LifeInit ==
  /\ g_supportUxpt \in BOOLEAN
  /\ phase = "idle" /\ at = 0
  /\ live = {} /\ field = {} /\ leaked = {}
  /\ inCreate = FALSE /\ err = FALSE /\ handle = FALSE /\ failed = FALSE /\ badFree = FALSE

Goto(ph, k) == phase' = ph /\ at' = k

\* The table's own mapping exists only with kernel support.
Needed(rs) == rs \ (IF g_supportUxpt THEN {} ELSE {"uptMap"})

Take(rs) == live' = live \cup rs /\ field' = field \cup rs /\ UNCHANGED <<failed, badFree>>

Release(rs) ==
  /\ live' = live \ rs /\ field' = field \ rs
  /\ badFree' = (badFree \/ ~(rs \subseteq live))
  /\ UNCHANGED failed

Unmaps(rs) == rs \cap {"data", "uptMap"} # {}

\* A failed munmap releases nothing of rs and forgets the pointers in lost.
ReleaseFails(rs, lost) ==
  /\ ReleaseMayFail /\ Unmaps(rs)
  /\ failed' = TRUE /\ field' = field \ lost
  /\ UNCHANGED <<live, badFree>>

\* The caller is told that there is no object: the rest is out of reach.
Abandon(rest) == live' = {} /\ leaked' = leaked \cup rest

------------------------------------------------------------------------------
(* PurgMemCreate. *)

PurgMemCreate ==
  /\ phase = "idle" /\ ~handle
  /\ Goto("create", 1) /\ field' = {}
  /\ UNCHANGED <<g_supportUxpt, inCreate, err, live, handle, leaked, failed, badFree>>

\* A step of PurgMemCreate_ or, for the last one, PurgMemAppendModify succeeds.
CreateStep ==
  /\ phase = "create"
  /\ Take(Needed({Order[at]}))
  /\ IF at = Len(Order) THEN Goto("idle", 0) /\ handle' = TRUE
                        ELSE Goto("create", at + 1) /\ UNCHANGED handle
  /\ UNCHANGED <<g_supportUxpt, inCreate, err, leaked>>

\* It fails: the labels undo the steps before it, a failed first modification
\* destroys the object.
CreateFailsMut ==
  /\ phase = "create"
  /\ Needed({Order[at]}) # {}
  /\ IF at = Len(Order) THEN Goto("destroy", 1) /\ inCreate' = TRUE /\ err' = FALSE
                        ELSE Goto("unwind", at - 2) /\ UNCHANGED <<inCreate, err>>
  /\ UNCHANGED <<g_supportUxpt, live, field, handle, leaked, failed, badFree>>
CreateFails ==
  /\ phase = "create"
  /\ Needed({Order[at]}) # {}
  /\ IF at = Len(Order) THEN Goto("destroy", 1) /\ inCreate' = TRUE /\ err' = FALSE
                        ELSE Goto("unwind", at - 1) /\ UNCHANGED <<inCreate, err>>
  /\ UNCHANGED <<g_supportUxpt, live, field, handle, leaked, failed, badFree>>

\* The labels deinit_upt, free_uxpt, unmap_data and free_pug_obj, in the order
\* of their falling through; the result of the unmappings is not looked at.
UnwindStepMut ==
  /\ phase = "unwind" /\ at > 0
  /\ LET rs == Needed({Order[at]}) IN Release(rs) \/ ReleaseFails(rs, rs)
  /\ Goto("unwind", IF at = 3 THEN 1 ELSE at - 1)
  /\ UNCHANGED <<g_supportUxpt, inCreate, err, handle, leaked>>
UnwindStep ==
  /\ phase = "unwind" /\ at > 0
  /\ LET rs == Needed({Order[at]}) IN Release(rs) \/ ReleaseFails(rs, rs)
  /\ Goto("unwind", at - 1)
  /\ UNCHANGED <<g_supportUxpt, inCreate, err, handle, leaked>>

UnwindReturn ==
  /\ phase = "unwind" /\ at = 0
  /\ Goto("idle", 0)
  /\ Abandon(live)
  /\ UNCHANGED <<g_supportUxpt, inCreate, err, field, handle, failed, badFree>>

------------------------------------------------------------------------------
(* PurgMemDestroy. *)

PurgMemDestroy ==
  /\ phase = "idle" /\ handle /\ "obj" \in live
  /\ Goto("destroy", 1) /\ err' = FALSE
  /\ UNCHANGED <<g_supportUxpt, inCreate, live, field, handle, leaked, failed, badFree>>

\* The write lock cannot be taken.
DestroyLockFails ==
  /\ phase = "destroy" /\ at = 1 /\ ReleaseMayFail
  /\ Goto("idle", 0) /\ inCreate' = FALSE /\ failed' = TRUE
  /\ IF inCreate THEN Abandon(live) ELSE UNCHANGED <<live, leaked>>
  /\ UNCHANGED <<g_supportUxpt, err, field, handle, badFree>>

\* The builder chain, the data, the table with its struct: each is released if
\* the object still has it, and keeps its field if that fails.
DestroyGroup(k) == Needed(<<{"builder"}, {"data"}, {"uptMap", "uptStruct"}>>[k])

DestroyStepMut ==
  /\ phase = "destroy" /\ at \in 1..3
  /\ Goto("destroy", at + 1)
  /\ LET rs == DestroyGroup(at) IN
     \/ Release(rs) /\ UNCHANGED err
     \/ ReleaseFails(rs, {}) /\ err' = TRUE
  /\ UNCHANGED <<g_supportUxpt, inCreate, handle, leaked>>
DestroyStep ==
  /\ phase = "destroy" /\ at \in 1..3
  /\ Goto("destroy", at + 1)
  /\ LET rs == DestroyGroup(at) \cap field IN
     \/ Release(rs) /\ UNCHANGED err
     \/ ReleaseFails(rs, {}) /\ err' = TRUE
  /\ UNCHANGED <<g_supportUxpt, inCreate, handle, leaked>>

\* Without error the lock and the object go too.  The callee's parameter is set
\* to NULL, the caller's pointer is not; PurgMemCreate returns NULL whatever
\* PurgMemDestroy says.
DestroyReturnMut ==
  /\ phase = "destroy" /\ at = 4
  /\ Goto("idle", 0) /\ inCreate' = FALSE
  /\ LET rest == live \ {"lock", "obj"}
     IN IF inCreate \/ ~err THEN Abandon(rest) ELSE live' = rest /\ UNCHANGED leaked
  /\ UNCHANGED <<g_supportUxpt, err, field, handle, failed, badFree>>
DestroyReturn ==
  /\ phase = "destroy" /\ at = 4
  /\ Goto("idle", 0) /\ inCreate' = FALSE
  /\ LET rest == IF err THEN live ELSE live \ {"lock", "obj"}
     IN IF inCreate \/ ~err THEN Abandon(rest) ELSE live' = rest /\ UNCHANGED leaked
  /\ UNCHANGED <<g_supportUxpt, err, field, handle, failed, badFree>>

\* The client drops its pointer to a destroyed object.
ClientForgets ==
  /\ phase = "idle" /\ handle /\ "obj" \notin live
  /\ handle' = FALSE
  /\ UNCHANGED <<g_supportUxpt, phase, at, inCreate, err, live, field, leaked, failed, badFree>>

LifeNext ==
  \/ PurgMemCreate \/ CreateStep \/ CreateFails \/ UnwindStep \/ UnwindReturn
  \/ PurgMemDestroy \/ DestroyLockFails \/ DestroyStep \/ DestroyReturn
  \/ ClientForgets

LifeSpec == LifeInit /\ [][LifeNext]_lifeVars

------------------------------------------------------------------------------
(* Properties. *)

\* Nothing is released that is not there: neither by the unwinding, nor by a
\* PurgMemDestroy repeated after one that got half-way.
NoBadFree == ~badFree

\* Whatever step of PurgMemCreate or PurgMemDestroy fails, nothing is left
\* behind out of reach, unless the OS refused to unmap or to lock.
LeakOnlyIfReleaseFailed == leaked # {} => failed

\* Between calls the object's fields are exactly what is still to be released,
\* so that a PurgMemDestroy that failed can be repeated; the object itself and
\* its lock stay as long as anything else does.
RetryFindsRest ==
  phase = "idle" /\ live # {} => field = live /\ {"obj", "lock"} \subseteq live

\* What the first k steps of PurgMemCreate take.
Taken(k) == Needed({Order[i] : i \in 1..k})

\* Why: while it is created an object has what the steps so far have taken; the
\* unwinding has forgotten what lies behind it and has lost it only to a munmap
\* that failed; PurgMemDestroy never lets a field and the resource part, and has
\* released everything it has passed, or knows that it has not.
LifeInv ==
  /\ LifeTypeOK /\ NoBadFree /\ LeakOnlyIfReleaseFailed
  /\ live \subseteq Taken(Len(Order))
  /\ inCreate => phase = "destroy"
  /\ phase = "idle" =>
       live = {} \/ (handle /\ field = live /\ {"obj", "lock"} \subseteq live)
  /\ phase = "create" => at > 0 /\ ~handle /\ live = Taken(at - 1) /\ field = live
  /\ phase = "unwind" =>
       /\ ~handle /\ at < Len(Order) /\ field = Taken(at) /\ field \subseteq live
       /\ live = field \/ failed
  /\ phase = "destroy" =>
       /\ at \in 1..4 /\ field = live /\ {"obj", "lock"} \subseteq live
       /\ handle <=> ~inCreate
       /\ err => failed
       /\ ~err => \A k \in 1..3 : k < at => DestroyGroup(k) \cap live = {}
==============================================================================
