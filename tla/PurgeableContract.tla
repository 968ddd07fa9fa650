-------------------------- MODULE PurgeableContract --------------------------
(***************************************************************************)
(* What purgeable_mem_c.h promises the users of a purgeable object, with   *)
(* no page table, lock or builder in sight: the content may get lost and   *)
(* be recovered only while nobody is inside an access, an access starts    *)
(* only on whole content, writers are alone, and modifications accumulate. *)
(***************************************************************************)
EXTENDS Naturals

CONSTANT Threads

VARIABLES
  readers,   \* threads between BeginRead and EndRead
  writers,   \* threads between BeginWrite and EndWrite
  nMods,     \* modifications accepted so far
  whole      \* does the content hold all of them, in order?

contractVars == <<readers, writers, nMods, whole>>

Nobody == readers = {} /\ writers = {}

ContractInit ==
  /\ Nobody
  /\ nMods = 1
  /\ whole = TRUE

BeginReadTrue(t) ==
  /\ t \notin readers /\ writers = {} /\ whole
  /\ readers' = readers \cup {t}
  /\ UNCHANGED <<writers, nMods, whole>>

BeginWriteTrue(t) ==
  /\ Nobody /\ whole
  /\ writers' = {t}
  /\ UNCHANGED <<readers, nMods, whole>>

End(t) ==
  /\ t \in readers \cup writers
  /\ readers' = readers \ {t}
  /\ writers' = writers \ {t}
  /\ UNCHANGED <<nMods, whole>>

Modify(t) ==
  /\ t \in writers
  /\ nMods' = nMods + 1
  /\ UNCHANGED <<readers, writers, whole>>

LoseOrRecover ==
  /\ Nobody
  /\ whole' = ~whole
  /\ UNCHANGED <<readers, writers, nMods>>

ContractNext ==
  \/ \E t \in Threads : BeginReadTrue(t) \/ BeginWriteTrue(t) \/ End(t) \/ Modify(t)
  \/ LoseOrRecover

ContractSpec == ContractInit /\ [][ContractNext]_contractVars
==============================================================================
