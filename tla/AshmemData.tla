------------------------------ MODULE AshmemData ------------------------------
(***************************************************************************)
(* What one PurgeableAshMem object (purgeable_ashmem.cpp) owns: a region   *)
(* of ashmem, its descriptor ashmemFd_ and its mapping dataPtr_, through   *)
(* construction, ResizeData, ChangeAshmemData and destruction, when any    *)
(* call to the system may fail.  Each step does at most one thing to the   *)
(* descriptor table.  How the object is pinned, purged and rebuilt is in   *)
(* PurgeableMem.                                                           *)
(*                                                                         *)
(* The client of ChangeAshmemData lends a region that it has created and   *)
(* mapped.  The destructor leaves that region alone, so the client closes  *)
(* it afterwards, unless the object did: a ResizeData or ChangeAshmemData  *)
(* that follows releases it like one of its own.                           *)
(***************************************************************************)
EXTENDS FdTable, Sequences

CONSTANTS MaxRegions, Sizes      \* bound on regions; their sizes in pages

VARIABLES
  apc,                           \* the next step of the object
  ashmemFd_, dataPtr_, dataSizeInput_, isChange_,
  fd,                            \* CreatePurgeableData: its local
  regionSize, mapped, lent,      \* of the regions 1, 2, ... made so far
  offer,                         \* the lent region not yet given
  unmapFailed, badUnmap          \* history: a munmap failed, or had the wrong size

fields == <<ashmemFd_, dataPtr_, dataSizeInput_, isChange_>>
regions == <<regionSize, mapped, lent, offer>>
ashmemVars == <<apc, fields, fd, regions, unmapFailed, badUnmap>>

AshmemInit ==
  /\ apc = "none" /\ fd = 0 /\ ashmemFd_ = -1 /\ dataPtr_ = 0
  /\ dataSizeInput_ = 0 /\ isChange_ = FALSE
  /\ regionSize = <<>> /\ mapped = {} /\ lent = {} /\ offer = 0
  /\ unmapFailed = FALSE /\ badUnmap = FALSE

FdOf(r) == CHOOSE n \in Fds : fdOwner[n] = Region(r)
NewRegion == Len(regionSize) + 1
MakeRegion(size) ==
  /\ NewRegion <= MaxRegions /\ OpenFd(Region(NewRegion))
  /\ regionSize' = Append(regionSize, size)

\* Both constructors: with a size they create the data.
Construct ==
  /\ apc = "none"
  /\ \/ apc' = "idle" /\ UNCHANGED dataSizeInput_
     \/ apc' = "create" /\ dataSizeInput_' \in Sizes
  /\ UNCHANGED <<fdVars, ashmemFd_, dataPtr_, isChange_, fd, regions, unmapFailed, badUnmap>>

(* CreatePurgeableData: AshmemCreate, then AshmemSetProt and mmap.           *)
AshmemCreate ==
  /\ apc = "create"
  /\ \/ MakeRegion(dataSizeInput_) /\ fd' = NewFd /\ apc' = "created"
     \/ apc' = "idle" /\ UNCHANGED <<fdVars, fd, regionSize>>           \* fd < 0
  /\ UNCHANGED <<fields, mapped, lent, offer, unmapFailed, badUnmap>>

CreatePurgeableDataMut ==
  LET r == Len(regionSize) IN
  /\ apc = "created" /\ apc' = "idle" /\ fd' = 0 /\ ashmemFd_' = fd /\ dataPtr_' = r
  /\ \/ CloseFd(fd, Region(r)) /\ UNCHANGED mapped
     \/ mapped' = mapped \cup {r} /\ UNCHANGED fdVars
  /\ UNCHANGED <<dataSizeInput_, isChange_, regionSize, lent, offer, unmapFailed, badUnmap>>
CreatePurgeableData ==
  LET r == Len(regionSize) IN
  /\ apc = "created" /\ apc' = "idle" /\ fd' = 0
  /\ \/ CloseFd(fd, Region(r)) /\ UNCHANGED <<ashmemFd_, dataPtr_, mapped>>   \* AshmemSetProt < 0
     \/ /\ ashmemFd_' = fd /\ dataPtr_' = 0                                   \* MAP_FAILED
        /\ CloseFd(fd, Region(r)) /\ UNCHANGED mapped
     \/ /\ ashmemFd_' = fd /\ dataPtr_' = r /\ mapped' = mapped \cup {r}
        /\ UNCHANGED fdVars
  /\ UNCHANGED <<dataSizeInput_, isChange_, regionSize, lent, offer, unmapFailed, badUnmap>>

(* munmap of dataPtr_ with the given size, and close of ashmemFd_ if asked.  *)
Unmap(size, closes) ==
  \/ /\ mapped' = mapped \ {dataPtr_} /\ UNCHANGED unmapFailed
     /\ badUnmap' = (badUnmap \/ size # regionSize[dataPtr_])
     /\ IF closes THEN CloseFd(ashmemFd_, Region(dataPtr_)) ELSE UNCHANGED fdVars
  \/ unmapFailed' = TRUE /\ UNCHANGED <<mapped, badUnmap, fdVars>>

\* The release that ResizeData and ChangeAshmemData start with.
Release ==
  IF dataPtr_ = 0 THEN UNCHANGED <<fdVars, mapped, unmapFailed, badUnmap>>
                  ELSE Unmap(dataSizeInput_, ashmemFd_ > 0)

ResizeDataMut(size) ==
  /\ apc = "idle" /\ apc' = "create" /\ Release
  /\ dataSizeInput_' = size
  /\ UNCHANGED <<ashmemFd_, dataPtr_, isChange_, fd, regionSize, lent, offer>>
ResizeDataEarly(size) ==
  /\ apc = "idle" /\ apc' = "create"
  /\ IF dataPtr_ = 0 THEN UNCHANGED <<fdVars, mapped, unmapFailed, badUnmap>>
                     ELSE Unmap(size, ashmemFd_ > 0)
  /\ dataPtr_' = IF dataPtr_ \in mapped' THEN dataPtr_ ELSE 0
  /\ dataSizeInput_' = size
  /\ UNCHANGED <<ashmemFd_, isChange_, fd, regionSize, lent, offer>>
ResizeData(size) ==
  /\ apc = "idle" /\ apc' = "create" /\ Release
  /\ dataPtr_' = IF dataPtr_ \in mapped' THEN dataPtr_ ELSE 0
  /\ dataSizeInput_' = size
  /\ UNCHANGED <<ashmemFd_, isChange_, fd, regionSize, lent, offer>>

\* The client's AshmemCreate and mmap of the region that it will lend.
ClientCreates ==
  /\ apc = "idle" /\ offer = 0
  /\ \E size \in Sizes : MakeRegion(size)
  /\ mapped' = mapped \cup {NewRegion} /\ lent' = lent \cup {NewRegion} /\ offer' = NewRegion
  /\ UNCHANGED <<apc, fields, fd, unmapFailed, badUnmap>>

ChangeAshmemData ==
  /\ apc = "idle" /\ offer # 0 /\ Release
  /\ dataSizeInput_' = regionSize[offer] /\ ashmemFd_' = FdOf(offer) /\ dataPtr_' = offer
  /\ isChange_' = TRUE /\ offer' = 0
  /\ UNCHANGED <<apc, fd, regionSize, lent>>

\* The destructor.
DestructMut ==
  /\ apc = "idle" /\ apc' = "gone"
  /\ IF ~isChange_ /\ dataPtr_ # 0
       THEN Unmap(dataSizeInput_, FALSE)
       ELSE UNCHANGED <<fdVars, mapped, unmapFailed, badUnmap>>
  /\ UNCHANGED <<fields, fd, regionSize, lent, offer>>
Destruct ==
  /\ apc = "idle" /\ apc' = "gone"
  /\ IF ~isChange_ /\ dataPtr_ # 0
       THEN Unmap(dataSizeInput_, TRUE)
       ELSE UNCHANGED <<fdVars, mapped, unmapFailed, badUnmap>>
  /\ UNCHANGED <<fields, fd, regionSize, lent, offer>>

\* The client releases what it lent and the object has not released.
ClientCloses ==
  /\ apc = "gone"
  /\ \E r \in lent \cap mapped :
       /\ mapped' = mapped \ {r}
       /\ IF \E n \in Fds : fdOwner[n] = Region(r) THEN CloseFd(FdOf(r), Region(r)) ELSE UNCHANGED fdVars
  /\ UNCHANGED <<apc, fields, fd, regionSize, lent, offer, unmapFailed, badUnmap>>

AshmemNext ==
  \/ Construct \/ AshmemCreate \/ CreatePurgeableData
  \/ \E size \in Sizes : ResizeData(size)
  \/ ClientCreates \/ ChangeAshmemData \/ Destruct \/ ClientCloses
-----------------------------------------------------------------------------
(* As long as the object has data, ashmemFd_ names the region that dataPtr_  *)
(* maps, so that Pin, Unpin and IsPurged reach their own region: after a     *)
(* failure ashmemFd_ may be a closed number, or someone else's, but never    *)
(* while dataPtr_ is set.                                                    *)
FdBacksData ==
  apc \in {"idle", "create", "created"} /\ dataPtr_ # 0 =>
    fdOwner[ashmemFd_] = Region(dataPtr_) /\ dataPtr_ \in mapped

(* munmap gets the size of the mapping it is to remove, which ResizeData has *)
(* to read before it changes dataSizeInput_; only after a munmap that failed *)
(* do the two part.                                                          *)
UnmapsWhole == badUnmap => unmapFailed

(* Nothing of the object outlives it but what a munmap refused to release,   *)
(* the descriptor 0, which ResizeData and ChangeAshmemData take for none,    *)
(* and the data of an object that has once been changed: isChange_ stays,    *)
(* also when ResizeData has made the data its own again.                     *)
NothingOutlives ==
  apc = "gone" =>
    \A r \in 1..Len(regionSize) \ lent :
      r \in mapped \/ (\E n \in Fds : fdOwner[n] = Region(r)) =>
        \/ unmapFailed
        \/ fdOwner[0] = Region(r)
        \/ isChange_ /\ r = dataPtr_

(* Why: what is open or mapped and is not the client's is the object's data, *)
(* the region that CreatePurgeableData has at hand, or what NothingOutlives  *)
(* excuses; and as long as no munmap has failed dataSizeInput_ is the size   *)
(* of the data whenever it is used.                                          *)
Open(r) == \E n \in Fds : fdOwner[n] = Region(r)
Made == 1..Len(regionSize)

AshmemTypeOK ==
  /\ apc \in {"none", "idle", "create", "created", "gone"}
  /\ regionSize \in Seq(Sizes) /\ mapped \in SUBSET Made /\ lent \in SUBSET Made
  /\ dataPtr_ \in Made \cup {0} /\ offer \in Made \cup {0}
  /\ apc \in {"create", "created"} => dataSizeInput_ \in Sizes
  /\ \A n \in Fds : fdOwner[n].kind = "region" => fdOwner[n].id \in Made

DataInv ==
  apc # "gone" /\ dataPtr_ # 0 =>
    ashmemFd_ \in Fds /\ fdOwner[ashmemFd_] = Region(dataPtr_) /\ dataPtr_ \in mapped

OfferInv ==
  apc # "gone" /\ offer # 0 => offer \in lent \cap mapped /\ offer # dataPtr_ /\ Open(offer)

CreatedInv ==
  apc = "created" =>
    /\ Len(regionSize) \in Made \ (mapped \cup lent \cup {dataPtr_, offer})
    /\ fd \in Fds /\ fdOwner[fd] = Region(Len(regionSize))
    /\ regionSize[Len(regionSize)] = dataSizeInput_

SizeInv ==
  unmapFailed \/
    /\ badUnmap = FALSE
    /\ apc \in {"none", "create", "created"} => dataPtr_ = 0
    /\ apc = "idle" /\ dataPtr_ # 0 => dataSizeInput_ = regionSize[dataPtr_]

RestInv ==
  unmapFailed \/
    \A r \in Made \ lent :
      r \in mapped \/ Open(r) =>
        \/ fdOwner[0] = Region(r)
        \/ r = dataPtr_ /\ (apc = "gone" => isChange_)
        \/ r = Len(regionSize) /\ apc = "created"

AshmemInv == AshmemTypeOK /\ DataInv /\ OfferInv /\ CreatedInv /\ SizeInv /\ RestInv
==============================================================================
