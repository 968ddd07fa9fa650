# TLA+ verification of memory_utils

`memory_utils` holds three libraries: **libpurgeablemem** (memory whose pages the
OS may take away when nobody uses them and which is rebuilt on the next access),
**libdmabufheap** (allocation of DMA buffers) and **libmeminfo** (memory figures
of processes). This development models the state of all three, checks it with TLC
on small instances, and proves with TLAPS, for every instance, all of its safety
properties and both refinements. Liveness is model-checked.

## The system

| Part | State | Operations | What is hard | What makes it correct |
|---|---|---|---|---|
| User-extended page table, `common/src/ux_page_table_c.c` | one 64-bit word per page (present bit, reference count, reclaim marker), shared with the kernel | get, put, presence query over a range; init, deinit, clear | lock-free load and compare-and-swap loops, page by page, against other threads and the kernel; address arithmetic that wraps | counts equal the holders; the present bit tells the truth; a pinned page stays; an operation touches the words of its pages |
| C object, `c/src/purgeable_mem_c.c` | data mapping, table, rwlock, builder chain, `buildDataCount` | create, destroy, begin/end read and write, append modify | lock gap between try and rebuild, failing builders and locks, retry loop, wrap of the count | whoever is inside sees the whole content, undisturbed; nothing leaks; calls return |
| Builder chains, `c/src/purgeable_mem_builder_c.c`, `cpp/src/purgeable_mem_builder.cpp` | linked list | create, append, build all, destroy | splicing chains | builders run once each, in order; one owner each |
| C++ `PurgeableMemBase`, `PurgeableMem` | the same with a mutex per call, `isDataValid_` | begin/end, modify, resize | accesses that overlap; validity changes during an access | references balance, content matches the builders |
| C++ `PurgeableAshMem` | ashmem descriptor, mapping, `isSupport_`, `isChange_` | begin/end, resize, change data | descriptors that are closed or lent | descriptor and mapping belong together and are released once |
| libdmabufheap | descriptors, tracer | open, close, alloc, free, sync | numbers that are reused by other threads | each descriptor closed once; the tracer reports what is open |
| libmeminfo | locals of a call | sums over processes | processes that exit between queries, error values in sums | the total is what was answered; the library is closed |
| NDK wrappers, `c/src/purgeable_memory.c` | none | forward to the C object | | |

A Begin call of the C object pins every page (`UxpteGet`), takes the rwlock, asks
the table whether a page is gone (`IsPurged`), and if so rebuilds by clearing the
data and running the builders. End unlocks and unpins. The C++ object does the same
under a mutex that it releases when Begin returns. The kernel reclaims pages whose
count is zero, at any time. PROJECT.json lists every hazard at its line, with the
properties that cover it or the reason none does.

## Modules

The C object:

* **UxPageTable**: the table. `uxpte[p]` is the word of a page as an integer of
  width `2 * RefLimit` (bit 0 present, the rest the count), so that the marker
  `-2`, overflow and wrap below zero are what they are in the code. A thread's
  position in `UxpteOps` is `upc[t]` and `off[t]`; `old` and `newVal` are the C
  locals; every load and every compare-and-swap is a step. `pinned[t]` is history:
  the pages the thread was told it holds. `resident` and `reclaiming` belong to the
  kernel, whose three actions are external: a write faults pages in and sets the
  present bit, and a reclaim swaps the marker in for a word with count zero and
  later drops the frame and clears the word.
* **PurgMem** extends it with the object: `rdHolders` and `wrHolders` (the
  rwlock, external), `pc[t]` (the position in an API call), the chain's length,
  `buildDataCount`, the position of a rebuild, and the content of each page as the
  number of builders whose effects are there in order (`Bad` for anything else).
* **PurgeableContract**: what the header promises, without table, lock or builder.
* **PurgMemLive**: PurgMem with a budget of calls and fairness.
* **PurgMemLifecycle**: PurgMemCreate with its unwinding and PurgMemDestroy with
  its partial failures, one step per resource.
* **BuilderChain**: the chain as the list of nodes it is, one step per node visited,
  with the sequence of appends as history. It justifies that PurgMem and
  PurgeableMem keep only the number of builders.
* **PurgMemObject** composes the two: the last step of PurgMemCreate makes the object's
  chain (`builder`), the client appends to it and builds it, the first step of
  PurgMemDestroy hands it to PurgMemBuilderDestroy and goes on when that has returned,
  and the client has chains of its own besides.
* **UxAddr**: table size, rounding, word index and the loop of `UxpteOps` over
  addresses of an unsigned type that wraps at `WordSpace`.

The C++ object:

* **PurgeableMem**: PurgeableMemBase with the overrides of either subclass
  (`backend`). A call holds `dataLock`, an access does not, so accesses overlap. The
  pages are taken together; the count is the table's or the ashmem driver's
  (external). Pin and Unpin of an ashmem object reach the driver only if `isSupport` is
  set, which it stays, and `ashmemFd` is greater than 0 (`DriverCounts`); elsewhere the
  count is what the region came with. An ashmem object may be made without data, which
  ResizeData or ChangeAshmemData then provides. `kept` and `tainted` are history:
  references that EndRead did not give back, and content that is lost without the object
  knowing.
* **AshmemData**: what one PurgeableAshMem owns (region, descriptor, mapping) through
  constructors, ResizeData, ChangeAshmemData and destructor, any system call failing.

The other libraries, and the composition:

* **FdTable**: the descriptor table of the process (external): lowest free number.
* **DmabufHeap**: open, close, alloc and free by several threads, each call's step on
  the descriptor table and its step on the tracer apart, in the order of the code.
* **Descriptors** puts AshmemData and DmabufHeap on one FdTable: a number that one of
  them has closed may be given to the other between two steps.
* **MemInfo**: GetAppsTotalMemory query by query, each answer chosen when it is asked
  for, GetDmaInfo, and the readers of `smaps_rollup` as operators on lines.

**UxPageTableProofs**, **PurgMemProofs**, **PurgMemLifecycleProofs**,
**BuilderChainProofs**, **UxAddrProofs**, **PurgeableMemProofs**, **DescriptorsProofs**
and **MemInfoProofs** hold the proofs, each about the module it is named after;
PurgMemLifecycleProofs also has those about PurgMemObject.
**MCUxPageTable**, **MCPurgMem** (symmetry) and **MCMemInfo** (the answers) are for TLC.

### What is abstracted, and what clients are assumed to do

* `MarkerVisible` is an assumption about the kernel, not a fact of this repository:
  FALSE means that no thread runs between the two halves of a reclaim. The kernel's
  side is not in the repository, so both values are checked. The passing runs and
  the proofs about pins need FALSE; `lost_pin` shows what happens otherwise.
* An access covers all pages of the object, as every caller in `purgeable_mem_c.c`
  does (`CallersInRange` of UxAddr: the range is never refused). A rebuild touches
  every page.
* `AppendModify` is called by a writer. Pthread unlock of a lock that is held does
  not fail, so the branches on unlock errors are unreachable here; `memset_s` gets
  arguments that fit and does not fail either.
* Sequential consistency: loads are preceded by a full barrier in `UxpteLoad` and the
  swaps are `__sync` operations. `IsPresentAt` reads the word plainly; it is a single
  atomic read in the model.
* C++: ResizeData and ChangeAshmemData are called while nobody uses the object. A
  chain is handed over once (`unique_ptr` enforces it in C++). A heap is closed and a
  buffer freed once. The client of ChangeAshmemData closes the region that it lent
  after the object is gone, unless the object did; it lends a region with the one pin
  that AshmemCreate leaves, and at a descriptor that Unpin does not reach also one
  without a pin. Without these the library cannot keep its promises, whatever it does;
  the hazards say so.
* C: an object whose PurgMemDestroy failed is destroyed again and not used otherwise.
* ashmem driver (external): a region has one pin when it is made, `ASHMEM_UNPIN` takes one
  back, and the driver purges a region it reports as purgeable once it has none.
* Page and word sizes in UxAddr are parameters; shifts and masks of powers of two are
  the divisions and remainders they equal.

## Runs

| Run | Checks | Bounds |
|---|---|---|
| `uxpt_pins` | `PinAccounting`, `PresentIsResident`, `PinInv`, `PinnedNotReclaimed` | 3 threads, 2 pages |
| `purgmem_pages` | `ReadersSeeLog`, `NothingLeaked`, `PurgMemInv`, `StableWhileReading`, `InsideNotReclaimed`; refinement of the table (`UsesPageTable`) and of the contract (`KeepsContract`) | 2 threads, 2 pages, locks fail |
| `purgmem_live` | `CallsReturn` | 2 threads, 1 page, 3 calls, builders and appends fail |
| `object` | `NoBadFree`, `LeakOnlyIfReleaseFailed`, `RetryFindsRest`, `LifeInv`; `ChainIsLog`, `OwnedOnce`, `ChainInv`, `BuildsInOrder`, `WalksEnd` | 4 builders, every release fails at will |
| `cxx` | `CxxReadersSeeLog`, `PinsBalanced`, `CxxInv`, `CxxInsideNotReclaimed`, `CxxCallsReturn` | 3 threads, both subclasses, with and without kernel support, descriptors 0 and 3, everything may fail |
| `descriptors` | `NoForeignClose`, `TraceMatches`, `FdBacksData`, `UnmapsWhole`, `NothingOutlives`, `DescInv` | 3 descriptors, 2 regions of 2 sizes, 2 threads of the heap library, 1 buffer |
| `uxaddr` | `AddrInv`, `TouchesOwnWords`, `CoversRange`, `CallersInRange`, `OpsEnd` | all addresses and lengths of 24 bytes: 6 pages of 4 bytes, 2 words a page |
| `meminfo` | `ClientReleased`, `InfoInv`, `TotalWhenAnswered` | 3 processes, 4 files, 4 answers |
| `lost_pin`, `spurious_failure`, `half_built`, `documented_total` | one violated property each, see Findings | the smallest instance that shows it |

The `...Inv` of a run is the inductive invariant of the module's proofs; it contains the
module's type invariant. What the passing runs show:

* `uxpt_pins`: no increment or decrement is lost or doubled by a concurrent one, a
  fault or a reclaim between load and swap; a pinned page keeps its frame.
* `purgmem_pages`: whoever is inside an access sees the whole content, nothing changes
  under a reader, every return path gives back lock and references, and the object is
  an implementation both of the table's clients and of its header.
* `purgmem_live`: the retry loop of BeginRead and the swap loops end.
* `object`: PurgMemCreate and PurgMemDestroy release everything once, and a destroy
  that failed can be repeated. The list of builders is the log of the appends, also of
  whole chains; destroying one frees what it owns and nothing else, whether the client
  does it or PurgMemDestroy.
* `cxx`: the count alone protects overlapping accesses, and is the number of open ones
  (`PinsBalanced`) until an EndRead meets invalid data. At descriptor 0, where nothing is
  counted, a region of the object's own is protected by its first pin, which Unpin could
  not take back (`CxxInsideNotReclaimed`). The content is lost unnoticed (`tainted`) in five
  cases only: a rebuild that failed over a table whose words its writes made present, a
  modifier that failed half-way, a ResizeData whose new data nobody can report as purged, a
  table that could not be made, and a region lent at descriptor 0 without a pin.
* `descriptors`: no close hits a number that meanwhile names something else;
  `ashmemFd_` backs `dataPtr_` as long as there is data, although it may hold a stale
  number after a failure; what outlives the object is listed by `NothingOutlives`.
* `uxaddr`: objects that share a page of the table never touch each other's words, a
  successful operation touched exactly the pages of its range, the range the library
  passes is never refused, and the loop ends at the top of the address space too.
* `meminfo`: when every query is answered the total is the documented one, with each
  process's own GL; the client library is closed on every path.

### Bounds

Two threads and one page give every race on a word, and `uxpt_pins` and `cxx` add a
third thread; a second page is needed for a range that is partly purged or pinned.
`RefLimit` is just above the number of threads, so the marker and the wrap are near.
`MaxBuilders = 2` tells a rebuild that stopped half-way from a whole one. `CountLimit`
of 2 or 3 makes `buildDataCount` wrap within a run of the C object. Threads are
symmetric where symmetry is used: no action names one, and the runs with liveness
properties use none. For the results that are proved, the proofs make these bounds
irrelevant.

`cxx` stops starting accesses after `MaxBuilds` builds, below the wrap of
`buildDataCount_`: at the wrap a BeginWrite can return with the count at 0 and the next
Begin rebuilds under it (TLC shows it with `CountLimit = MaxBuilds = 2`). In C the rwlock
rules this out, and the C runs do wrap. SetDataValid keeps room in the count for every
thread, since references kept by EndRead add up.

Three descriptors are one for the object, one for a heap and one for a buffer, so that
every number can change hands. (An instance with four, 24 million states, has been run
once and passes.) Four builders allow two chains of two to be joined, one of them the
object's. `cxx` has one descriptor that Pin reaches and one that it does not. The address
space of `uxaddr` has ranges that end at its top, wrap, and cross a boundary of the table's
pages; 6 pages of table words are three pages of table.

### Fairness

* `LiveFairness` (C object): a thread inside a call is scheduled again (weak fairness of
  its steps; a client inside an access ends it) and the kernel completes a reclaim it has
  begun. There is none on starting calls, appending or starting a reclaim. The number of
  Begin calls is bounded, because a POSIX rwlock may starve a waiter as long as others
  keep coming, and the code does nothing against it. With the budget used up the system
  may stop, hence no deadlock check in that run. Lock calls do not fail there: an error
  from the lock would let a waiter return that is in truth blocked.
* `FairSpec` (C++ object): weak fairness of a thread that holds `dataLock_`; waiting for
  the mutex is not part of the claim.
* `ObjSpec`, `ChainSpec`, `AddrSpec`: the calling thread runs its walk, or its loop, to the end.

## Proofs

All proofs are for all values of the constants that the named ASSUMEs allow: any number of
threads, pages, descriptors, regions, builders and processes, any size of page and address
space. Every theorem about a state follows the same argument: an inductive invariant, one
lemma per action that the action keeps it, and the property as its consequence. TLC checks
each of these invariants on the module's run.

**UxPageTableProofs** (`RefLimitAssumption`: the counter has room for the threads):
`UptTypeCorrect` with the marker visible or not, and assuming `~MarkerVisible`
`PinAccountingCorrect`, `PresenceCorrect` and `PinProtects`. The last three follow from
the inductive invariant `PinInv` (`PinInvariant`). `PinAccounting` alone is not inductive:
a compare-and-swap may install a value computed earlier. `PositionOK` ties a thread's
cursor to what it holds (the pages before the cursor during a get, those from it on during
a put) and `newVal` to `old`, so that a successful swap changes the count by one at a page
the thread does not, or does, hold. `ReclaimOK` says that a page under reclaim carries the
marker and has no holder, and `CountBelowMarker` that no count reaches the marker's pattern.

**PurgMemProofs**, all assuming `~MarkerVisible`:

* `ObjectInvariant`: `ObjInv` holds whatever fails. It has `PinInv` (for the table's steps
  are steps of `UptSpec`, lemma `TableStep`), the lock's holders by position (`LockOK`),
  each call's pins by position (`CallOK`), and two facts about time. `ScanOK`: a presence
  query, which walks the words one by one, has found frames behind its cursor that are
  still there, because they are pinned. `FramesOK`: no frame is missing during an access or
  once a rebuild has begun to write.
* From it `PurgMemTypeCorrect`, `NothingLeakedCorrect`, `InsideNotReclaimedCorrect`,
  `StableWhileReadingCorrect` and `UsesPageTableCorrect`, the refinement of `UptSpec`.
* `PurgMemInvariant` (`NoFailure`: no builder and no append fails either): `PurgMemInv` adds
  `ContentOK`, that pages with a frame hold the whole chain, or as much as the rebuild under
  way has run. From it `ReadersSeeLogCorrect` and `KeepsContractCorrect`, the refinement of
  PurgeableContract. `half_built` shows that the assumption on builders is needed.

**PurgeableMemProofs**:

* `CxxAccess` (mutex, references, region, counter of builds), and from it `CxxTypeCorrect`,
  `PinsBalancedCorrect` and `CxxInsideProtected`. `PinsBalanced` speaks of states without a
  running call; the invariant counts every thread from its Begin to its End (`RefsInv`),
  and has to bound the references that readers of invalid data are going to keep.
  `RegionInv` says that a region of the object's own that Pin and Unpin do not reach has
  the pin it was made with.
* `CxxInvariant` and `CxxReadersCorrect`, assuming `NoWrap`: the counter of builds does not
  reach its limit (`BuildsBounded` shows how far it gets). `ContentInv` says that outside a
  build data that does not need a rebuild is whole or its loss is on record.

**PurgMemLifecycleProofs**: `LifecycleInvariant`, and from it `NoBadFreeCorrect`,
`LeakCorrect` and `RetryCorrect`, with and without releases that fail. `RetryFindsRest`
speaks of the time between calls; `LifeInv` adds what each phase relies on. While it is
created the object has what the steps so far took (`Taken`); the unwinding has forgotten
what lies behind it, and something of that is left only if a munmap failed; PurgMemDestroy
never lets a field and its resource part, and without an error has released every group
it has passed. `ObjectLives` and `ObjectKeepsChains` show that PurgMemObject implements
PurgMemLifecycle and takes only steps of BuilderChain, so that the theorems about a state or
a step of either hold for the composition. The second needs `LifeInv` and that the object's
`builder` is the head of an existing chain as long as it has one (`HasChain`).

**BuilderChainProofs** (`NodeAssumption`): `ChainInvariant`, and from it
`ChainIsLogCorrect`, `OwnedOnceCorrect` and, as an action property, `BuildsInOrderCorrect`.
`ChainInv` gives every allocated node one place in one log (`PlacesInv`) and makes
`nextBuilder` the successor in that log (`LinksInv`), except where a call is at work: an
append has logged the newcomer before it is linked, and is in front of the place; a
destruction has freed the nodes before the one it is at (`CallInv`). Lists are compared by
index, so no induction over their length is needed.

**UxAddrProofs** (`SizesAssumption`: words divide pages and pages the address space; powers
of two are not needed): `AddrInvariant`, and from it `TouchesOwnWordsCorrect`,
`CoversRangeCorrect` and `CallersInRangeCorrect`. The argument is arithmetic: lemmas on
quotients and remainders give what RoundUp, RoundDown, GetUxPageSize and GetIndexInUxpte
compute where nothing wraps, and `RangeInv` shows why nothing does. A table exists only
for whole pages that end below the last page of the space, so the end of an accepted range
is really rounded up, and the loop, at a page of the range (`OpsInv`), has touched the
words from the first page up to it.

**DescriptorsProofs** (`MaxFdAssumption`, `BuffersAssumption`): `DescriptorsInvariant`, and
from it `NoForeignCloseCorrect`, `TraceMatchesCorrect`, `FdBacksDataCorrect`,
`UnmapsWholeCorrect` and `NothingOutlivesCorrect`. `DescInv` has a part for the table, one
for the heap library and one for the object. A close hits the right descriptor because
whoever is about to close it is known to own it by position: `HeapsInv` and `BuffersInv` put
every heap and buffer in the hands of the client or of one thread, and `DataInv` and
`CreatedInv` say which of the object's fields can be trusted in which phase (`ashmemFd_`
only while there is data, for a failed CreatePurgeableData leaves a closed number in it).
Each side's steps keep the other's descriptors (`KeepsKinds`), so the proof of one does not
unfold the other. That the lowest free number exists is the least-number principle, which
the library's `WFMin` gives without an operator parameter.

**MemInfoProofs** (`MemInfoAssumption`; `AnswersAssumption`: a type has one line in
`smaps_rollup`): `InfoInvariant`, `ClientReleasedCorrect` and `TotalWhenAnsweredCorrect`, for a
list of any length and any answers. `SumsInv`, in `InfoInv`, says that the locals are the sums
of what has been answered so far, GL being the last answered one; with all queries answered
that is each process's own (`OwnGL`). Sums are recursive functions; `LeastElement` and `AllNaturals`
do the inductions, over sets of naturals and not over predicates, and give what a sum is
(`SumStep`), that it may be taken apart (`SumPlus`) and that a sum with one term is that term
(`SumSingle`). The last two show that GetPssAndSwapPssByPid, which adds up lines, reads what
GetPssByPid and GetSwapPssByPid, which stop at the first, do.

Model-checked only:

* `CallsReturn`, `CxxCallsReturn`, `OpsEnd` and `WalksEnd`: liveness under fairness is out of
  the prover's reach.

## Findings

* `lost_pin`: `continue` in `UxpteAdd`'s do-while (ux_page_table_c.c:290) goes to the
  loop condition; the swap of the marker for `newVal` succeeds and no reference is
  taken. The header promises that the OS cannot reclaim the content during an access.
  It needs a thread that observes the marker.
* `spurious_failure`: when another thread rebuilt between try and rebuild,
  `BeginReadBuildData` reports a failed build (purgeable_mem_c.c:288) and BeginRead
  returns false on present content.
* `half_built`: a rebuild that fails leaves its pages present, and the next Begin
  returns true on incomplete content (purgeable_mem_c.c:441).
* `documented_total`: the error -1 divided by 1024 is 0, so GetAppsTotalMemory does not
  recognise `ERROR_DMA_OPEN_SO` (meminfo.cpp:257) and returns a total without DMA;
  meminfo.h:108 says that the total includes it. `gl` is the previous process's when a query
  has no answer (meminfo.cpp:268), which breaks the same property.

The models also have the following, which the properties state as they are:

* EndRead skips Unpin once the data is invalid (purgeable_mem_base.cpp:101), and the pages
  of an idle object stay pinned, although purgeable_mem_base.h:55-57 says that the OS may
  reclaim them once EndRead has returned: `kept`, which `PinsBalanced` takes to be 0 and
  `CxxInv` counts.
* Pin and Unpin return false at descriptor 0 (purgeable_ashmem.cpp:149, 165), which no caller
  looks at. A region of the object's own keeps its first pin there and is never purged; one
  that is lent there without a pin is not protected: `Protected` and `tainted`.
* Without kernel support ResizeData leaves `buildDataCount_` positive over empty data
  (purgeable_mem.cpp:145), and Begin returns true without building: `tainted`.
* ResizeData and ChangeAshmemData take descriptor 0 for none (purgeable_ashmem.cpp:203), and
  `isChange_` is never reset (purgeable_ashmem.cpp:235), so that data made by a later
  ResizeData is not released: `NothingOutlives`.
* The check `buffer->fd < 0` of DmabufHeapBufferFree (dmabuf_alloc.c:126) is on an unsigned
  number and never true.
* purgeable_mem_c.h:53 says that PurgMemDestroy sets `@purgObj` to NULL, but the pointer is
  passed by value and the caller keeps it: `handle` of the lifecycle stays until
  `ClientForgets`.

## Plan

1. PurgMemDestroy as an action of PurgMem: a destroy that waits for the lock while another
   thread's End has unlocked and not yet put its references.
2. ResizeData of the C++ object during a call, if its documentation comes to allow it.

## Not modelled

* NDK wrappers: they forward and keep no state. Names of states and logging.
* `UxpteClear_` on a word that is not zero: the library clears a table only when it has just
  mapped it. The build without `USE_UXPT`, whose functions do nothing.
* C++: the destructor of PurgeableMem and a munmap that fails in its ResizeData;
  `SetRebuildSuccessCallback`, whose callback no code in `src/` runs.
* The sync calls of libdmabufheap (one ioctl each) and `SetOwnerIdForHeapFlags` (bits of the
  client's buffer). GetRssByPid, one read of `/proc`; the text of `/proc` files and the
  hardware interface behind libmeminfo.
* libmemleak and libspeculative are named in the repository's README and have no code.
