-------------------------------- MODULE UxAddr --------------------------------
(***************************************************************************)
(* The address arithmetic of the user-extended page table                  *)
(* (ux_page_table_c.c): how large the table of a data range is, which of   *)
(* its words belongs to an address, and the loop of UxpteOps over a range. *)
(* Addresses and sizes are unsigned and wrap at WordSpace (2^64).          *)
(*                                                                         *)
(* PAGE_SIZE and UXPTE_PER_PAGE are powers of two in the code, where       *)
(* shifts and masks are the divisions and remainders below.                *)
(***************************************************************************)
EXTENDS Naturals

CONSTANTS
  PAGE_SIZE,
  UXPTE_SIZE,      \* bytes per word of the table: 8
  WordSpace        \* number of values of uint64_t and size_t

ASSUME SizesAssumption ==
  /\ {PAGE_SIZE, UXPTE_SIZE, WordSpace} \subseteq Nat \ {0}
  /\ PAGE_SIZE % UXPTE_SIZE = 0 /\ WordSpace % PAGE_SIZE = 0

Word == 0..(WordSpace - 1)
UXPTE_PER_PAGE == PAGE_SIZE \div UXPTE_SIZE

Plus(a, b) == (a + b) % WordSpace
Minus(a, b) == (a + WordSpace - b) % WordSpace
AddOverflows(a, b) == Plus(a, b) < a \/ Plus(a, b) < b

VirtPageNo(vaddr) == vaddr \div PAGE_SIZE
UxptePageNo(vaddr) == VirtPageNo(vaddr) \div UXPTE_PER_PAGE
UxpteOffset(vaddr) == VirtPageNo(vaddr) % UXPTE_PER_PAGE

GetUxPageSizeOfLength(dataAddr, dataSize) ==
  LET words == VirtPageNo(dataSize + PAGE_SIZE - 1)
      pages == (words + UXPTE_PER_PAGE - 1) \div UXPTE_PER_PAGE
  IN IF AddOverflows(dataAddr, dataSize) \/ dataSize < 1 THEN 0 ELSE pages * PAGE_SIZE
\* Bytes of table for a data range, 0 if the range wraps.
GetUxPageSize(dataAddr, dataSize) ==
  LET pageNoEnd == UxptePageNo(Minus(Plus(dataAddr, dataSize), 1))
      pageNoStart == UxptePageNo(dataAddr)
      pages == pageNoEnd - pageNoStart + 1
  IN IF \/ AddOverflows(dataAddr, dataSize) \/ Plus(dataAddr, dataSize) < 1
        \/ pageNoEnd < pageNoStart
        \/ pages > (WordSpace - 1) \div PAGE_SIZE
       THEN 0
       ELSE pages * PAGE_SIZE

RoundUpUnchecked(val, align) == (Plus(val, align - 1) \div align) * align
RoundUp(val, align) ==
  IF AddOverflows(val, align) THEN val ELSE ((val + align - 1) \div align) * align
RoundDown(val, align) == val - (val % align)

GetIndexInUxpteMut(startAddr, currAddr) == VirtPageNo(currAddr) - VirtPageNo(startAddr)
GetIndexInUxpte(startAddr, currAddr) ==
  UxpteOffset(startAddr) + Minus(VirtPageNo(currAddr), VirtPageNo(startAddr))

------------------------------------------------------------------------------
VARIABLES
  dataSizeInput,   \* the size the client asked for, 0: no object
  dataAddr, dataSize,      \* fields of the table
  mapOffset,       \* offset of the table's mapping in the process's whole table
  mapSize,         \* bytes mapped there, 0: upt->uxpte is NULL
  opAddr, opLen,   \* arguments of the last or the running UxpteOps
  off, end,        \* its loop
  res,             \* its result, "running" until it returns
  touched          \* words of the process's whole table it has touched

rangeVars == <<dataSizeInput, dataAddr, dataSize, mapOffset, mapSize>>
opVars == <<opAddr, opLen, off, end, res, touched>>
addrVars == <<rangeVars, opVars>>

AddrTypeOK ==
  /\ {dataSizeInput, dataAddr, dataSize, opAddr, opLen, off, end} \subseteq Word
  /\ mapSize \in 0..WordSpace /\ mapOffset \in 0..WordSpace
  /\ res \in {"none", "running", "PM_OK", "PM_UXPT_OUT_RANGE", "PM_UXPT_NO_PRESENT"}
  /\ touched \subseteq 0..WordSpace

AddrInit ==
  /\ dataSizeInput = 0 /\ dataAddr = 0 /\ dataSize = 0 /\ mapOffset = 0 /\ mapSize = 0
  /\ opAddr = 0 /\ opLen = 0 /\ off = 0 /\ end = 0 /\ res = "none" /\ touched = {}

\* UxpteOps up to its loop, on the table with the given fields.
StartOpsUnchecked(addr, len, dAddr, dSize) ==
  /\ opAddr' = addr /\ opLen' = len
  /\ off' = RoundDown(addr, PAGE_SIZE) /\ end' = RoundUp(Plus(addr, len), PAGE_SIZE)
  /\ touched' = {} /\ res' = "running"
StartOps(addr, len, dAddr, dSize) ==
  LET start == RoundDown(addr, PAGE_SIZE)
      stop == RoundUp(Plus(addr, len), PAGE_SIZE)
  IN /\ opAddr' = addr /\ opLen' = len
     /\ off' = start /\ end' = stop /\ touched' = {}
     /\ res' = IF start < dAddr \/ stop > Plus(dAddr, dSize)
                 THEN "PM_UXPT_OUT_RANGE" ELSE "running"

\* An object is created: its data is mapped (external: page aligned, above page
\* 0, inside the address space), then its table, and the words are cleared.
InitUxPageTableUnrounded(addr, input) ==
  /\ mapSize = 0 /\ input > 0
  /\ addr % PAGE_SIZE = 0 /\ addr > 0 /\ addr + input < WordSpace
  /\ dataSizeInput' = input /\ dataAddr' = addr /\ dataSize' = input
  /\ mapSize' = GetUxPageSize(addr, input)
  /\ mapOffset' = UxptePageNo(addr) * PAGE_SIZE
  /\ StartOps(addr, input, addr, input)
InitUxPageTable(addr, input) ==
  LET size == RoundUp(input, PAGE_SIZE)
      uptSize == GetUxPageSize(addr, size)
  IN /\ mapSize = 0 /\ input > 0
     /\ addr % PAGE_SIZE = 0 /\ addr > 0 /\ addr + size <= WordSpace
     /\ dataSizeInput' = input /\ dataAddr' = addr /\ dataSize' = size
     /\ mapSize' = uptSize                   \* mmap refuses size 0
     /\ mapOffset' = UxptePageNo(addr) * PAGE_SIZE
     /\ IF uptSize = 0 THEN UNCHANGED opVars ELSE StartOps(addr, size, addr, size)

\* The unmapping succeeds: the fields are cleared.
DeinitUxPageTable ==
  /\ mapSize > 0 /\ res = "none"
  /\ dataSizeInput' = 0 /\ dataAddr' = 0 /\ dataSize' = 0 /\ mapSize' = 0 /\ mapOffset' = 0
  /\ UNCHANGED opVars

\* UxpteGet, UxptePut, UxpteIsPresent for any range.
UxpteCall(addr, len) ==
  /\ mapSize > 0 /\ res = "none"
  /\ StartOps(addr, len, dataAddr, dataSize)
  /\ UNCHANGED rangeVars

\* A round of the loop; word i of the mapping is word mapOffset/UXPTE_SIZE + i of
\* the process's table (external).  A presence query may stop at a page.
OpsRound ==
  /\ res = "running" /\ off < end
  /\ touched' = touched \cup
       {mapOffset \div UXPTE_SIZE + GetIndexInUxpte(dataAddr, off)}
  /\ \/ off' = Plus(off, PAGE_SIZE) /\ UNCHANGED res
     \/ res' = "PM_UXPT_NO_PRESENT" /\ UNCHANGED off
  /\ UNCHANGED <<rangeVars, opAddr, opLen, end>>

OpsReturn ==
  /\ res = "running" /\ off >= end
  /\ res' = "PM_OK"
  /\ UNCHANGED <<rangeVars, opAddr, opLen, off, end, touched>>

\* The caller has the result; nothing else of the call remains.
CallerGoesOn ==
  /\ res \notin {"none", "running"}
  /\ opAddr' = 0 /\ opLen' = 0 /\ off' = 0 /\ end' = 0 /\ res' = "none" /\ touched' = {}
  /\ UNCHANGED rangeVars

AddrNext ==
  \/ \E addr, input \in Word : InitUxPageTable(addr, input)
  \/ \E addr, len \in Word : UxpteCall(addr, len)
  \/ OpsRound \/ OpsReturn \/ CallerGoesOn
  \/ DeinitUxPageTable

\* The loop is not left alone.
AddrSpec == AddrInit /\ [][AddrNext]_addrVars /\ WF_addrVars(OpsRound \/ OpsReturn)

------------------------------------------------------------------------------
(* Properties. *)

ObjectPages == {VirtPageNo(a) : a \in dataAddr..(dataAddr + dataSize - 1)}

\* Every word an operation touches lies in the mapping of the table and is the
\* word the kernel keeps for a page of this object, whatever range the operation
\* was called with: objects whose pages share a page of the table do not disturb
\* each other's counts.
TouchesOwnWords ==
  touched \subseteq
    ObjectPages \cap (mapOffset \div UXPTE_SIZE)..((mapOffset + mapSize) \div UXPTE_SIZE - 1)

\* An operation on a range of the object that returns PM_OK has touched the word
\* of every page with a byte of the range, and of no other page.
CoversRange ==
  res = "PM_OK" /\ opLen > 0 /\ opAddr + opLen < WordSpace =>
    touched = {VirtPageNo(a) : a \in opAddr..(opAddr + opLen - 1)}

\* The range every caller of the library passes, the data with the size the client
\* asked for, is never out of range, although the table was made with the rounded
\* size: UxpteGet ignores the result, and would silently pin nothing.
CallersInRange ==
  opAddr = dataAddr /\ opLen = dataSizeInput => res # "PM_UXPT_OUT_RANGE"

\* The loop over a range ends, at the upper end of the address space too.
OpsEnd == res = "running" ~> res # "running"

\* Why: a table belongs to whole pages below the last page of the address space
\* and has the words of all of them, so that the end of a range inside it is
\* rounded up, not kept as it is near the upper end; and the loop is at a page of
\* the range and has touched the pages before it.
RangeInv ==
  mapSize > 0 =>
    /\ dataAddr % PAGE_SIZE = 0 /\ dataSize % PAGE_SIZE = 0 /\ dataAddr + dataSize < WordSpace
    /\ 0 < dataSizeInput /\ dataSizeInput <= dataSize /\ dataSize < dataSizeInput + PAGE_SIZE
    /\ mapOffset = UxptePageNo(dataAddr) * PAGE_SIZE
    /\ mapSize = (UxptePageNo(dataAddr + dataSize - 1) - UxptePageNo(dataAddr) + 1) * PAGE_SIZE

Start == RoundDown(opAddr, PAGE_SIZE)
Stop == RoundUp(Plus(opAddr, opLen), PAGE_SIZE)

OpsInv ==
  /\ res = "none" => touched = {}
  /\ res # "none" => mapSize > 0 /\ end = Stop
  /\ res = "PM_UXPT_OUT_RANGE" => touched = {} /\ (Start < dataAddr \/ Stop > dataAddr + dataSize)
  /\ res \in {"running", "PM_OK", "PM_UXPT_NO_PRESENT"} =>
       /\ dataAddr <= Start /\ Stop <= dataAddr + dataSize
       /\ off % PAGE_SIZE = 0 /\ Start <= off /\ (off = Start \/ off <= end)
  /\ res \in {"running", "PM_OK"} => touched = VirtPageNo(Start)..(VirtPageNo(off) - 1)
  /\ res = "PM_UXPT_NO_PRESENT" => touched = VirtPageNo(Start)..VirtPageNo(off) /\ off < end
  /\ res = "PM_OK" => off >= end

\* The inductive invariant: a call of UxpteOps fits the table of the object, and
\* what it has touched fits the place of its loop.
AddrInv == AddrTypeOK /\ RangeInv /\ OpsInv
==============================================================================
