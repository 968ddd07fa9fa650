------------------------------- MODULE MemInfo -------------------------------
(***************************************************************************)
(* libmeminfo (meminfo.cpp): GetAppsTotalMemory as the sequence of queries *)
(* it is, while the processes of the list exit and the graphics service    *)
(* fails between the queries, and GetDmaInfo.  Each answer is chosen when  *)
(* it is asked for.  The readers of smaps_rollup are operators on the      *)
(* lines a read returned; a process that is gone has no lines.             *)
(***************************************************************************)
EXTENDS Integers, Sequences, FiniteSetsExt

CONSTANTS
  BYTE_PER_KB,
  MaxPids,        \* bound on the length of pidList
  SmapsFiles,     \* what reading smaps_rollup may return: sequences of lines
  DevRecords,     \* what GetDevMem may return: sequences of records
  DmaSums,        \* what the client library may return for a list
  MaxNodes,       \* bound on the DMA nodes of a process
  NoAnswer        \* no service, or GetDevMem # HDF_SUCCESS

ERROR_DMA_OPEN_SO == -1

ASSUME MemInfoAssumption ==
  BYTE_PER_KB \in Nat \ {0} /\ {MaxPids, MaxNodes} \subseteq Nat

\* smaps_rollup has a type in one line (external).
ASSUME AnswersAssumption ==
  /\ SmapsFiles \subseteq Seq([type : STRING, kB : Nat]) /\ <<>> \in SmapsFiles
  /\ \A lines \in SmapsFiles :
       \A i, j \in 1..Len(lines) : lines[i].type = lines[j].type => i = j
  /\ DevRecords \subseteq Seq([unmapped : BOOLEAN, size : Int])
  /\ DmaSums \subseteq Int /\ NoAnswer \notin DevRecords /\ NoAnswer \notin DmaSums

\* C division truncates towards zero.
CDiv(a, b) == IF a >= 0 THEN a \div b ELSE -((-a) \div b)

\* f[1] + ... + f[n]
Sum(f, n) == LET sum[k \in Nat] == IF k = 0 THEN 0 ELSE sum[k - 1] + f[k] IN sum[n]

VARIABLES
  pc, handles,          \* where the call is; dlopen minus dlclose
  arrays, nodes,        \* DMA arrays not freed; the size reported with one
  result,               \* of the last call
  pids, cur,            \* length of pidList, processes done
  dmaMem, pssAndSwapPssMem, gpuMem, gl,
  answered              \* history: dma, and for each process pss and gl

local == <<nodes, pids, cur, dmaMem, pssAndSwapPssMem, gpuMem, gl, answered>>
sums == <<dmaMem, pssAndSwapPssMem, gpuMem, gl>>
infoVars == <<pc, handles, arrays, result, local>>

InfoInit ==
  /\ pc = "idle" /\ handles = 0 /\ arrays = 0 /\ nodes = 0 /\ result = 0
  /\ pids = 0 /\ cur = 0 /\ dmaMem = 0 /\ pssAndSwapPssMem = 0 /\ gpuMem = 0
  /\ gl = 0 /\ answered = [dma |-> NoAnswer, pss |-> <<>>, gl |-> <<>>]

-----------------------------------------------------------------------------
(* The readers: the first line of the type, or all lines of both types.      *)
FirstOf(lines, type) ==
  LET at == {i \in 1..Len(lines) : lines[i].type = type}
  IN  IF at = {} THEN 0 ELSE lines[Min(at)].kB

GetPssByPid(lines) == FirstOf(lines, "Pss")
GetSwapPssByPid(lines) == FirstOf(lines, "SwapPss")

SumOf(lines, types) ==
  Sum([i \in 1..Len(lines) |-> IF lines[i].type \in types THEN lines[i].kB ELSE 0], Len(lines))
GetPssAndSwapPssByPid(lines) == SumOf(lines, {"Pss", "SwapPss"})

\* What GetGraphicsMemory takes from the records of one type: the first
\* unmapped one.
DevMemValue(records) ==
  LET at == {i \in 1..Len(records) : records[i].unmapped}
  IN  IF at = {} THEN 0 ELSE CDiv(records[Min(at)].size, BYTE_PER_KB)

-----------------------------------------------------------------------------
(* GetDmaInfo.                                                               *)
DmaInfoOpen ==
  /\ pc = "idle" /\ pc' = "info_sym" /\ handles' = handles + 1 /\ result' = 0
  /\ UNCHANGED <<arrays, local>>

DmaInfoSym ==
  /\ pc = "info_sym"
  /\ \/ pc' = "info_call" /\ UNCHANGED <<handles, result>>
     \/ pc' = "idle" /\ handles' = handles - 1 /\ result' = 0   \* dlsym fails
  /\ UNCHANGED <<arrays, local>>

DmaInfoCallMut ==
  /\ pc = "info_call"
  /\ \/ \E size \in 0..MaxNodes :
          nodes' = size /\ arrays' = arrays + 1 /\ pc' = "info_copy" /\ UNCHANGED <<handles, result>>
     \/ pc' = "idle" /\ result' = 0 /\ UNCHANGED <<nodes, arrays, handles>>
  /\ UNCHANGED <<pids, cur, sums, answered>>
DmaInfoCall ==
  /\ pc = "info_call"
  /\ \/ \E size \in 0..MaxNodes :
          nodes' = size /\ arrays' = arrays + 1 /\ pc' = "info_copy" /\ UNCHANGED <<handles, result>>
     \/ /\ pc' = "idle" /\ handles' = handles - 1 /\ result' = 0    \* no memory for the array
        /\ UNCHANGED <<nodes, arrays>>
  /\ UNCHANGED <<pids, cur, sums, answered>>

DmaInfoReturn ==
  /\ pc = "info_copy" /\ pc' = "idle"
  /\ result' = nodes /\ nodes' = 0 /\ arrays' = arrays - 1 /\ handles' = handles - 1
  /\ UNCHANGED <<pids, cur, sums, answered>>

-----------------------------------------------------------------------------
(* GetAppsTotalMemory.                                                       *)
GetAppsTotalMemory ==
  /\ pc = "idle" /\ pc' = "dma_open" /\ pids' \in 0..MaxPids /\ result' = 0
  /\ UNCHANGED <<handles, arrays, nodes, cur, sums, answered>>

\* GetDmaValueByPidList returned sum: the library's answer, or the error.
DmaPart(sum, answer) ==
  LET mem == CDiv(sum, BYTE_PER_KB) IN
  /\ dmaMem' = mem /\ answered' = [answered EXCEPT !.dma = answer]
  /\ IF mem = ERROR_DMA_OPEN_SO
       THEN pc' = "idle" /\ result' = ERROR_DMA_OPEN_SO
       ELSE pc' = "pss" /\ UNCHANGED result

GetDmaValueOpen ==
  /\ pc = "dma_open"
  /\ \/ DmaPart(ERROR_DMA_OPEN_SO, NoAnswer) /\ UNCHANGED handles
     \/ /\ handles' = handles + 1 /\ pc' = "dma_call"
        /\ UNCHANGED <<dmaMem, result, answered>>
  /\ UNCHANGED <<arrays, nodes, pids, cur, pssAndSwapPssMem, gpuMem, gl>>

GetDmaValueByPidList ==
  /\ pc = "dma_call" /\ handles' = handles - 1
  /\ \/ DmaPart(ERROR_DMA_OPEN_SO, NoAnswer)     \* dlsym fails
     \/ \E sum \in DmaSums : DmaPart(sum, sum)
  /\ UNCHANGED <<arrays, nodes, pids, cur, pssAndSwapPssMem, gpuMem, gl>>

ReadPss ==
  /\ pc = "pss" /\ cur < pids /\ pc' = "gl"
  /\ \E lines \in SmapsFiles :
       /\ pssAndSwapPssMem' = pssAndSwapPssMem + GetPssAndSwapPssByPid(lines)
       /\ answered' = [answered EXCEPT !.pss = Append(@, lines)]
  /\ UNCHANGED <<handles, arrays, result, nodes, pids, cur, dmaMem, gpuMem, gl>>

\* GetGraphicsMemory and the addition after it, whose gl is the one of an
\* earlier process when the query for GL has no answer.  The caller looks neither
\* at graph nor at what GetGraphicsMemory returns; both are left out.
GetGraphicsMemoryMut ==
  /\ pc = "gl" /\ pc' = "pss" /\ cur' = cur + 1
  /\ \E records \in DevRecords \cup {NoAnswer} :
       /\ gl' = IF records = NoAnswer THEN gl ELSE gl + DevMemValue(records)
       /\ answered' = [answered EXCEPT !.gl = Append(@, records)]
  /\ gpuMem' = gpuMem + gl'
  /\ UNCHANGED <<handles, arrays, result, nodes, pids, dmaMem, pssAndSwapPssMem>>
GetGraphicsMemory ==
  /\ pc = "gl" /\ pc' = "pss" /\ cur' = cur + 1
  /\ \E records \in DevRecords \cup {NoAnswer} :
       /\ gl' = IF records = NoAnswer THEN gl ELSE DevMemValue(records)
       /\ answered' = [answered EXCEPT !.gl = Append(@, records)]
  /\ gpuMem' = gpuMem + gl'
  /\ UNCHANGED <<handles, arrays, result, nodes, pids, dmaMem, pssAndSwapPssMem>>

\* The locals, and the history of the call, go out of scope.
TotalReturn ==
  /\ pc = "pss" /\ cur = pids /\ pc' = "idle"
  /\ result' = dmaMem + pssAndSwapPssMem + gpuMem
  /\ pids' = 0 /\ cur' = 0 /\ dmaMem' = 0 /\ pssAndSwapPssMem' = 0 /\ gpuMem' = 0
  /\ gl' = 0 /\ answered' = [dma |-> NoAnswer, pss |-> <<>>, gl |-> <<>>]
  /\ UNCHANGED <<handles, arrays, nodes>>

InfoNext ==
  \/ DmaInfoOpen \/ DmaInfoSym \/ DmaInfoCall \/ DmaInfoReturn
  \/ GetAppsTotalMemory \/ GetDmaValueOpen \/ GetDmaValueByPidList
  \/ ReadPss \/ GetGraphicsMemory \/ TotalReturn

InfoSpec == InfoInit /\ [][InfoNext]_infoVars
-----------------------------------------------------------------------------
DmaOf(answer) == IF answer = NoAnswer THEN 0 ELSE CDiv(answer, BYTE_PER_KB)
PssOf(lines) == GetPssByPid(lines) + GetSwapPssByPid(lines)
GLof(answers, n) ==
  LET known == {m \in 1..n : answers[m] # NoAnswer}
  IN  IF known = {} THEN 0 ELSE DevMemValue(answers[Max(known)])

(* The total memory usage of the processes of the list: their DMA, and of    *)
(* each process the Pss, the SwapPss and the GL, its own.                    *)
TotalMemory ==
  DmaOf(answered.dma) +
  Sum([n \in 1..pids |-> PssOf(answered.pss[n]) +
         (IF answered.gl[n] = NoAnswer THEN 0 ELSE DevMemValue(answered.gl[n]))], pids)

AllAnswered == answered.dma # NoAnswer /\ \A n \in 1..pids : answered.gl[n] # NoAnswer

(* When the client library and the graphics service have answered every      *)
(* query GetAppsTotalMemory returns the documented total, with nothing of a  *)
(* process that has exited since and nothing left over from another one.     *)
TotalWhenAnswered ==
  [][pc = "pss" /\ pc' = "idle" /\ AllAnswered => result' = TotalMemory]_infoVars

(* What meminfo.h says of GetAppsTotalMemory, "get the total memory usage of *)
(* app, include DMA, GL, Pss and SwapPss", for every call; without a DMA     *)
(* answer the function means to return ERROR_DMA_OPEN_SO.                    *)
DocumentedTotal ==
  [][pc = "pss" /\ pc' = "idle" =>
       result' = IF answered.dma = NoAnswer THEN ERROR_DMA_OPEN_SO ELSE TotalMemory]_infoVars

(* GetDmaInfo and GetDmaValueByPidList close the client library and free the *)
(* array on every return path.                                               *)
ClientReleased == pc = "idle" => handles = 0 /\ arrays = 0

(* Why: at every point of a call the library is open once where the code     *)
(* holds its handle, and there is an array where it has one to copy; and the *)
(* loop has asked for the Pss and the GL of the processes it is done with.   *)
History == [dma : DmaSums \cup {NoAnswer}, pss : Seq(SmapsFiles), gl : Seq(DevRecords \cup {NoAnswer})]

(* The locals are the sums of what has been answered so far.                 *)
SumsInv ==
  /\ pc \in {"pss", "gl"} => dmaMem = DmaOf(answered.dma)
  /\ pssAndSwapPssMem =
       Sum([n \in 1..Len(answered.pss) |-> PssOf(answered.pss[n])], Len(answered.pss))
  /\ gl = GLof(answered.gl, cur)
  /\ gpuMem = Sum([n \in 1..cur |-> GLof(answered.gl, n)], cur)

(* The inductive invariant of GetDmaInfo and GetAppsTotalMemory.             *)
InfoInv ==
  /\ pc \in {"idle", "info_sym", "info_call", "info_copy", "dma_open", "dma_call", "pss", "gl"}
  /\ handles = IF pc \in {"info_sym", "info_call", "info_copy", "dma_call"} THEN 1 ELSE 0
  /\ arrays = IF pc = "info_copy" THEN 1 ELSE 0
  /\ {nodes, pids, cur} \subseteq Nat /\ answered \in History
  /\ pc # "info_copy" => nodes = 0
  /\ pc \notin {"pss", "gl"} => cur = 0
  /\ pc = "pss" => cur <= pids
  /\ pc = "gl" => cur < pids
  /\ Len(answered.gl) = cur
  /\ Len(answered.pss) = IF pc = "gl" THEN cur + 1 ELSE cur
  /\ SumsInv
==============================================================================
