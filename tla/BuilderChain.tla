----------------------------- MODULE BuilderChain -----------------------------
(***************************************************************************)
(* The chain of builders as the linked list it is in                       *)
(* purgeable_mem_builder_c.c (purgeable_mem_builder.cpp has the same list  *)
(* with owning pointers): creation, appending of a function or of a whole  *)
(* chain, building and destruction, one step per node visited.  PurgMem    *)
(* and PurgeableMem keep only the number of builders; here is why that is  *)
(* enough.                                                                 *)
(*                                                                         *)
(* Clients pass heads of different chains to AppendBuilder and do not use  *)
(* a chain they have handed over: unique_ptr enforces it in C++, in C a    *)
(* chain appended to itself would be a cycle.                              *)
(***************************************************************************)
EXTENDS Naturals, Sequences, Functions

CONSTANTS Node, NULL
ASSUME NodeAssumption == NULL \notin Node

VARIABLES
  nextBuilder,   \* of every allocated node
  heads,         \* the chains the clients have
  log,           \* history: for each chain, the builders appended, in order
  op,            \* the running call: "idle", "append", "build", "destroy"
  top,           \* its builder argument
  curr,          \* the node the call is at
  newcomer,      \* append: what is linked at the tail
  ran,           \* build: the builders that succeeded so far
  ok             \* build: what the last one returned

heapVars == <<nextBuilder, heads, log>>
callVars == <<op, top, curr, newcomer, ran, ok>>
chainVars == <<heapVars, callVars>>

Allocated == DOMAIN nextBuilder

ChainInit ==
  /\ nextBuilder = <<>> /\ heads = {} /\ log = <<>>
  /\ op = "idle" /\ top = NULL /\ curr = NULL /\ newcomer = NULL
  /\ ran = <<>> /\ ok = FALSE

Call(o, h, new) ==
  /\ op' = o /\ top' = h /\ curr' = h /\ newcomer' = new
  /\ ran' = <<>> /\ ok' = FALSE
Return == op' = "idle" /\ top' = NULL /\ curr' = NULL /\ newcomer' = NULL

\* f with x mapped to v, f without x.
With(f, x, v) == [y \in DOMAIN f \cup {x} |-> IF y = x THEN v ELSE f[y]]
Without(f, x) == [y \in DOMAIN f \ {x} |-> f[y]]

\* malloc gives any free node; when it fails nothing changes.
Malloc(n) == n \notin Allocated /\ nextBuilder' = With(nextBuilder, n, NULL)

PurgMemBuilderCreate ==
  /\ op = "idle"
  /\ \E n \in Node : Malloc(n) /\ heads' = heads \cup {n} /\ log' = With(log, n, <<n>>)
  /\ UNCHANGED callVars

PurgMemBuilderAppendFunc(h) ==
  /\ op = "idle"
  /\ \E n \in Node :
       /\ Malloc(n) /\ Call("append", h, n)
       /\ log' = [log EXCEPT ![h] = Append(@, n)]
  /\ UNCHANGED heads

PurgMemBuilderAppendBuilder(h, new) ==
  /\ op = "idle" /\ h # new
  /\ Call("append", h, new)
  /\ heads' = heads \ {new}
  /\ log' = Without([log EXCEPT ![h] = @ \o log[new]], new)
  /\ UNCHANGED nextBuilder

\* AppendBuilder: to the tail, and link there.
AppendBuilderMut ==
  /\ op = "append"
  /\ nextBuilder' = [nextBuilder EXCEPT ![curr] = newcomer]
  /\ Return /\ UNCHANGED <<heads, log, ran, ok>>
AppendBuilderStuck ==
  /\ op = "append"
  /\ nextBuilder[curr] = NULL
  /\ nextBuilder' = [nextBuilder EXCEPT ![curr] = newcomer] /\ Return
  /\ UNCHANGED <<heads, log, ran, ok>>
AppendBuilder ==
  /\ op = "append"
  /\ IF nextBuilder[curr] = NULL
       THEN nextBuilder' = [nextBuilder EXCEPT ![curr] = newcomer] /\ Return
       ELSE curr' = nextBuilder[curr] /\ UNCHANGED <<nextBuilder, op, top, newcomer>>
  /\ UNCHANGED <<heads, log, ran, ok>>

PurgMemBuilderBuildAll(h) == op = "idle" /\ Call("build", h, NULL) /\ UNCHANGED heapVars

\* A builder succeeds, and the next one runs if there is one; or it returns
\* false, which ends the recursion.
BuildNodeMut ==
  /\ op = "build" /\ ok' = (nextBuilder[curr] = NULL)
  /\ IF nextBuilder[curr] = NULL
       THEN Return /\ UNCHANGED ran
       ELSE /\ curr' = nextBuilder[curr] /\ ran' = Append(ran, curr)
            /\ UNCHANGED <<op, top, newcomer>>
  /\ UNCHANGED heapVars
BuildNode ==
  /\ op = "build" /\ ran' = Append(ran, curr) /\ ok' = (nextBuilder[curr] = NULL)
  /\ IF nextBuilder[curr] = NULL
       THEN Return
       ELSE curr' = nextBuilder[curr] /\ UNCHANGED <<op, top, newcomer>>
  /\ UNCHANGED heapVars

BuildNodeFails == op = "build" /\ Return /\ UNCHANGED <<heapVars, ran, ok>>

PurgMemBuilderDestroy(h) ==
  /\ op = "idle" /\ Call("destroy", h, NULL)
  /\ heads' = heads \ {h} /\ UNCHANGED <<log, nextBuilder>>

\* The loop of PurgMemBuilderDestroy: next is read before the node is freed.
FreeNodeMut ==
  /\ op = "destroy"
  /\ nextBuilder' = Without(nextBuilder, curr)
  /\ Return /\ log' = Without(log, top) /\ UNCHANGED <<heads, ran, ok>>
FreeNode ==
  /\ op = "destroy"
  /\ nextBuilder' = Without(nextBuilder, curr)
  /\ IF nextBuilder[curr] = NULL
       THEN Return /\ log' = Without(log, top)
       ELSE curr' = nextBuilder[curr] /\ UNCHANGED <<op, top, newcomer, log>>
  /\ UNCHANGED <<heads, ran, ok>>

Walk == AppendBuilder \/ BuildNode \/ BuildNodeFails \/ FreeNode

ChainNext ==
  \/ PurgMemBuilderCreate
  \/ \E h \in heads :
       \/ PurgMemBuilderAppendFunc(h)
       \/ \E new \in heads : PurgMemBuilderAppendBuilder(h, new)
       \/ PurgMemBuilderBuildAll(h)
       \/ PurgMemBuilderDestroy(h)
  \/ Walk

(* The calling thread runs its walk to the end. *)
ChainSpec == ChainInit /\ [][ChainNext]_chainVars /\ WF_chainVars(Walk)

-----------------------------------------------------------------------------
(* AppendBuilder keeps the order: between calls, following nextBuilder from  *)
(* a head visits exactly the builders appended to it, in the order of the    *)
(* calls, a chain appended whole included.                                   *)
ChainIsLog ==
  \A h \in heads \ {top} :
    LET s == log[h] IN
    /\ s[1] = h /\ nextBuilder[s[Len(s)]] = NULL
    /\ \A i \in 1..Len(s) - 1 : nextBuilder[s[i]] = s[i + 1]

(* Every allocated builder is in one chain of one client, once, and a chain  *)
(* has no freed one: PurgMemBuilderDestroy frees all of its chain and        *)
(* nothing that another chain needs.                                         *)
OwnedOnce ==
  LET owned == UNION {Range(log[h]) : h \in heads} IN
  /\ \A h \in heads : IsInjective(log[h])
  /\ \A h, k \in heads : h # k => Range(log[h]) \cap Range(log[k]) = {}
  /\ owned \subseteq Allocated
  /\ op = "idle" => owned = Allocated

(* PurgMemBuilderBuildAll returns true exactly when every builder of the     *)
(* chain has run once, in order of appending; when one fails those after it  *)
(* have not run.                                                             *)
BuildsInOrder ==
  [][/\ op = "build" => Len(ran') <= Len(log[top]) /\ ran' = SubSeq(log[top], 1, Len(ran'))
     /\ op = "build" /\ op' = "idle" => (ok' <=> ran' = log[top])]_chainVars

(* The recursions of AppendBuilder and PurgMemBuilderBuildAll and the loop   *)
(* of PurgMemBuilderDestroy end: appending never makes a cycle.              *)
WalksEnd == (op # "idle") ~> (op = "idle")

(* Why: every node has one place in one log, and its nextBuilder is the next *)
(* one of that log, except where a call is at work.  An append has yet to    *)
(* link the newcomer, behind the node it is at; a build is as far as the     *)
(* builders that ran; a destruction has freed what is before its node.       *)
Chains == heads \cup (IF op = "destroy" THEN {top} ELSE {})
Succ(s, i) == IF i < Len(s) THEN s[i + 1] ELSE NULL
Freed(h, i) == op = "destroy" /\ h = top /\ \A j \in 1..i : log[h][j] # curr
Unlinked(h, i) == op = "append" /\ h = top /\ Succ(log[h], i) = newcomer

ChainTypeOK ==
  /\ op \in {"idle", "append", "build", "destroy"} /\ heads \in SUBSET Node
  /\ log \in [Chains -> Seq(Node)]
  /\ op = "idle" => top = NULL
  /\ op \in {"append", "build"} => top \in heads
  /\ op = "destroy" => top \in Node \ heads

PlacesInv ==
  /\ \A h \in Chains : 0 < Len(log[h]) /\ log[h][1] = h
  /\ \A h, k \in Chains : \A i \in 1..Len(log[h]), j \in 1..Len(log[k]) :
       log[h][i] = log[k][j] => h = k /\ i = j

LinksInv ==
  /\ \A n \in Allocated : \E h \in Chains : \E i \in 1..Len(log[h]) : log[h][i] = n /\ ~Freed(h, i)
  /\ \A h \in Chains : \A i \in 1..Len(log[h]) :
       Freed(h, i) \/
         /\ log[h][i] \in Allocated
         /\ nextBuilder[log[h][i]] = IF Unlinked(h, i) THEN NULL ELSE Succ(log[h], i)

CallInv ==
  /\ op = "append" =>
       newcomer \in Node /\ \E i, j \in 1..Len(log[top]) : i < j /\ log[top][i] = curr /\ log[top][j] = newcomer
  /\ op = "build" =>
       /\ ran \in Seq(Node) /\ Len(ran) < Len(log[top]) /\ curr = log[top][Len(ran) + 1]
       /\ \A i \in 1..Len(ran) : ran[i] = log[top][i]
  /\ op = "destroy" => \E i \in 1..Len(log[top]) : log[top][i] = curr

(* The inductive invariant: nextBuilder, the log and the running call agree.  *)
ChainInv == ChainTypeOK /\ PlacesInv /\ LinksInv /\ CallInv /\ (op = "build" => ~ok)
==============================================================================
