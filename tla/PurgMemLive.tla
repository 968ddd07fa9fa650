----------------------------- MODULE PurgMemLive -----------------------------
(***************************************************************************)
(* Progress of the calls on a purgeable object.  The clients make at most  *)
(* MaxCalls Begin calls in all, so that a lock nobody hands out fairly     *)
(* cannot starve a thread for ever; what remains is whether the calls      *)
(* themselves come to an end.                                              *)
(***************************************************************************)
EXTENDS PurgMem

CONSTANT MaxCalls
ASSUME MaxCallsAssumption == MaxCalls \in Nat

VARIABLE calls     \* Begin calls the clients may still make

liveVars == <<vars, calls>>

LiveInit == Init /\ calls = MaxCalls

LiveNext ==
  \/ /\ UserMayRun /\ calls > 0
     /\ \E t \in Threads : BeginAccess(t)
     /\ calls' = calls - 1
  \/ /\ UserMayRun
     /\ \E t \in Threads : Continue(t) \/ PurgMemAppendModify(t)
     /\ UNCHANGED calls
  \/ /\ \E p \in Page : KernelReclaim(p)
     /\ UNCHANGED calls

\* A thread inside a call is scheduled again and a client ends its access; the
\* kernel finishes a reclaim it has begun.
LiveFairness ==
  /\ \A t \in Threads : WF_liveVars(UserMayRun /\ Continue(t) /\ UNCHANGED calls)
  /\ \A p \in Page : WF_liveVars(p \in reclaiming /\ KernelReclaim(p) /\ UNCHANGED calls)

LiveSpec == LiveInit /\ [][LiveNext]_liveVars /\ LiveFairness

\* Every BeginRead, BeginWrite, EndRead and EndWrite returns: neither the
\* compare-and-swap loops nor BeginRead's loop of try and rebuild runs for ever,
\* and no lock is left held that another call waits for.
CallsReturn ==
  \A t \in Threads : pc[t] # "idle" ~> pc[t] = "idle"
==============================================================================
