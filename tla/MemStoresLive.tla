--------------------------- MODULE MemStoresLive ---------------------------
(***************************************************************************)
(* Liveness of MemStore.  Fairness is of the Go scheduler alone: a call    *)
(* that can take its next step does so eventually.  Nothing orders the     *)
(* callers that wait for a mutex, and an Add that retries may lose again,  *)
(* so calls end because the clients make finitely many.                    *)
(***************************************************************************)
EXTENDS MemStores

CONSTANT MaxCalls    \* bound on the number of calls the clients make

ASSUME MaxCallsAssumption == MaxCalls \in Nat

VARIABLE left        \* calls the clients will still make

Fairness == \A p \in Procs : WF_vars(Step(p))

InitL == Init /\ left = MaxCalls

NextL ==
    \E p \in Procs :
      \/ left > 0 /\ left' = left - 1 /\ Invoke(p)
      \/ UNCHANGED left /\ Step(p)

SpecL == InitL /\ [][NextL]_<<vars, left>> /\ Fairness

\* Every call returns: the retry loop of Add ends once the deletion it ran into
\* is complete, and no mutex stays locked.
EveryCallReturns == \A p \in Procs : pc[p] # "idle" ~> pc[p] = "idle"
=============================================================================
