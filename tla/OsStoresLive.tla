---------------------------- MODULE OsStoresLive ----------------------------
(***************************************************************************)
(* Liveness of OsStore.  Fairness is of the scheduler alone: a call that   *)
(* can take its next step does so eventually.  lockBlob polls, so a free   *)
(* lock promises nothing to a particular waiter; calls end because the     *)
(* clients make finitely many.                                             *)
(***************************************************************************)
EXTENDS OsStores

CONSTANT MaxCalls    \* bound on the number of calls the clients make

ASSUME MaxCallsAssumption == MaxCalls \in Nat

VARIABLE left        \* calls the clients will still make

Fairness == \A p \in Procs : WF_vars(Step(p))

InitL == Init /\ left = MaxCalls

NextL ==
    \E p \in Procs :
      \/ left > 0 /\ left' = left - 1 /\ Invoke(p)
      \/ UNCHANGED left /\ (Step(p) \/ Cancel(p) \/ IoError(p) \/ Crash(p))

SpecL == InitL /\ [][NextL]_<<vars, left>> /\ Fairness

\* Every call returns: waiting for the blob lock, the retries of
\* moveStageToRepo and the loops of os.RemoveAll all come to an end, also when
\* the holder of the lock fails, crashes or is cancelled.
EveryCallReturns == \A p \in Procs : pc[p] # "idle" ~> pc[p] = "idle"
=============================================================================
