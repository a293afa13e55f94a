------------------------- MODULE MemStoresContract -------------------------
(***************************************************************************)
(* MemStore implements the contract of store.go, the one that OsStore      *)
(* implements.  The history variable `seen' records what was the case for  *)
(* the key of a call since it began; nothing of MemStores depends on it.   *)
(***************************************************************************)
EXTENDS MemStores

VARIABLE seen

\* The keys that exist: those with an entry.
Present == {k \in Keys : es[k] # None}

InitH == Init /\ seen = [p \in Procs |-> {}]

NextH ==
    /\ Next
    /\ seen' = [p \in Procs |->
                  IF pc'[p] = "idle" THEN {}
                  ELSE seen[p] \cup
                         {IF Target(call'[p]) \in Present' THEN "present" ELSE "absent"}]

SpecH == InitH /\ [][NextH]_<<vars, seen>>

\* What the contract calls did and ans: the callers whose Add has made its entry,
\* and the answers given.
Did == {p \in Procs : call[p] # None /\ call[p].op = "add" /\ ret[p] = "ok"}

Answers == [p \in Procs |-> IF pc[p] = "done" THEN ret[p] ELSE None]

Contract == INSTANCE StoreContract WITH
    Exclusive <- TRUE,
    Remote <- FALSE,
    Refuse <- Refusal,
    has  <- Present,
    pend <- call,
    did  <- Did,
    ans  <- Answers,
    loose <- {}

\* Every call to a MemStore is answered as store.go says, whatever other calls
\* do between its operations on the maps: an Add that reports success made the
\* blob appear itself, and each ErrAlreadyExists, ErrNotExist, label, read or
\* erasure reported was true of the store at some moment of the call.
KeepsContract == Contract!Spec
=============================================================================
