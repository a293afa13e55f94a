-------------------------- MODULE OsStoresContract --------------------------
(***************************************************************************)
(* OsStore implements the contract of store.go.  The history variable      *)
(* `seen' records what was the case for the key of a call since it began;  *)
(* nothing of OsStores depends on it.                                      *)
(***************************************************************************)
EXTENDS OsStores

VARIABLE seen

\* The keys that exist, as checkDup, open and Label decide it.
Present == {k \in Keys : Visible(k)}

InitH == Init /\ seen = [p \in Procs |-> {}]

NextH ==
    /\ Next
    /\ seen' = [p \in Procs |->
                  IF pc'[p] = "idle" THEN {}
                  ELSE seen[p] \cup
                         {IF Target(call'[p]) \in Present' THEN "present" ELSE "absent"}]

SpecH == InitH /\ [][NextH]_<<vars, seen>>

\* What the contract calls did and ans: the callers whose Add has made its entry,
\* and the answers given.
Did == {p \in Procs : call[p] # None /\ call[p].op = "add" /\ ret[p] = "ok"}

Answers == [p \in Procs |-> IF pc[p] = "done" THEN ret[p] ELSE None]

Contract == INSTANCE StoreContract WITH
    Exclusive <- TRUE,
    Remote <- FALSE,
    Refuse <- Refusal,
    has  <- Present,
    pend <- call,
    did  <- Did,
    ans  <- Answers,
    loose <- {}

\* Every call to an OsStore is answered as store.go says, in every interleaving
\* of calls that hold no lock while they look: an Add that reports success made
\* the blob appear itself, and each ErrAlreadyExists, ErrNotExist, label, read
\* or erasure reported was true of the store at some moment of the call.
KeepsContract == Contract!Spec
=============================================================================
