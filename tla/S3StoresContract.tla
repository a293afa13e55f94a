-------------------------- MODULE S3StoresContract --------------------------
(***************************************************************************)
(* S3Store implements the contract of store.go as far as a store without   *)
(* locks can.  The history variable `seen' records what was the case for   *)
(* the key of a call since it began; nothing of S3Stores depends on it.    *)
(***************************************************************************)
EXTENDS S3Stores

VARIABLE seen

InitH == Init /\ seen = [p \in Procs |-> {}]

NextH ==
    /\ Next
    /\ seen' = [p \in Procs |->
                  IF pc'[p] = "idle" THEN {}
                  ELSE seen[p] \cup
                         {IF Target(call'[p]) \in refs' THEN "present" ELSE "absent"}]

SpecH == InitH /\ [][NextH]_<<vars, seen>>

\* What the contract calls did, ans and loose: the callers whose Add has put its
\* marker, the answers given, and the keys that a late write may still change.
Did == {p \in Procs : call[p] # None /\ call[p].op = "add" /\ ret[p] = "ok"}

Answers == [p \in Procs |-> IF pc[p] = "done" THEN ret[p] ELSE None]

Loose == {w[2] : w \in late}

Contract == INSTANCE StoreContract WITH
    Exclusive <- FALSE,
    Remote <- TRUE,
    Refuse <- Refusal,
    has  <- refs,
    pend <- call,
    did  <- Did,
    ans  <- Answers,
    loose <- Loose

\* Every call to an S3Store is answered as store.go says, up to the races of its
\* writers and to writes that arrive after their call has failed: an entry appears
\* by an Add of right content or a Label that has seen it, vanishes by an Erase,
\* and each ErrAlreadyExists, ErrNotExist, label, read or erasure reported was true
\* at some moment of the call, although existence is read and acted upon in
\* separate requests.
KeepsContract == Contract!Spec
=============================================================================
