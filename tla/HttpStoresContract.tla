------------------------- MODULE HttpStoresContract -------------------------
(***************************************************************************)
(* HttpStore implements the contract of store.go, of a remote store, when  *)
(* the store behind the handler implements it.  The history variables are  *)
(* `seen', what was the case for the key of a call since it began, and     *)
(* `made', the clients whose Add has taken effect; nothing of HttpStores   *)
(* depends on them.                                                        *)
(***************************************************************************)
EXTENDS HttpStores

VARIABLES seen, made

InitH == Init /\ seen = [p \in Procs |-> {}] /\ made = {}

NextH ==
    /\ Next
    /\ seen' = [p \in Procs |->
                  IF pc'[p] = "idle" THEN {}
                  ELSE seen[p] \cup
                         {IF Target(call'[p]) \in has' THEN "present" ELSE "absent"}]
    /\ made' = {p \in Procs : pc'[p] # "idle" /\ (p \in made \/ via[p] \in did')}

SpecH == InitH /\ [][NextH]_<<vars, seen, made>>

\* The keys that may change after their call was answered with an error: by the store
\* behind the handlers, and by requests that no client waits for.
Loose ==
    loose \cup {Target(req[h]) : h \in {g \in Orphans : /\ req[g].op \in {"add", "erase", "label"}
                                                       /\ outcome[g] = None}}

\* The calls that end with an error, whether the client reads the code 500 or not.
Lost(p) == via[p] # None /\ at[via[p]] = "serve" /\ outcome[via[p]] = "error"

\* What the contract calls ans: the answers given, and the errors on their way.
Answers == [p \in Procs |-> CASE pc[p] = "done" -> ret[p]
                              [] pc[p] # "done" /\ Lost(p) -> "error"
                              [] OTHER -> None]

\* A malformed digest is refused with 400, which is no outcome of its own.
Refused(op) == "error"

Contract == INSTANCE StoreContract WITH
    Remote <- TRUE,
    Refuse <- Refused,
    pend <- call,
    did  <- made,
    ans  <- Answers,
    loose <- Loose

\* Every call to an HttpStore is answered as store.go says, up to errors: each
\* outcome survives its way through the status codes, so an Add that reports success
\* made the blob appear, and every ErrAlreadyExists, ErrNotExist, read, label or
\* erasure reported was true at some moment of the call, also when it came through a
\* redirect; and a call whose connection broke changes its own key at most, and only
\* as long as its handler runs.
KeepsContract == Contract!Spec
=============================================================================
