---------------------------- MODULE CommandsSays ----------------------------
(***************************************************************************)
(* What the repository says of the layers and the code does not do: a      *)
(* history collects the statements that some state of the behaviour has    *)
(* contradicted.  Nothing of Commands depends on it.                       *)
(***************************************************************************)
EXTENDS CommandsContract

VARIABLES
    misled,  \* the callers that gave PrepareDigest a digest of other content
    denied   \* the statements denied so far

\* exit.go: a command that exits with 4 was answered; no store failed on the way.
NotExistIsAnswered ==
    \A p \in Procs : pc[p] = "done" /\ layer[p] = "cli" /\ ret[p] = "notexist" => p \notin broke

\* StoreConfigFallback: a fallback whose secondary is not set looks into the primary's
\* data under SecondaryId before it answers ErrNotExist.
SecondaryIsRead ==
    \A p \in Procs :
      /\ pc[p] = "done" /\ ret[p] = "notexist" /\ secondary # "none"
      /\ call[p].op \in {"get", "open"} /\ call[p].wellformed
      => "absent" \in seen2[p]

\* store.go: no Add, and so none through PrepareDigest, succeeds when the digest it was
\* given does not match the content.
MismatchIsTold == \A p \in misled : pc[p] = "done" => ret[p] # "ok"

\* otel.go: flob.store.operation.inflight counts the operations that the stores are
\* working on.
InflightCounts ==
    inflight >= Cardinality({p \in Procs : layer[p] = "meter" /\ inner[p] # None})

Says == [exit |-> NotExistIsAnswered, fallback |-> SecondaryIsRead,
         digest |-> MismatchIsTold, inflight |-> InflightCounts]

Denied == {s \in DOMAIN Says : ~Says[s]}

InitS == InitH /\ misled = {} /\ denied = {}

NextS ==
    /\ NextH
    /\ misled' = {p \in Procs :
                    /\ call'[p] # None
                    /\ \/ p \in misled
                       \/ pc[p] = "prepare" /\ call[p].wellformed /\ call[p].given # call[p].d}
    /\ denied' = denied \cup Denied'

SpecS == InitS /\ [][NextS]_<<vars, history, misled, denied>> /\ Fairness

\* Of the four statements above at least one holds throughout whatever a client does:
\* the behaviour that refutes this refutes each of them.
SaysTrue == denied # DOMAIN Says
=============================================================================
