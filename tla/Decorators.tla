----------------------------- MODULE Decorators -----------------------------
(***************************************************************************)
(* The stores that wrap another store (util.go), the wrappers of the flob  *)
(* programs (cmd/configs/otel.go) and what the configuration puts under    *)
(* them (cmd/configs/store.go).                                            *)
(*                                                                         *)
(* A call goes through one layer to a configured store: a backend, or a    *)
(* FallbackStore over backends.  The backends are taken at the weakest     *)
(* contract of StoreContract, that of a remote store with unserialised     *)
(* writers, and their keys may change at any moment, by other clients or   *)
(* by late writes.                                                         *)
(***************************************************************************)
EXTENDS Store

CONSTANTS
    StoreId,       \* the store id that the callers use
    SecondaryId,   \* the store id that a fallback reads from
    Foreign        \* a digest of another algorithm than Canonical

ASSUME StoreIdsAssumption == {StoreId, SecondaryId} \subseteq Stores

ASSUME ForeignAssumption == Foreign \in Digests

\* Stores name contents by Canonical digests alone.
Contents == Digests \ {Foreign}

VARIABLES
    pc,         \* pc[p]: where p is in its call
    call,       \* call[p]: the arguments of the call of p, or None
    layer,      \* layer[p]: the layer that p called, or None
    ret,        \* ret[p]: the outcome of the call of p, None while it is open
    inflight,   \* the counter flob.store.operation.inflight
    secondary,  \* the configured fallback: "none", on the "same" data, or a "fresh" one
    has,        \* the backends: see StoreContract, where
    inner,      \*   inner[p] is the call that p has made of a backend (pend),
    known,      \*   known[p] what was the case since then (seen),
    did,        \*   did the callers whose Add took effect,
    outcome,    \*   outcome[p] what the backend answers p (ans),
    loose       \*   loose the keys that may change at any moment

client == <<pc, call, layer, ret>>
store  == <<has, inner, known, did, outcome, loose>>

Backend == INSTANCE StoreContract WITH
    Exclusive <- FALSE,
    Remote <- TRUE,
    Refuse <- Refusal,
    pend <- inner,
    seen <- known,
    ans <- outcome

\* Where a call can be: idle; in what a layer does before it calls the store; in the
\* Get of CheckExistence or in the call itself, of the primary and of the secondary
\* store; in what the command does with the blob; done.
PCs == {"idle", "resolve", "measure", "measured", "prepare", "check", "checking",
        "check2", "checking2", "call", "calling", "call2", "calling2", "copy", "done"}

\* Traces pass everything on: a call through them is "plain".
Layers == {"plain", "cli", "meter", "allow", "check", "prepare"}

\* The layers that do something to a call of this operation.
Fits(l, op) ==
    /\ l \in {"allow", "check", "prepare"} => op = "add"
    /\ l = "cli" => op \in {"get", "open", "erase"}

(***************************************************************************)
(* StoresConfig.build makes the secondary store from its name.  When the   *)
(* config names none it is built from the primary's name, once more: a     *)
(* second MemStores, not the data of the first, when the kind is mem.      *)
(* The stores that no call here reaches are left out.                      *)
(***************************************************************************)
InitStores ==
    /\ pc = [p \in Procs |-> "idle"]
    /\ call = [p \in Procs |-> None]
    /\ layer = [p \in Procs |-> None]
    /\ ret = [p \in Procs |-> None]
    /\ inflight = 0
    /\ secondary \in {"none", "same", "fresh"}
    /\ inner = [p \in Procs |-> None]
    /\ known = [p \in Procs |-> {}]
    /\ did = {}
    /\ outcome = [p \in Procs |-> None]
    /\ loose = {StoreId, IF secondary = "none" THEN StoreId ELSE SecondaryId} \X Contents
    /\ has \in SUBSET loose

Goto(p, l) == pc' = [pc EXCEPT ![p] = l]

Answer(p, r) ==
    /\ ret' = [ret EXCEPT ![p] = r]
    /\ Goto(p, "done")

-----------------------------------------------------------------------------
(***************************************************************************)
(* The layers, before they call the store.                                 *)
(***************************************************************************)
FirstStep(l, c) ==
    CASE l = "cli" -> "resolve"
      [] l = "meter" -> "measure"
      [] l \in {"check", "prepare"} /\ c.given # None -> l
      [] OTHER -> "call"

Call(p) ==
    /\ pc[p] = "idle"
    /\ \E c \in Calls, l \in Layers :
         /\ Sensible(c) /\ c.s = StoreId /\ c.d \in Contents /\ Fits(l, c.op)
         /\ call' = [call EXCEPT ![p] = c]
         /\ layer' = [layer EXCEPT ![p] = l]
         /\ Goto(p, FirstStep(l, c))
    /\ UNCHANGED <<ret, inflight, secondary, store>>

\* The commands resolve DIGEST first: it is sanitized, or hashed from a file.
ResolveDigest(p) ==
    /\ pc[p] = "resolve"
    /\ \/ call[p].wellformed /\ Goto(p, "call") /\ UNCHANGED ret
       \/ Answer(p, "error")
    /\ UNCHANGED <<call, layer, inflight, secondary, store>>

\* StoreMeter.measure counts the call in ...
Measure(p) ==
    /\ pc[p] = "measure"
    /\ inflight' = inflight + 1
    /\ Goto(p, "measured")
    /\ UNCHANGED <<call, layer, ret, secondary, store>>

\* ... and out when measure returns, before the call of the store.
Measured(p) ==
    /\ pc[p] = "measured"
    /\ inflight' = inflight - 1
    /\ Goto(p, "call")
    /\ UNCHANGED <<call, layer, ret, secondary, store>>

\* PrepareDigest replaces the digest given by the one it computes, with whatever
\* algorithm it was made for.  A reader that cannot seek is left alone, and one that
\* fails ends the call.
Hash(p) ==
    /\ pc[p] = "prepare"
    /\ \/ Goto(p, "call") /\ UNCHANGED <<call, ret>>
       \/ /\ \E d \in {call[p].d, Foreign} :
               call' = [call EXCEPT ![p].given = d, ![p].wellformed = TRUE]
          /\ Goto(p, "call") /\ UNCHANGED ret
       \/ Answer(p, "error") /\ UNCHANGED call
    /\ UNCHANGED <<layer, inflight, secondary, store>>

-----------------------------------------------------------------------------
(***************************************************************************)
(* The calls of the store.                                                 *)
(***************************************************************************)
Ask(p, c) == Backend!Invoke(p) /\ inner'[p] = c

\* What CheckExistence asks first.
Existence(c) == [c EXCEPT !.op = "get", !.d = c.given]

\* The stages that call a store: the call made there, and the stage it is answered in.
Asked(p, l) == IF l \in {"check", "check2"} THEN Existence(call[p]) ELSE call[p]
Asking == [check |-> "checking", check2 |-> "checking2", call |-> "calling",
           call2 |-> "calling2"]

AskPrimary(p) ==
    /\ pc[p] \in {"check", "call"}
    /\ Ask(p, Asked(p, pc[p]))
    /\ Goto(p, Asking[pc[p]])
    /\ UNCHANGED <<call, layer, ret, inflight, secondary>>

\* Mutant: an error of the secondary store is taken for one of the primary.
FallsAgain(p) ==
    /\ pc[p] \in {"checking", "calling", "calling2"}
    /\ outcome[p] \notin {None, "ok"}
    /\ secondary # "none" /\ inner[p].op \in {"get", "open"}

\* FallbackStore reads from the secondary on any error of the primary.
Falls(p) ==
    /\ pc[p] \in {"checking", "calling"}
    /\ outcome[p] \notin {None, "ok"}
    /\ secondary # "none" /\ inner[p].op \in {"get", "open"}

Fallback(p) ==
    /\ Falls(p)
    /\ Goto(p, IF pc[p] = "checking" THEN "check2" ELSE "call2")
    /\ Backend!Leave(p)
    /\ UNCHANGED <<call, layer, ret, inflight, secondary>>

AskSecondary(p) ==
    /\ pc[p] \in {"check2", "call2"} /\ secondary = "same"
    /\ Ask(p, [Asked(p, pc[p]) EXCEPT !.s = SecondaryId])
    /\ Goto(p, Asking[pc[p]])
    /\ UNCHANGED <<call, layer, ret, inflight, secondary>>

\* Nothing was ever added to a MemStores that only the fallback reads.
AskFresh(p) ==
    /\ pc[p] \in {"check2", "call2"} /\ secondary = "fresh"
    /\ IF pc[p] = "check2" THEN Goto(p, "call") /\ UNCHANGED ret
                           ELSE Answer(p, "notexist")
    /\ UNCHANGED <<call, layer, inflight, secondary, store>>

\* Mutant: any answer but ErrNotExist is taken for existence.
CheckedTrusting(p) ==
    /\ pc[p] \in {"checking", "checking2"} /\ outcome[p] # None /\ ~Falls(p)
    /\ IF outcome[p] # "notexist" THEN Answer(p, "exists")
                                  ELSE Goto(p, "call") /\ UNCHANGED ret
    /\ Backend!Leave(p)
    /\ UNCHANGED <<call, layer, inflight, secondary>>

\* CheckExistence: no Add of what the Get has found.
Checked(p) ==
    /\ pc[p] \in {"checking", "checking2"} /\ outcome[p] # None /\ ~Falls(p)
    /\ IF outcome[p] = "ok" THEN Answer(p, "exists")
                            ELSE Goto(p, "call") /\ UNCHANGED ret
    /\ Backend!Leave(p)
    /\ UNCHANGED <<call, layer, inflight, secondary>>

\* AllowDuplicates reports success for what exists; the others pass the outcome on.
Through(l, r) == IF l = "allow" /\ r = "exists" THEN "ok" ELSE r

Answered(p) ==
    /\ pc[p] \in {"calling", "calling2"} /\ outcome[p] # None /\ ~Falls(p)
    /\ IF layer[p] = "cli" /\ call[p].op = "open" /\ outcome[p] = "ok"
         THEN Goto(p, "copy") /\ UNCHANGED ret
         ELSE Answer(p, Through(layer[p], outcome[p]))
    /\ Backend!Leave(p)
    /\ UNCHANGED <<call, layer, inflight, secondary>>

\* flob read copies the blob to its output.
Copy(p) ==
    /\ pc[p] = "copy"
    /\ \E r \in {"ok", "error"} : Answer(p, r)
    /\ UNCHANGED <<call, layer, inflight, secondary, store>>

Return(p) ==
    /\ pc[p] = "done"
    /\ Goto(p, "idle")
    /\ call' = [call EXCEPT ![p] = None]
    /\ layer' = [layer EXCEPT ![p] = None]
    /\ ret' = [ret EXCEPT ![p] = None]
    /\ UNCHANGED <<inflight, secondary, store>>

-----------------------------------------------------------------------------
\* The steps of a call that p itself takes.
Proceed(p) ==
    \/ ResolveDigest(p) \/ Measure(p) \/ Measured(p) \/ Hash(p)
    \/ AskPrimary(p) \/ Fallback(p) \/ AskSecondary(p) \/ AskFresh(p)
    \/ Checked(p) \/ Answered(p) \/ Copy(p)

\* The backend works on the call of p.
BackendReply(p) == Backend!Reply(p) /\ UNCHANGED <<client, inflight, secondary>>

BackendEffect(p) ==
    /\ Backend!Appear(p) \/ Backend!Rewrite(p) \/ Backend!Vanish(p)
    /\ UNCHANGED <<client, inflight, secondary>>

\* A key changes, by another client or by a late write.
Others ==
    /\ \E k \in loose : Backend!Drift(k)
    /\ loose' = loose
    /\ UNCHANGED <<client, inflight, secondary>>
=============================================================================
