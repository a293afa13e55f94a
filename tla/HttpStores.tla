----------------------------- MODULE HttpStores -----------------------------
(***************************************************************************)
(* A store behind HTTP (http.go): HttpHandler on the server, HttpStore at  *)
(* the client, and the network between them.                               *)
(*                                                                         *)
(* A call of a client is one request.  The handler turns it into a call of *)
(* the store behind it, which is taken at its contract (StoreContract),    *)
(* and the outcome into a status code that the client turns back into an   *)
(* outcome.  A connection that breaks gives the client an error, and its   *)
(* handler goes on: the call it has made of the store may still succeed.   *)
(***************************************************************************)
EXTENDS HttpStatus

CONSTANTS
    Handlers,     \* goroutines of the server, one per request being served
    Exclusive,    \* whether the store behind the handler serialises writers
    Remote,       \* whether it is remote itself
    Redirect,     \* HttpHandler.Redirect, over a store that is a Presigner
    MaxFaults     \* bound on the number of requests that break

ASSUME HandlersAssumption == None \notin Handlers

\* The only Presigner is S3Store, which is remote and does not serialise writers.
ASSUME FlagsAssumption ==
    /\ Exclusive \in BOOLEAN /\ Remote \in BOOLEAN /\ Redirect \in BOOLEAN
    /\ Redirect => Remote /\ ~Exclusive

ASSUME MaxFaultsAssumption == MaxFaults \in Nat

VARIABLES
    pc,        \* pc[p]: where the client p is in its call
    call,      \* call[p]: the arguments of the call of p, or None
    ret,       \* ret[p]: the outcome of the call of p, None while it is open
    via,       \* via[p]: the handler whose answer p waits for, or None
    at,        \* at[h]: the part of ServeHTTP that h is in
    req,       \* req[h]: the request that h serves, or None
    cut,       \* the handlers whose request body ends early
    faults,    \* requests that broke so far
    has,       \* the store behind the handlers: see StoreContract, where
    serving,   \*   serving[h] is the call that h has made (pend),
    known,     \*   known[h] what was the case since then (seen),
    did,       \*   did the handlers whose Add took effect,
    outcome,   \*   outcome[h] what the store answers h (ans),
    loose      \*   loose the keys that it may write after an error

client  == <<pc, call, ret, via>>
handler == <<at, req, cut>>
store   == <<has, serving, known, did, outcome, loose>>
vars    == <<client, handler, store, faults>>

Backend == INSTANCE StoreContract WITH
    Procs <- Handlers,
    Refuse <- Refusal,
    pend <- serving,
    seen <- known,
    ans <- outcome

PCs == {"idle", "wait", "follow", "done"}

\* No request; before the digest is sanitized; digest refused; in PresignOpen;
\* PresignOpen has failed; in the call of the store that serves the request.
Parts == {"free", "parse", "refuse", "presign", "stream", "serve"}

Init ==
    /\ pc = [p \in Procs |-> "idle"]
    /\ call = [p \in Procs |-> None]
    /\ ret = [p \in Procs |-> None]
    /\ via = [p \in Procs |-> None]
    /\ at = [h \in Handlers |-> "free"]
    /\ req = [h \in Handlers |-> None]
    /\ cut = {} /\ faults = 0
    /\ Backend!Init

\* Mutant: every failure of PresignOpen is answered as if the blob were not there.
CodeMissing(h) ==
    CASE at[h] = "refuse" -> 400
      [] at[h] = "presign" /\ outcome[h] = "ok" -> 307
      [] at[h] = "presign" /\ outcome[h] \notin {None, "ok"} -> 404
      [] at[h] = "serve" /\ outcome[h] # None -> Status(req[h].op, outcome[h])
      [] OTHER -> None

\* The code that h answers with, None as long as it has no answer.
Code(h) ==
    CASE at[h] = "refuse" -> 400
      [] at[h] = "presign" /\ outcome[h] = "ok" -> 307
      [] at[h] = "presign" /\ outcome[h] = "notexist" -> 404
      [] at[h] = "serve" /\ outcome[h] # None -> Status(req[h].op, outcome[h])
      [] OTHER -> None

-----------------------------------------------------------------------------
(***************************************************************************)
(* The client.                                                             *)
(***************************************************************************)

\* HttpStore sends the request, and a goroutine of the server takes it.
Send(p) ==
    /\ pc[p] = "idle"
    /\ \E c \in Calls, h \in Handlers :
         /\ Sensible(c) /\ at[h] = "free"
         /\ call' = [call EXCEPT ![p] = c]
         /\ via' = [via EXCEPT ![p] = h]
         /\ at' = [at EXCEPT ![h] = "parse"]
         /\ req' = [req EXCEPT ![h] = c]
    /\ pc' = [pc EXCEPT ![p] = "wait"]
    /\ UNCHANGED <<ret, cut, faults, store>>

Answer(p, r) ==
    /\ ret' = [ret EXCEPT ![p] = r]
    /\ pc' = [pc EXCEPT ![p] = "done"]

\* ServeHTTP returns, and so has the call of the store it has made, if any.
Free(h) ==
    /\ at' = [at EXCEPT ![h] = "free"]
    /\ req' = [req EXCEPT ![h] = None]
    /\ cut' = cut \ {h}
    /\ IF serving[h] = None THEN UNCHANGED store ELSE Backend!Leave(h)

\* The answer arrives whole; net/http follows a redirect by itself.
Receive(p) ==
    LET h == via[p] IN
    /\ pc[p] = "wait" /\ Code(h) # None
    /\ IF Code(h) = 307
         THEN pc' = [pc EXCEPT ![p] = "follow"] /\ UNCHANGED ret
         ELSE Answer(p, Outcome(call[p].op, Code(h)))
    /\ via' = [via EXCEPT ![p] = None]
    /\ Free(h)
    /\ UNCHANGED <<call, faults>>

\* GET of the presigned URL: the blob, a refusal of the URL, or, when the entry
\* was erased since, perhaps nothing.
Follow(p) ==
    /\ pc[p] = "follow"
    /\ \E code \in {200, 403, 404} :
         /\ code = 404 => Target(call[p]) \notin has
         /\ Answer(p, Outcome("open", code))
    /\ UNCHANGED <<call, via, handler, faults, store>>

\* The caller takes the outcome.
Return(p) ==
    /\ pc[p] = "done"
    /\ pc' = [pc EXCEPT ![p] = "idle"]
    /\ call' = [call EXCEPT ![p] = None]
    /\ ret' = [ret EXCEPT ![p] = None]
    /\ UNCHANGED <<via, handler, faults, store>>

(***************************************************************************)
(* The connection breaks, or the caller's context ends, and the client     *)
(* returns an error.  The request may not have arrived; an upload may be   *)
(* cut short; or nothing is lost but the answer.                           *)
(***************************************************************************)
Break(p) ==
    LET h == via[p] IN
    /\ pc[p] = "wait" /\ faults < MaxFaults
    /\ faults' = faults + 1
    /\ via' = [via EXCEPT ![p] = None]
    /\ Answer(p, "error")
    /\ UNCHANGED call
    /\ \/ at[h] = "parse" /\ Free(h)
       \/ /\ req[h].op = "add" /\ at[h] \in {"parse", "serve"}
          /\ h \notin did /\ outcome[h] = None
          /\ cut' = cut \cup {h}
          /\ UNCHANGED <<at, req, store>>
       \/ UNCHANGED <<handler, store>>

-----------------------------------------------------------------------------
(***************************************************************************)
(* HttpHandler.ServeHTTP.                                                  *)
(***************************************************************************)
Goto(h, part) == at' = [at EXCEPT ![h] = part]

\* The handler calls the store with the arguments of its request.
CallStore(h) == Backend!Invoke(h) /\ serving'[h] = req[h]

\* The digest is sanitized; then the method selects the call of the store.
Parse(h) ==
    /\ at[h] = "parse"
    /\ IF req[h].wellformed
         THEN /\ CallStore(h)
              /\ Goto(h, IF Redirect /\ req[h].op = "open" THEN "presign" ELSE "serve")
         ELSE Goto(h, "refuse") /\ UNCHANGED store
    /\ UNCHANGED <<req, cut, faults, client>>

\* PresignOpen has failed, not with ErrNotExist: the blob is streamed after all.
Fallback(h) ==
    /\ at[h] = "presign" /\ outcome[h] # None /\ Code(h) = None
    /\ Goto(h, "stream")
    /\ Backend!Leave(h)
    /\ UNCHANGED <<req, cut, faults, client>>

Stream(h) ==
    /\ at[h] = "stream"
    /\ CallStore(h)
    /\ Goto(h, "serve")
    /\ UNCHANGED <<req, cut, faults, client>>

\* The handlers whose client has gone.
Orphans == {h \in Handlers : at[h] # "free" /\ \A p \in Procs : via[p] # h}

\* Nobody reads the answer.
Abandon(h) ==
    /\ h \in Orphans /\ Code(h) # None
    /\ Free(h)
    /\ UNCHANGED <<client, faults>>

\* The store works on the call of h; an Add reads its body to the end, or fails
\* before it writes anything.
StoreStep(h) ==
    /\ \/ h \notin cut /\ Backend!Appear(h)
       \/ Backend!Rewrite(h)
       \/ Backend!Vanish(h)
       \/ Backend!Reply(h) /\ (h \in cut => loose' = loose)
    /\ UNCHANGED <<client, handler, faults>>

\* A write of a call that the store has answered with an error takes effect.
Late ==
    /\ \E k \in loose : Backend!Drift(k)
    /\ UNCHANGED <<client, handler, faults>>

Next ==
    \/ \E p \in Procs : Send(p) \/ Receive(p) \/ Follow(p) \/ Return(p) \/ Break(p)
    \/ \E h \in Handlers :
         Parse(h) \/ Fallback(h) \/ Stream(h) \/ Abandon(h) \/ StoreStep(h)
    \/ Late

Spec == Init /\ [][Next]_vars

-----------------------------------------------------------------------------
\* Every variable keeps its type; a client holds a connection exactly while it
\* waits, and the handler at the other end serves the call of that client and no
\* other client's.
TypeOK ==
    /\ pc \in [Procs -> PCs]
    /\ call \in [Procs -> Calls \cup {None}]
    /\ ret \in [Procs -> Results \cup {None}]
    /\ via \in [Procs -> Handlers \cup {None}]
    /\ at \in [Handlers -> Parts]
    /\ req \in [Handlers -> Calls \cup {None}]
    /\ cut \subseteq Handlers
    /\ \A p \in Procs :
         /\ pc[p] = "wait" <=> via[p] # None
         /\ via[p] # None => req[via[p]] = call[p]
         /\ \A q \in Procs : via[p] # None /\ via[p] = via[q] => p = q
=============================================================================
