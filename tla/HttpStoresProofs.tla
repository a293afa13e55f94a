-------------------------- MODULE HttpStoresProofs --------------------------
(***************************************************************************)
(* Proofs about HttpStores, for any number of clients and handlers and any *)
(* number of broken connections: HttpStore implements the contract of a    *)
(* remote store when the store behind the handler implements that of a     *)
(* local or of a remote one.                                               *)
(***************************************************************************)
EXTENDS HttpStoresContract, TLAPS

-----------------------------------------------------------------------------
(***************************************************************************)
(* The inductive invariant.                                                *)
(***************************************************************************)

\* The types of the store behind the handlers.
StoreOK ==
    /\ serving \in [Handlers -> Calls \cup {None}]
    /\ known \in [Handlers -> SUBSET {"present", "absent"}]
    /\ did \subseteq Handlers
    /\ outcome \in [Handlers -> Results \cup {None}]

\* What h has called the store with is its request, and what the store has answered
\* is right by its contract.
Serves(h) ==
    /\ at[h] = "free" => req[h] = None
    /\ at[h] # "free" => req[h] \in Calls /\ Sensible(req[h])
    /\ at[h] \in {"presign", "serve"} => serving[h] = req[h] /\ req[h].wellformed
    /\ at[h] \notin {"presign", "serve"} => serving[h] = None
    /\ at[h] = "refuse" => ~req[h].wellformed
    /\ at[h] \in {"presign", "stream"} => req[h].op = "open"
    /\ at[h] = "stream" => req[h].wellformed
    /\ serving[h] = None => outcome[h] = None /\ known[h] = {} /\ h \notin did
    /\ h \in did => serving[h].op = "add"
    /\ outcome[h] # None => Backend!Justified(h, outcome[h])

\* A client waits for a handler that is serving; only an open is redirected.
Waits(p) ==
    /\ pc[p] = "idle" => call[p] = None
    /\ pc[p] # "idle" => call[p] \in Calls /\ Sensible(call[p])
    /\ pc[p] # "done" => ret[p] = None
    /\ pc[p] = "follow" => call[p].op = "open" /\ call[p].wellformed
    /\ via[p] # None => at[via[p]] # "free"

Inv ==
    /\ TypeOK /\ StoreOK
    /\ \A h \in Handlers : Serves(h)
    /\ \A p \in Procs : Waits(p)

\* The vocabulary of both contracts is that of the store.
LEMMA Vocabulary ==
  /\ Contract!Calls = Calls /\ Contract!Results = Results
  /\ Backend!Calls = Calls /\ Backend!Results = Results
  /\ \A c : Contract!Target(c) = Target(c) /\ (Contract!Sensible(c) <=> Sensible(c))
  /\ \A c : Backend!Target(c) = Target(c) /\ (Backend!Sensible(c) <=> Sensible(c))
  /\ \A k, h : Backend!Presence(k, h) = Contract!Presence(k, h)
BY DEF Contract!Calls, Backend!Calls, Calls, Contract!Results, Backend!Results, Results,
       Contract!Target, Backend!Target, Target, Contract!Sensible, Backend!Sensible, Sensible,
       Contract!Presence, Backend!Presence

\* An answer of the store stays right while its call lasts.
LEMMA JustifiedStays ==
  ASSUME NEW h \in Handlers, NEW r \in Results, Backend!Justified(h, r),
         serving'[h] = serving[h], known[h] \subseteq known'[h], h \in did' <=> h \in did
  PROVE  Backend!Justified(h, r)'
<1>1. CASE ~serving[h].wellformed
  BY <1>1 DEF Backend!Justified, Backend!Refusal
<1>2. CASE serving[h].wellformed
  <2>1. r \in {"ok", "exists", "notexist", "mismatch", "error"}
    BY DEF Results
  <2>2. CASE r = "ok"
    BY <1>2, <2>2 DEF Backend!Justified
  <2>3. CASE r = "exists"
    BY <1>2, <2>3 DEF Backend!Justified
  <2>4. CASE r = "notexist"
    BY <1>2, <2>4 DEF Backend!Justified
  <2>5. CASE r = "mismatch"
    BY <1>2, <2>5 DEF Backend!Justified
  <2>6. CASE r = "error"
    BY <1>2, <2>6 DEF Backend!Justified
  <2> QED BY <2>1, <2>2, <2>3, <2>4, <2>5, <2>6
<1> QED BY <1>1, <1>2

\* A handler whose part and call of the store stay as they are.
LEMMA ServesKept ==
  ASSUME StoreOK, NEW h \in Handlers, Serves(h),
         at'[h] = at[h], req'[h] = req[h], serving'[h] = serving[h], outcome'[h] = outcome[h],
         known[h] \subseteq known'[h], serving[h] = None => known'[h] = known[h],
         h \in did' <=> h \in did
  PROVE  Serves(h)'
<1>1. outcome[h] # None => Backend!Justified(h, outcome[h])'
  BY JustifiedStays DEF StoreOK, Serves
<1> QED BY <1>1 DEF Serves

\* What a call of the store is, once its contract is expanded.
LEMMA Calling ==
  ASSUME Inv, NEW h \in Handlers, CallStore(h)
  PROVE  /\ serving[h] = None /\ req[h] \in Calls
         /\ serving' = [serving EXCEPT ![h] = req[h]]
         /\ known' = [known EXCEPT ![h] = {Contract!Presence(Target(req[h]), has)}]
         /\ UNCHANGED <<has, did, outcome, loose>>
<1>1. PICK c \in Calls : /\ serving' = [serving EXCEPT ![h] = c]
                         /\ known' = [known EXCEPT ![h] = {Backend!Presence(Backend!Target(c), has)}]
  BY Vocabulary DEF CallStore, Backend!Invoke
<1>2. c = req[h]
  BY <1>1 DEF CallStore, Inv, StoreOK
<1> QED BY <1>1, <1>2, Vocabulary DEF CallStore, Backend!Invoke

\* The end of the call of the store that h has made, if any.
LEMMA Leaving ==
  ASSUME Inv, NEW h \in Handlers,
         IF serving[h] = None THEN UNCHANGED store ELSE Backend!Leave(h)
  PROVE  /\ serving' = [serving EXCEPT ![h] = None]
         /\ known' = [known EXCEPT ![h] = {}]
         /\ outcome' = [outcome EXCEPT ![h] = None]
         /\ did' = did \ {h} /\ UNCHANGED <<has, loose>>
<1>1. CASE serving[h] = None
  <2>1. known[h] = {} /\ outcome[h] = None /\ h \notin did /\ UNCHANGED store
    BY <1>1 DEF Inv, Serves
  <2> QED BY <1>1, <2>1 DEF Inv, StoreOK, store
<1>2. CASE serving[h] # None
  BY <1>2 DEF Backend!Leave
<1> QED BY <1>1, <1>2

\* What a step of the store in the call of h is.
LEMMA Working ==
  ASSUME Inv, NEW h \in Handlers, StoreStep(h)
  PROVE  /\ serving[h] # None /\ outcome[h] = None /\ UNCHANGED serving
         /\ known' \in [Handlers -> SUBSET {"present", "absent"}]
         /\ \A g \in Handlers :
              /\ known[g] \subseteq known'[g]
              /\ known'[g] \subseteq known[g] \cup {Contract!Presence(Target(serving[g]), has')}
              /\ serving[g] = None => known'[g] = known[g]
         /\ \A g \in Handlers \ {h} : outcome'[g] = outcome[g]
         /\ did' \in {did, did \cup {h}}
         /\ h \in did' => serving[h].op = "add"
         /\ outcome' \in [Handlers -> Results \cup {None}]
         /\ (outcome[h] # None => Backend!Justified(h, outcome[h]))'
<1> USE Vocabulary DEF Inv, StoreOK
<1>1. ASSUME NEW k, Backend!Becomes(k)
      PROVE  /\ known' \in [Handlers -> SUBSET {"present", "absent"}]
             /\ \A g \in Handlers :
                  /\ known[g] \subseteq known'[g]
                  /\ known'[g] \subseteq known[g] \cup {Contract!Presence(Target(serving[g]), has')}
                  /\ serving[g] = None => known'[g] = known[g]
                  /\ serving[g] # None => Contract!Presence(Target(serving[g]), k) \in known'[g]
  BY <1>1 DEF Backend!Becomes, Contract!Presence
<1>2. h \in did => serving[h].op = "add" /\ serving[h] # None
  BY DEF Serves
<1>3. "ok" \in Results /\ "ok" # None
  BY NothingAssumption DEF Results
<1>4. ASSUME Backend!MayAnswer(h), outcome[h] = None
      PROVE  /\ \A g \in Handlers \ {h} : outcome'[g] = outcome[g]
             /\ outcome' \in [Handlers -> Results \cup {None}]
             /\ outcome'[h] \in {None, "ok"}
  BY <1>3, <1>4 DEF Backend!MayAnswer
<1>5. CASE h \notin cut /\ Backend!Appear(h)
  <2>1. /\ serving[h] # None /\ outcome[h] = None /\ did' = did \cup {h}
        /\ serving[h].op = "add" /\ serving[h].wellformed /\ UNCHANGED serving
        /\ Backend!MayAnswer(h) /\ \E k : Backend!Becomes(k)
    BY <1>5 DEF Backend!Appear
  <2>2. Backend!Justified(h, "ok")'
    BY <2>1 DEF Backend!Justified
  <2> QED BY <1>1, <1>4, <2>1, <2>2
<1>6. CASE Backend!Rewrite(h)
  <2>1. /\ serving[h] # None /\ outcome[h] = None /\ did' = did
        /\ serving[h].op = "label" /\ "present" \in known[h] /\ UNCHANGED serving
        /\ Backend!MayAnswer(h) /\ \E k : Backend!Becomes(k)
    BY <1>6 DEF Backend!Rewrite
  <2>2. serving[h].wellformed /\ "present" \in known'[h]
    BY <1>1, <2>1 DEF Serves
  <2>3. Backend!Justified(h, "ok")'
    BY <2>1, <2>2 DEF Backend!Justified
  <2> QED BY <1>1, <1>2, <1>4, <2>1, <2>3
<1>7. CASE Backend!Vanish(h)
  <2>1. /\ serving[h] # None /\ outcome[h] = None /\ did' = did
        /\ serving[h].op = "erase" /\ serving[h].wellformed /\ UNCHANGED serving
        /\ Backend!MayAnswer(h) /\ Backend!Becomes(has \ {Target(serving[h])})
    BY <1>7 DEF Backend!Vanish
  <2>2. "absent" \in known'[h] /\ \E k : Backend!Becomes(k)
    BY <1>1, <2>1 DEF Contract!Presence
  <2>3. Backend!Justified(h, "ok")'
    BY <2>1, <2>2 DEF Backend!Justified
  <2> QED BY <1>1, <1>2, <1>4, <2>1, <2>2, <2>3
<1>8. CASE Backend!Reply(h)
  <2>1. PICK r \in Results : Backend!Justified(h, r) /\ outcome' = [outcome EXCEPT ![h] = r]
    BY <1>8 DEF Backend!Reply
  <2>2. /\ serving[h] # None /\ outcome[h] = None /\ UNCHANGED <<has, serving, known, did>>
    BY <1>8 DEF Backend!Reply
  <2>3. Backend!Justified(h, r)' /\ outcome'[h] = r
    BY <2>1, <2>2, JustifiedStays
  <2> QED BY <1>2, <2>1, <2>2, <2>3
<1> QED BY <1>5, <1>6, <1>7, <1>8 DEF StoreStep

\* What a late write of the store is.
LEMMA Drifting ==
  ASSUME Inv, Late
  PROVE  /\ UNCHANGED <<client, handler, serving, did, outcome>>
         /\ known' \in [Handlers -> SUBSET {"present", "absent"}]
         /\ \A g \in Handlers :
              /\ known[g] \subseteq known'[g]
              /\ known'[g] \subseteq known[g] \cup {Contract!Presence(Target(serving[g]), has')}
              /\ serving[g] = None => known'[g] = known[g]
<1>1. PICK k : Backend!Becomes(k)
  BY DEF Late, Backend!Drift
<1>2. UNCHANGED <<client, handler, serving, did, outcome>>
  BY DEF Late, Backend!Drift
<1> QED BY <1>1, <1>2, Vocabulary DEF Backend!Becomes, Contract!Presence, Inv, StoreOK

\* A request is sent and taken.
LEMMA SendInv ==
  ASSUME Inv, NEW p \in Procs, Send(p)
  PROVE  Inv'
<1>1. PICK c \in Calls, h \in Handlers :
        /\ Sensible(c) /\ at[h] = "free"
        /\ call' = [call EXCEPT ![p] = c]
        /\ via' = [via EXCEPT ![p] = h]
        /\ at' = [at EXCEPT ![h] = "parse"]
        /\ req' = [req EXCEPT ![h] = c]
  BY DEF Send
<1>2. pc[p] = "idle" /\ pc' = [pc EXCEPT ![p] = "wait"] /\ UNCHANGED <<ret, cut, faults, store>>
  BY DEF Send
<1>3. \A q \in Procs : via[q] # h
  BY <1>1, HandlersAssumption DEF Inv, Waits
<1>4. TypeOK'
  BY <1>1, <1>2, <1>3, HandlersAssumption DEF Inv, TypeOK, PCs, Parts
<1>5. StoreOK'
  BY <1>2 DEF Inv, StoreOK, store
<1>6. ASSUME NEW g \in Handlers PROVE Serves(g)'
  <2>1. CASE g # h
    BY <1>1, <1>2, <1>6, <2>1, ServesKept DEF Inv, TypeOK, store
  <2>2. CASE g = h
    <3>1. serving[h] = None /\ outcome[h] = None /\ known[h] = {} /\ h \notin did
      BY <1>1 DEF Inv, Serves
    <3>2. at'[h] = "parse" /\ req'[h] = c /\ UNCHANGED <<serving, outcome, known, did>>
      BY <1>1, <1>2 DEF Inv, TypeOK, store
    <3> QED BY <1>1, <2>2, <3>1, <3>2 DEF Serves
  <2> QED BY <2>1, <2>2
<1>7. ASSUME NEW q \in Procs PROVE Waits(q)'
  BY <1>1, <1>2, <1>3, <1>7 DEF Inv, TypeOK, Waits
<1> QED BY <1>4, <1>5, <1>6, <1>7 DEF Inv

\* A handler that no client waits for any more, or whose client leaves with it, ends.
LEMMA FreeInv ==
  ASSUME Inv, NEW h \in Handlers, Free(h)
  PROVE  StoreOK' /\ \A g \in Handlers : Serves(g)'
<1>1. /\ serving' = [serving EXCEPT ![h] = None]
      /\ known' = [known EXCEPT ![h] = {}]
      /\ outcome' = [outcome EXCEPT ![h] = None]
      /\ did' = did \ {h} /\ UNCHANGED <<has, loose>>
  BY Leaving DEF Free
<1>2. at' = [at EXCEPT ![h] = "free"] /\ req' = [req EXCEPT ![h] = None]
  BY DEF Free
<1>3. StoreOK'
  BY <1>1 DEF Inv, StoreOK
<1>4. ASSUME NEW g \in Handlers PROVE Serves(g)'
  <2>1. CASE g # h
    BY <1>1, <1>2, <1>4, <2>1, ServesKept DEF Inv, TypeOK, StoreOK
  <2>2. CASE g = h
    BY <1>1, <1>2, <2>2 DEF Serves, Inv, TypeOK, StoreOK
  <2> QED BY <2>1, <2>2
<1> QED BY <1>3, <1>4

\* The client takes the answer of its handler.
LEMMA ReceiveInv ==
  ASSUME Inv, NEW p \in Procs, Receive(p)
  PROVE  Inv'
<1> DEFINE h == via[p]
<1>1. pc[p] = "wait" /\ Code(h) # None /\ via' = [via EXCEPT ![p] = None] /\ UNCHANGED call
      /\ Free(h)
  BY DEF Receive
<1>2. h \in Handlers /\ at[h] # "free" /\ req[h] = call[p] /\ h # None
  BY <1>1, HandlersAssumption DEF Inv, TypeOK, Waits
<1>3. StoreOK' /\ \A g \in Handlers : Serves(g)'
  BY <1>1, <1>2, FreeInv
<1>4. at' = [at EXCEPT ![h] = "free"] /\ req' = [req EXCEPT ![h] = None] /\ cut' = cut \ {h}
  BY <1>1 DEF Free
<1>5. \A q \in Procs : q # p => via[q] # h
  BY <1>2 DEF Inv, TypeOK
<1>6. \A c : Outcome(call[p].op, c) \in Results
  BY DEF Outcome, addErr, parseErr, Results
<1>7. PICK l \in {"follow", "done"}, r \in Results \cup {None} :
        /\ pc' = [pc EXCEPT ![p] = l] /\ ret' = [ret EXCEPT ![p] = r]
        /\ l = "follow" => Code(h) = 307 /\ r = None
  <2>1. ret[p] = None /\ ret = [ret EXCEPT ![p] = ret[p]]
    BY <1>1 DEF Inv, TypeOK, Waits
  <2> QED BY <1>6, <2>1 DEF Receive, Answer
<1> HIDE DEF h
<1>8. TypeOK'
  BY <1>1, <1>2, <1>4, <1>5, <1>7 DEF Inv, TypeOK, PCs, Parts
<1>9. Code(h) = 307 => call[p].op = "open" /\ call[p].wellformed
  BY <1>1, <1>2 DEF Code, Status, Inv, Serves
<1>10. ASSUME NEW q \in Procs PROVE Waits(q)'
  <2>1. CASE q = p
    BY <1>1, <1>7, <1>9, <2>1 DEF Inv, TypeOK, Waits
  <2>2. CASE q # p
    BY <1>1, <1>4, <1>5, <1>7, <1>10, <2>2 DEF Inv, TypeOK, Waits
  <2> QED BY <2>1, <2>2
<1> QED BY <1>3, <1>8, <1>10 DEF Inv

\* The other ends of a call at the client.
LEMMA FollowReturnInv ==
  ASSUME Inv, NEW p \in Procs, Follow(p) \/ Return(p)
  PROVE  Inv'
<1>1. UNCHANGED <<via, handler, store>>
  BY DEF Follow, Return
<1>2. \A c : Outcome("open", c) \in Results
  BY DEF Outcome, addErr, parseErr, Results
<1>3. pc[p] \in {"follow", "done"}
  BY DEF Follow, Return
<1>4. TypeOK'
  BY <1>1, <1>2, <1>3 DEF Inv, TypeOK, Follow, Return, Answer, PCs, handler
<1>5. StoreOK' /\ \A g \in Handlers : Serves(g)'
  BY <1>1, ServesKept DEF Inv, StoreOK, handler, store
<1>6. ASSUME NEW q \in Procs PROVE Waits(q)'
  BY <1>1, <1>6 DEF Inv, TypeOK, Waits, Follow, Return, Answer, handler
<1> QED BY <1>4, <1>5, <1>6 DEF Inv

\* A connection breaks.
LEMMA BreakInv ==
  ASSUME Inv, NEW p \in Procs, Break(p)
  PROVE  Inv'
<1> DEFINE h == via[p]
<1>1. /\ pc[p] = "wait" /\ via' = [via EXCEPT ![p] = None] /\ UNCHANGED call
      /\ ret' = [ret EXCEPT ![p] = "error"] /\ pc' = [pc EXCEPT ![p] = "done"]
  BY DEF Break, Answer
<1>2. h \in Handlers /\ at[h] # "free" /\ req[h] = call[p] /\ h # None
  BY <1>1, HandlersAssumption DEF Inv, TypeOK, Waits
<1>3. \A q \in Procs : q # p => via[q] # h
  BY <1>2 DEF Inv, TypeOK
<1>4. Free(h) \/ (UNCHANGED <<at, req, store>> /\ cut' \in {cut, cut \cup {h}})
  BY DEF Break, handler
<1>5. StoreOK' /\ \A g \in Handlers : Serves(g)'
  <2>1. CASE Free(h)
    BY <1>2, <2>1, FreeInv
  <2>2. CASE UNCHANGED <<at, req, store>>
    BY <2>2, ServesKept DEF Inv, StoreOK, store
  <2> QED BY <1>4, <2>1, <2>2
<1>6. TypeOK'
  BY <1>1, <1>2, <1>3, <1>4 DEF Free, Inv, TypeOK, PCs, Parts, Results
<1>7. ASSUME NEW q \in Procs PROVE Waits(q)'
  BY <1>1, <1>2, <1>3, <1>4, <1>7 DEF Free, Inv, TypeOK, Waits
<1> QED BY <1>5, <1>6, <1>7 DEF Inv

\* A handler goes on, the clients as they are.
LEMMA HandlerInv ==
  ASSUME Inv, NEW h \in Handlers, Parse(h) \/ Fallback(h) \/ Stream(h)
  PROVE  Inv'
<1>1. /\ at[h] \in {"parse", "presign", "stream"} /\ UNCHANGED <<req, cut, client>>
      /\ at' \in [Handlers -> Parts] /\ at'[h] # "free"
      /\ \A g \in Handlers \ {h} : at'[g] = at[g]
  BY DEF Parse, Fallback, Stream, Goto, Inv, TypeOK, Parts
<1>2. TypeOK'
  BY <1>1 DEF Inv, TypeOK, client
<1>3. ASSUME NEW q \in Procs PROVE Waits(q)'
  BY <1>1, <1>3 DEF Inv, TypeOK, Waits, client
<1>4. req[h] \in Calls /\ Sensible(req[h])
  BY <1>1 DEF Inv, Serves
<1>5. CASE CallStore(h)
  <2>1. /\ serving[h] = None
        /\ serving' = [serving EXCEPT ![h] = req[h]]
        /\ known' = [known EXCEPT ![h] = {Contract!Presence(Target(req[h]), has)}]
        /\ UNCHANGED <<has, did, outcome, loose>>
    BY <1>5, Calling
  <2>2. StoreOK'
    BY <1>4, <2>1 DEF Inv, StoreOK, Contract!Presence
  <2>3. ASSUME NEW g \in Handlers, g # h PROVE Serves(g)'
    BY <1>1, <2>1, <2>3, ServesKept DEF Inv, TypeOK, StoreOK
  <2>4. req[h].wellformed /\ at'[h] \in {"presign", "serve"} /\ (at'[h] = "presign" => req[h].op = "open")
    BY <1>5, <2>1, NothingAssumption, <1>4
    DEF Parse, Fallback, Stream, Goto, Inv, TypeOK, Serves, store, StoreOK, Backend!Leave
  <2>5. Serves(h)'
    BY <1>1, <1>4, <2>1, <2>4, NothingAssumption DEF Inv, TypeOK, Serves, StoreOK
  <2> QED BY <1>2, <1>3, <2>2, <2>3, <2>5 DEF Inv
<1>6. CASE Parse(h) /\ ~req[h].wellformed
  <2>1. UNCHANGED store /\ at' = [at EXCEPT ![h] = "refuse"] /\ at[h] = "parse"
    BY <1>6 DEF Parse, Goto
  <2>2. StoreOK'
    BY <2>1 DEF Inv, StoreOK, store
  <2>3. ASSUME NEW g \in Handlers, g # h PROVE Serves(g)'
    BY <1>1, <2>1, <2>3, ServesKept DEF Inv, TypeOK, store
  <2>4. Serves(h)'
    BY <1>1, <1>4, <1>6, <2>1 DEF Inv, TypeOK, Serves, store
  <2> QED BY <1>2, <1>3, <2>2, <2>3, <2>4 DEF Inv
<1>7. CASE Fallback(h)
  <2>1. at' = [at EXCEPT ![h] = "stream"] /\ at[h] = "presign" /\ Backend!Leave(h)
    BY <1>7 DEF Fallback, Goto
  <2>2. serving[h] # None
    BY <2>1 DEF Backend!Leave
  <2>3. /\ serving' = [serving EXCEPT ![h] = None]
        /\ known' = [known EXCEPT ![h] = {}]
        /\ outcome' = [outcome EXCEPT ![h] = None]
        /\ did' = did \ {h} /\ UNCHANGED <<has, loose>>
    BY <2>1, <2>2, Leaving
  <2>4. StoreOK'
    BY <2>3 DEF Inv, StoreOK
  <2>5. ASSUME NEW g \in Handlers, g # h PROVE Serves(g)'
    BY <1>1, <2>3, <2>5, ServesKept DEF Inv, TypeOK, StoreOK
  <2>6. Serves(h)'
    BY <1>1, <1>4, <2>1, <2>3 DEF Inv, TypeOK, Serves, StoreOK
  <2> QED BY <1>2, <1>3, <2>4, <2>5, <2>6 DEF Inv
<1> QED BY <1>5, <1>6, <1>7 DEF Parse, Stream

\* A handler whose client has gone ends, or the store does a step of its call.
LEMMA ServerInv ==
  ASSUME Inv, NEW h \in Handlers, Abandon(h) \/ StoreStep(h)
  PROVE  Inv'
<1>1. CASE Abandon(h)
  <2>1. Free(h) /\ UNCHANGED client /\ \A p \in Procs : via[p] # h
    BY <1>1 DEF Abandon, Orphans
  <2>2. at' = [at EXCEPT ![h] = "free"] /\ req' = [req EXCEPT ![h] = None] /\ cut' = cut \ {h}
    BY <2>1 DEF Free
  <2>3. TypeOK'
    BY <2>1, <2>2 DEF Inv, TypeOK, client, Parts
  <2>4. ASSUME NEW q \in Procs PROVE Waits(q)'
    BY <2>1, <2>2, <2>4 DEF Inv, TypeOK, Waits, client
  <2> QED BY <2>1, <2>3, <2>4, FreeInv DEF Inv
<1>2. CASE StoreStep(h)
  <2>1. UNCHANGED <<client, handler>>
    BY <1>2 DEF StoreStep
  <2>2. TypeOK' /\ \A q \in Procs : Waits(q)'
    BY <2>1 DEF Inv, TypeOK, Waits, client, handler
  <2>3. StoreOK'
    BY <1>2, Working DEF Inv, StoreOK
  <2>4. ASSUME NEW g \in Handlers, g # h PROVE Serves(g)'
    <3>1. g \in did' <=> g \in did
      BY <1>2, <2>4, Working
    <3> QED BY <1>2, <2>1, <2>4, <3>1, Working, ServesKept DEF Inv, handler
  <2>5. Serves(h)'
    BY <1>2, <2>1, Working DEF Inv, Serves, handler
  <2> QED BY <2>2, <2>3, <2>4, <2>5 DEF Inv
<1> QED BY <1>1, <1>2

\* A late write leaves the calls as they are.
LEMMA LateInv ==
  ASSUME Inv, Late
  PROVE  Inv'
<1>1. TypeOK' /\ \A q \in Procs : Waits(q)'
  BY Drifting DEF Inv, TypeOK, Waits, client, handler
<1>2. StoreOK'
  BY Drifting DEF Inv, StoreOK
<1>3. ASSUME NEW g \in Handlers PROVE Serves(g)'
  BY <1>3, Drifting, ServesKept DEF Inv, handler
<1> QED BY <1>1, <1>2, <1>3 DEF Inv

\* Every step keeps the invariant.
LEMMA NextInv == Inv /\ [Next]_vars => Inv'
<1> SUFFICES ASSUME Inv, [Next]_vars PROVE Inv'
  OBVIOUS
<1>1. CASE UNCHANGED vars
  <2>1. UNCHANGED <<client, handler, store>>
    BY <1>1 DEF vars
  <2>2. TypeOK' /\ StoreOK' /\ \A p \in Procs : Waits(p)'
    BY <2>1 DEF Inv, TypeOK, StoreOK, Waits, client, handler, store
  <2>3. \A h \in Handlers : Serves(h)'
    BY <2>1, ServesKept DEF Inv, handler, store
  <2> QED BY <2>2, <2>3 DEF Inv
<1> QED BY <1>1, SendInv, ReceiveInv, FollowReturnInv, BreakInv, HandlerInv, ServerInv, LateInv DEF Next

\* It holds at the start.
LEMMA InitInv == Init => Inv
<1> SUFFICES ASSUME Init PROVE Inv
  OBVIOUS
<1>1. TypeOK /\ StoreOK
  BY DEF Init, TypeOK, StoreOK, PCs, Parts, Backend!Init
<1>2. (\A h \in Handlers : Serves(h)) /\ (\A p \in Procs : Waits(p))
  BY DEF Init, Serves, Waits, Backend!Init
<1> QED BY <1>1, <1>2 DEF Inv

\* The inductive invariant holds in every reachable state of HttpStores.
THEOREM Invariance == Spec => []Inv
BY InitInv, NextInv, PTL DEF Spec

-----------------------------------------------------------------------------
(***************************************************************************)
(* The refinement of StoreContract.                                        *)
(***************************************************************************)

\* Whether the key of p exists now.
Now(p) == Contract!Presence(Target(call[p]), has)

\* The history of a call has what is the case now and all that its handler has seen,
\* and tells whether its Add has taken effect.
Recalls(p) ==
    /\ pc[p] = "idle" => seen[p] = {} /\ p \notin made
    /\ pc[p] # "idle" => Now(p) \in seen[p]
    /\ pc[p] = "follow" => "present" \in seen[p]
    /\ via[p] # None => /\ known[via[p]] \subseteq seen[p]
                        /\ via[p] \in did <=> p \in made

InvH ==
    /\ Inv
    /\ seen \in [Procs -> SUBSET {"present", "absent"}]
    /\ made \subseteq Procs
    /\ \A p \in Procs : Recalls(p)

\* A client that waits and the handler at the other end.
LEMMA Connected ==
  ASSUME InvH, NEW p \in Procs, via[p] # None
  PROVE  /\ pc[p] = "wait" /\ via[p] \in Handlers /\ at[via[p]] # "free"
         /\ req[via[p]] = call[p] /\ call[p] \in Calls /\ call[p] # None
         /\ serving[via[p]] \in {call[p], None}
         /\ \A q \in Procs : q # p => via[q] # via[p]
         /\ known[via[p]] \subseteq seen[p] /\ (via[p] \in did <=> p \in made)
<1>1. /\ pc[p] = "wait" /\ via[p] \in Handlers /\ req[via[p]] = call[p]
      /\ \A q \in Procs : q # p => via[q] # via[p]
  BY DEF InvH, Inv, TypeOK
<1>2. call[p] \in Calls /\ call[p] # None /\ at[via[p]] # "free"
  BY <1>1, NothingAssumption DEF InvH, Inv, Waits
<1>3. serving[via[p]] \in {req[via[p]], None}
  BY <1>1 DEF InvH, Inv, Serves
<1> QED BY <1>1, <1>2, <1>3 DEF InvH, Recalls

\* The history after a step within the calls is what the contract makes of it.
LEMMA Becoming ==
  ASSUME InvH, NextH, UNCHANGED call, \A q \in Procs : pc'[q] = "idle" <=> pc[q] = "idle"
  PROVE  Contract!Becomes(has') /\ (has' = has => seen' = seen)
<1>1. \A q \in Procs : (call[q] = None <=> pc[q] = "idle") /\ (pc[q] = "idle" => seen[q] = {})
  BY NothingAssumption DEF InvH, Inv, Waits, Recalls
<1>2. seen' = [q \in Procs |-> IF call[q] = None THEN seen[q]
                ELSE seen[q] \cup {Contract!Presence(Contract!Target(call[q]), has')}]
  BY <1>1, Vocabulary DEF NextH, Contract!Presence
<1>3. ASSUME has' = has PROVE seen' = seen
  <2>1. \A q \in Procs : pc[q] # "idle" => Now(q) \in seen[q]
    BY DEF InvH, Recalls
  <2>2. \A q \in Procs : seen'[q] = seen[q]
    BY <1>1, <1>3, <2>1 DEF NextH, Now, Contract!Presence
  <2> QED BY <2>2 DEF InvH, NextH
<1> QED BY <1>2, <1>3 DEF Contract!Becomes

\* The Adds that have taken effect are those of before, and the one of h if it has now.
LEMMA Making ==
  ASSUME InvH, NextH, NEW h, did' \subseteq did \cup {h},
         \A q \in Procs : pc'[q] = "idle" <=> pc[q] = "idle"
  PROVE  made' = made \cup {q \in Procs : via[q] = h /\ h \in did' /\ via[q] # None}
<1>1. \A q \in Procs : q \in made => pc[q] # "idle"
  BY DEF InvH, Recalls
<1>2. \A q \in Procs : via[q] # None => pc[q] # "idle" /\ (via[q] \in did <=> q \in made)
  BY Connected
<1>3. ASSUME NEW q \in Procs, via[q] = None PROVE via[q] \notin did \cup did'
  <2>1. Inv' /\ did \subseteq Handlers
    BY NextInv DEF NextH, InvH, Inv, StoreOK
  <2> QED BY <1>3, <2>1, HandlersAssumption DEF Inv, StoreOK
<1> QED BY <1>1, <1>2, <1>3 DEF NextH, InvH

\* An answer that is right for the handler is right for its client.
LEMMA JustifiedAtClient ==
  ASSUME InvH, NEW p \in Procs, via[p] # None, NEW r \in Results,
         serving[via[p]] # None, Backend!Justified(via[p], r)
  PROVE  Contract!Justified(p, r) /\ r \in Possible(call[p].op) /\ call[p].wellformed
<1>1. /\ serving[via[p]] = call[p] /\ known[via[p]] \subseteq seen[p]
      /\ via[p] \in did <=> p \in made
  BY Connected
<1>2. call[p].wellformed
  BY <1>1, Connected DEF InvH, Inv, Serves
<1>3. r \in {"ok", "exists", "notexist", "mismatch", "error"}
  BY DEF Results
<1>4. CASE r = "ok"
  BY <1>1, <1>2, <1>4 DEF Backend!Justified, Contract!Justified, Possible
<1>5. CASE r = "exists"
  BY <1>1, <1>2, <1>5 DEF Backend!Justified, Contract!Justified, Possible
<1>6. CASE r = "notexist"
  BY <1>1, <1>2, <1>6 DEF Backend!Justified, Contract!Justified, Possible
<1>7. CASE r = "mismatch"
  BY <1>1, <1>2, <1>7 DEF Backend!Justified, Contract!Justified, Possible
<1>8. CASE r = "error"
  BY <1>1, <1>2, <1>8 DEF Backend!Justified, Contract!Justified, Possible
<1> QED BY <1>2, <1>3, <1>4, <1>5, <1>6, <1>7, <1>8

\* What a code stands for is right for the client that waits for it; a redirect
\* stands for having found the entry.
LEMMA CodesJustified ==
  ASSUME InvH, NEW p \in Procs, via[p] # None, Code(via[p]) # None
  PROVE  IF Code(via[p]) = 307
           THEN "present" \in seen[p]
           ELSE Contract!Justified(p, Outcome(call[p].op, Code(via[p])))
<1> DEFINE h == via[p]
<1>1. /\ h \in Handlers /\ req[h] = call[p] /\ call[p] \in Calls /\ call[p].op \in Ops
      /\ Serves(h) /\ outcome[h] \in Results \cup {None} /\ known[h] \subseteq seen[p]
      /\ at[h] \in Parts
  BY Connected DEF InvH, Inv, StoreOK, TypeOK, Calls
<1>2. CASE at[h] = "refuse"
  <2>1. Code(h) = 400 /\ ~call[p].wellformed
    BY <1>1, <1>2 DEF Code, Serves
  <2>2. Outcome(call[p].op, 400) = "error"
    BY DEF Outcome, addErr, parseErr
  <2> QED BY <2>1, <2>2 DEF Contract!Justified, Refused
<1>3. CASE at[h] = "presign" /\ outcome[h] = "ok"
  <2>1. Code(h) = 307 /\ serving[h] = call[p] /\ call[p].op = "open" /\ call[p].wellformed
    BY <1>1, <1>3 DEF Code, Serves
  <2>2. Backend!Justified(h, "ok")
    BY <1>1, <1>3, NothingAssumption DEF Serves, Results
  <2>3. "present" \in known[h]
    BY <2>1, <2>2 DEF Backend!Justified
  <2> QED BY <1>1, <2>1, <2>3
<1>4. CASE at[h] = "presign" /\ outcome[h] = "notexist"
  <2>1. Code(h) = 404 /\ serving[h] = call[p]
    BY <1>1, <1>4 DEF Code, Serves
  <2>2. Backend!Justified(h, "notexist")
    BY <1>1, <1>4, NothingAssumption DEF Serves, Results
  <2>3. Contract!Justified(p, "notexist")
    BY <2>1, <2>2, JustifiedAtClient, Connected DEF Results
  <2>4. Outcome(call[p].op, 404) = "notexist"
    BY DEF Outcome, addErr, parseErr
  <2> QED BY <2>1, <2>3, <2>4
<1>5. CASE at[h] = "serve" /\ outcome[h] # None
  <2>1. Code(h) = Status(call[p].op, outcome[h]) /\ serving[h] = call[p]
    BY <1>1, <1>5 DEF Code, Serves
  <2>2. Backend!Justified(h, outcome[h]) /\ outcome[h] \in Results /\ serving[h] # None
    BY <1>1, <1>5, <2>1, Connected DEF Serves
  <2>3. Contract!Justified(p, outcome[h]) /\ outcome[h] \in Possible(call[p].op)
    BY <2>2, JustifiedAtClient
  <2>4. Outcome(call[p].op, Code(h)) = outcome[h]
    BY <1>1, <2>1, <2>3, CodesAreFaithful
  <2>5. Status(call[p].op, outcome[h]) # 307
    BY DEF Status
  <2> QED BY <2>1, <2>3, <2>4, <2>5
<1> QED BY <1>2, <1>3, <1>4, <1>5 DEF Code

\* The requests that may change their key.
Writes(h) == req[h].op \in {"add", "erase", "label"}

\* The key of an orphan that writes is loose until the store has answered.
LEMMA OrphansLoose ==
  ASSUME NEW h \in Orphans, Writes(h), outcome[h] = None
  PROVE  Target(req[h]) \in Loose
BY DEF Loose, Writes

\* As long as the same requests are orphans, the same keys are loose.
LEMMA LooseKept ==
  ASSUME Orphans' = Orphans, loose' = loose,
         \A h \in Orphans : req'[h] = req[h] /\ (Writes(h) => outcome'[h] = outcome[h])
  PROVE  Loose' = Loose
<1>1. \A h \in Orphans : /\ req'[h] = req[h]
                          /\ req[h].op \in {"add", "erase", "label"} => outcome'[h] = outcome[h]
  BY DEF Writes
<1> QED BY <1>1 DEF Loose

\* A step that changes no key, no answer and no orphan is none of the contract.
LEMMA Stutters ==
  ASSUME InvH, NextH, UNCHANGED <<has, call, ret>>, did' \subseteq did, Loose' = Loose,
         \A q \in Procs : Lost(q)' <=> Lost(q),
         \A q \in Procs : pc'[q] = pc[q] \/ (pc[q] = "wait" /\ pc'[q] = "follow")
  PROVE  UNCHANGED Contract!vars
<1>1. seen' = seen
  BY Becoming
<1>2. made' = made
  BY Making
<1>3. Answers' = Answers
  BY DEF Answers
<1> QED BY <1>1, <1>2, <1>3 DEF Contract!vars

\* A client is told of an error that the contract knows of.
LEMMA Confirms ==
  ASSUME InvH, NextH, NEW p \in Procs, pc[p] = "wait", Lost(p), Answer(p, "error"),
         UNCHANGED <<has, call>>, did' \subseteq did, Loose' = Loose,
         \A q \in Procs \ {p} : Lost(q)' <=> Lost(q)
  PROVE  UNCHANGED Contract!vars
<1>1. /\ ret' = [ret EXCEPT ![p] = "error"] /\ pc' = [pc EXCEPT ![p] = "done"]
      /\ \A q \in Procs : pc'[q] = "idle" <=> pc[q] = "idle"
  BY DEF Answer, InvH, Inv, TypeOK
<1>2. seen' = seen
  BY <1>1, Becoming
<1>3. made' = made
  BY <1>1, Making
<1>4. \A q \in Procs : Answers'[q] = Answers[q]
  BY <1>1 DEF Answers, InvH, Inv, TypeOK
<1>5. Answers' = Answers
  BY <1>4 DEF Answers
<1> QED BY <1>2, <1>3, <1>5 DEF Contract!vars

\* A step that changes no key and ends the call of p is an answer of the contract.
LEMMA Replies ==
  ASSUME InvH, NextH, NEW p \in Procs, pc[p] \in {"wait", "follow"}, NEW r \in Results,
         Answer(p, r), Contract!Justified(p, r), UNCHANGED <<has, call>>, did' \subseteq did,
         ~Lost(p), \A q \in Procs \ {p} : Lost(q)' <=> Lost(q),
         \/ Loose' = Loose
         \/ /\ r = "error" /\ call[p].op \in {"add", "label", "erase"}
            /\ Loose' = Loose \cup {Target(call[p])}
  PROVE  Contract!Next
<1>1. /\ ret' = [ret EXCEPT ![p] = r] /\ pc' = [pc EXCEPT ![p] = "done"]
      /\ \A q \in Procs : pc'[q] = "idle" <=> pc[q] = "idle"
  BY DEF Answer, InvH, Inv, TypeOK
<1>2. seen' = seen
  BY <1>1, Becoming
<1>3. made' = made
  BY <1>1, Making
<1>4. Answers[p] = None /\ Answers' = [Answers EXCEPT ![p] = r]
  BY <1>1 DEF Answers, InvH, Inv, TypeOK
<1>5. call[p] # None
  BY NothingAssumption DEF InvH, Inv, Waits
<1>6. Contract!Reply(p)
  BY <1>2, <1>3, <1>4, <1>5, Vocabulary DEF Contract!Reply
<1> QED BY <1>6 DEF Contract!Next

\* A call begins with its request.
LEMMA SendRefines ==
  ASSUME InvH, NextH, NEW p \in Procs, Send(p)
  PROVE  Contract!Next
<1>1. PICK c \in Calls, h \in Handlers :
        /\ Sensible(c) /\ at[h] = "free"
        /\ call' = [call EXCEPT ![p] = c]
        /\ via' = [via EXCEPT ![p] = h]
        /\ at' = [at EXCEPT ![h] = "parse"]
        /\ req' = [req EXCEPT ![h] = c]
  BY DEF Send
<1>2. /\ pc[p] = "idle" /\ pc' = [pc EXCEPT ![p] = "wait"]
      /\ UNCHANGED <<ret, has, did>>
  BY DEF Send, store
<1>3. /\ call[p] = None /\ seen[p] = {} /\ via[p] = None
      /\ \A q \in Procs : pc[q] # "idle" => Now(q) \in seen[q]
  BY <1>2 DEF InvH, Inv, TypeOK, Waits, Recalls
<1>4. seen' = [seen EXCEPT ![p] = {Contract!Presence(Contract!Target(c), has)}]
  <2>1. seen'[p] = {Contract!Presence(Contract!Target(c), has)}
    BY <1>1, <1>2, <1>3, Vocabulary DEF NextH, Contract!Presence, InvH, Inv, TypeOK
  <2>2. \A q \in Procs \ {p} : seen'[q] = seen[q]
    BY <1>1, <1>2, <1>3 DEF NextH, Now, Contract!Presence, InvH, Inv, TypeOK, Recalls
  <2> QED BY <2>1, <2>2 DEF NextH, InvH
<1>5. made' = made
  <2>1. \A q \in Procs : pc[q] = "idle" => q \notin made /\ via[q] = None
    BY DEF InvH, Inv, TypeOK, Recalls
  <2>2. \A q \in Procs : via[q] \in did => q \in made
    BY HandlersAssumption DEF InvH, Inv, StoreOK, Recalls
  <2>3. p \notin made /\ via[p] \notin did'
    BY <1>2, <2>1, <2>2
  <2>4. \A q \in Procs : q \in made' <=> q \in made
    BY <1>2, <2>1, <2>2, <2>3 DEF NextH, InvH, Inv, TypeOK
  <2> QED BY <2>4 DEF NextH, InvH
<1>6. Answers' = Answers
  <2>1. \A q \in Procs : via[q] # None => via[q] \in Handlers /\ at[via[q]] # "free"
    BY Connected
  <2>2. ~Lost(p) /\ ~Lost(p)'
    BY <1>1, <1>3 DEF Lost, InvH, Inv, TypeOK
  <2>3. \A q \in Procs \ {p} : Lost(q)' <=> Lost(q)
    BY <1>1, <2>1 DEF Send, store, Lost, InvH, Inv, TypeOK
  <2> QED BY <1>2, <2>2, <2>3 DEF Answers, InvH, Inv, TypeOK
<1>7. Loose' = Loose
  <2>0. \A q \in Procs : via[q] # h
    BY <1>1, HandlersAssumption DEF InvH, Inv, Waits
  <2>1. \A g \in Handlers : g \in Orphans' <=> g \in Orphans
    <3>1. ASSUME NEW g \in Handlers, g # h PROVE g \in Orphans' <=> g \in Orphans
      <4>1. \A q \in Procs : via'[q] = g <=> via[q] = g
        BY <1>1, <1>3, <3>1, HandlersAssumption DEF InvH, Inv, TypeOK
      <4>2. at'[g] = at[g]
        BY <1>1, <3>1 DEF InvH, Inv, TypeOK
      <4> QED BY <3>1, <4>1, <4>2 DEF Orphans
    <3>2. h \notin Orphans /\ h \notin Orphans'
      BY <1>1 DEF Orphans, InvH, Inv, TypeOK
    <3> QED BY <3>1, <3>2
  <2>2. Orphans' = Orphans
    BY <2>1 DEF Orphans
  <2>3. \A g \in Orphans : req'[g] = req[g]
    BY <1>1 DEF Orphans, InvH, Inv, TypeOK
  <2> QED BY <2>2, <2>3, LooseKept DEF Send, store
<1>8. Contract!Invoke(p)
  BY <1>1, <1>2, <1>3, <1>4, <1>5, <1>6, <1>7, Vocabulary DEF Contract!Invoke
<1> QED BY <1>8 DEF Contract!Next

\* A handler that ends with the call of its client was no orphan.
LEMMA FreesOwn ==
  ASSUME InvH, NEW p \in Procs, via[p] # None, Free(via[p]), via' = [via EXCEPT ![p] = None]
  PROVE  /\ Loose' = Loose /\ UNCHANGED has /\ did' \subseteq did
         /\ \A q \in Procs \ {p} : Lost(q)' <=> Lost(q)
<1> DEFINE h == via[p]
<1>1. /\ h \in Handlers /\ at[h] # "free" /\ \A q \in Procs : q # p => via[q] # h
      /\ at' = [at EXCEPT ![h] = "free"] /\ req' = [req EXCEPT ![h] = None]
  BY Connected DEF Free
<1>2. h \notin Orphans
  BY DEF Orphans
<1>3. \A g \in Handlers : g \in Orphans' <=> g \in Orphans
  BY <1>1, <1>2, HandlersAssumption DEF Orphans, InvH, Inv, TypeOK
<1>4. Orphans' = Orphans
  BY <1>3 DEF Orphans
<1>5. \A g \in Orphans : req'[g] = req[g]
  BY <1>1, <1>2 DEF Orphans, InvH, Inv, TypeOK
<1>6. did' = did \ {h} /\ UNCHANGED <<has, loose>> /\ outcome' = [outcome EXCEPT ![h] = None]
  BY <1>1, Leaving DEF Free, InvH
<1>7. \A g \in Orphans : outcome'[g] = outcome[g]
  BY <1>2, <1>6 DEF Orphans, InvH, Inv, StoreOK
<1>8. ASSUME NEW q \in Procs, q # p PROVE Lost(q)' <=> Lost(q)
  <2>1. via'[q] = via[q] /\ via[q] # h
    BY <1>1, <1>8 DEF InvH, Inv, TypeOK
  <2>2. via[q] # None => at'[via[q]] = at[via[q]] /\ outcome'[via[q]] = outcome[via[q]]
    BY <1>1, <1>6, <1>8, <2>1 DEF InvH, Inv, TypeOK, StoreOK
  <2> QED BY <2>1, <2>2 DEF Lost
<1> QED BY <1>4, <1>5, <1>6, <1>7, <1>8, LooseKept

\* A call ends with the answer of its handler, or at the presigned URL.
LEMMA ReceiveRefines ==
  ASSUME InvH, NextH, NEW p \in Procs, Receive(p) \/ Follow(p)
  PROVE  [Contract!Next]_Contract!vars
<1>0. \A op, c : Outcome(op, c) \in Results
  BY DEF Outcome, addErr, parseErr, Results
<1>1. CASE Receive(p)
  <2>1. /\ pc[p] = "wait" /\ Code(via[p]) # None /\ via' = [via EXCEPT ![p] = None]
        /\ UNCHANGED call /\ Free(via[p]) /\ via[p] # None
    BY <1>1 DEF Receive, InvH, Inv, TypeOK
  <2>2. /\ Loose' = Loose /\ UNCHANGED has /\ did' \subseteq did
        /\ \A q \in Procs \ {p} : Lost(q)' <=> Lost(q)
    BY <2>1, FreesOwn
  <2>0. Lost(p) => Code(via[p]) # 307 /\ Outcome(call[p].op, Code(via[p])) = "error"
    <3> SUFFICES ASSUME Lost(p)
                 PROVE  Code(via[p]) # 307 /\ Outcome(call[p].op, Code(via[p])) = "error"
      OBVIOUS
    <3>1. call[p].op \in Ops /\ req[via[p]] = call[p]
      BY <2>1, Connected DEF Calls
    <3>2. Code(via[p]) = Status(call[p].op, "error")
      BY <3>1, NothingAssumption DEF Lost, Code, Results
    <3>3. Status(call[p].op, "error") = 500 /\ Outcome(call[p].op, 500) = "error"
      BY DEF Status, Outcome, addErr, parseErr
    <3> QED BY <3>2, <3>3
  <2>3. CASE Code(via[p]) = 307
    <3>1. UNCHANGED ret /\ \A q \in Procs : pc'[q] = pc[q] \/ (pc[q] = "wait" /\ pc'[q] = "follow")
      BY <1>1, <2>1, <2>3 DEF Receive, InvH, Inv, TypeOK
    <3>2. ~Lost(p) /\ ~Lost(p)'
      BY <2>0, <2>1, <2>3 DEF Lost, InvH, Inv, TypeOK
    <3> QED BY <2>1, <2>2, <3>1, <3>2, Stutters
  <2>4. CASE Code(via[p]) # 307
    <3>1. Answer(p, Outcome(call[p].op, Code(via[p])))
      BY <1>1, <2>4 DEF Receive
    <3>2. Contract!Justified(p, Outcome(call[p].op, Code(via[p])))
      BY <2>1, <2>4, CodesJustified
    <3>3. CASE Lost(p)
      BY <2>0, <2>1, <2>2, <3>1, <3>3, Confirms
    <3>4. CASE ~Lost(p)
      BY <1>0, <2>1, <2>2, <3>1, <3>2, <3>4, Replies
    <3> QED BY <3>3, <3>4
  <2> QED BY <2>3, <2>4
<1>2. CASE Follow(p)
  <2>1. pc[p] = "follow" /\ UNCHANGED <<call, via, handler, store>>
    BY <1>2 DEF Follow
  <2>2. /\ call[p].op = "open" /\ call[p].wellformed /\ "present" \in seen[p]
        /\ Target(call[p]) \notin has => "absent" \in seen[p]
    BY <2>1 DEF InvH, Inv, Waits, Recalls, Now, Contract!Presence
  <2>3. PICK code \in {200, 403, 404} : /\ code = 404 => Target(call[p]) \notin has
                                        /\ Answer(p, Outcome("open", code))
    BY <1>2 DEF Follow
  <2>4. /\ Outcome("open", 200) = "ok" /\ Outcome("open", 403) = "error"
        /\ Outcome("open", 404) = "notexist"
    BY DEF Outcome, addErr, parseErr
  <2>5. Contract!Justified(p, "ok") /\ Contract!Justified(p, "error")
    BY <2>2 DEF Contract!Justified
  <2>6. Target(call[p]) \notin has => Contract!Justified(p, "notexist")
    BY <2>2 DEF Contract!Justified
  <2>7. Contract!Justified(p, Outcome("open", code))
    BY <2>3, <2>4, <2>5, <2>6
  <2>8. Loose' = Loose /\ UNCHANGED <<has, did>> /\ \A q \in Procs : Lost(q)' <=> Lost(q)
    BY <2>1 DEF Loose, Orphans, Lost, handler, store
  <2>9. ~Lost(p)
    BY <2>1 DEF Lost, InvH, Inv, TypeOK
  <2> QED BY <1>0, <2>1, <2>3, <2>7, <2>8, <2>9, Replies
<1> QED BY <1>1, <1>2

\* The caller takes its answer.
LEMMA ReturnRefines ==
  ASSUME InvH, NextH, NEW p \in Procs, Return(p)
  PROVE  Contract!Next
<1>1. /\ pc[p] = "done" /\ pc' = [pc EXCEPT ![p] = "idle"]
      /\ call' = [call EXCEPT ![p] = None] /\ ret' = [ret EXCEPT ![p] = None]
      /\ UNCHANGED <<via, handler, store>>
  BY DEF Return
<1>2. /\ call[p] # None /\ via[p] = None
      /\ \A q \in Procs : pc[q] # "idle" => Now(q) \in seen[q]
  BY <1>1, NothingAssumption DEF InvH, Inv, TypeOK, Waits, Recalls
<1>3. seen' = [seen EXCEPT ![p] = {}]
  <2>1. seen'[p] = {}
    BY <1>1 DEF NextH, InvH, Inv, TypeOK
  <2>2. \A q \in Procs \ {p} : seen'[q] = seen[q]
    BY <1>1, <1>2 DEF NextH, Now, Contract!Presence, InvH, Inv, TypeOK, Recalls, store
  <2> QED BY <2>1, <2>2 DEF NextH, InvH
<1>4. made' = made \ {p}
  <2>1. \A q \in Procs : pc[q] = "idle" => q \notin made
    BY DEF InvH, Recalls
  <2>2. \A q \in Procs : via[q] \in did => q \in made
    BY HandlersAssumption DEF InvH, Inv, StoreOK, Recalls
  <2>3. \A q \in Procs : q \in made' <=> q \in made /\ q # p
    BY <1>1, <2>1, <2>2 DEF NextH, InvH, Inv, TypeOK, store
  <2> QED BY <2>3 DEF NextH, InvH
<1>5. Answers' = [Answers EXCEPT ![p] = None]
  <2>1. ~Lost(p) /\ \A q \in Procs : Lost(q)' <=> Lost(q)
    BY <1>1, <1>2 DEF Lost, handler, store
  <2> QED BY <1>1, <2>1 DEF Answers, InvH, Inv, TypeOK
<1>6. Loose' = Loose /\ UNCHANGED has
  BY <1>1 DEF Loose, Orphans, handler, store
<1>7. Contract!Leave(p)
  BY <1>1, <1>2, <1>3, <1>4, <1>5, <1>6 DEF Contract!Leave
<1> QED BY <1>7 DEF Contract!Next

\* A connection that breaks ends the call with an error, and its key may be loose.
LEMMA BreakRefines ==
  ASSUME InvH, NextH, NEW p \in Procs, Break(p)
  PROVE  [Contract!Next]_Contract!vars
<1> DEFINE h == via[p]
<1>1. /\ pc[p] = "wait" /\ via' = [via EXCEPT ![p] = None] /\ UNCHANGED call
      /\ Answer(p, "error") /\ h # None
  BY DEF Break, InvH, Inv, TypeOK
<1>2. Contract!Justified(p, "error")
  BY DEF Contract!Justified, Refused
<1>3. CASE at[h] = "parse" /\ Free(h)
  <2>1. ~Lost(p)
    BY <1>3 DEF Lost
  <2> QED BY <1>1, <1>2, <1>3, <2>1, FreesOwn, Replies DEF Results
<1>4. CASE UNCHANGED <<at, req, store>>
  <2>1. /\ h \in Handlers /\ at[h] # "free" /\ req[h] = call[p]
        /\ \A q \in Procs : q # p => via[q] # h
    BY <1>1, Connected
  <2>2. \A g \in Handlers : g \in Orphans' <=> g \in Orphans \/ g = h
    BY <1>1, <1>4, <2>1, HandlersAssumption DEF Orphans, InvH, Inv, TypeOK
  <2>3. Orphans' = Orphans \cup {h}
    BY <2>1, <2>2 DEF Orphans
  <2>4. \/ Loose' = Loose
        \/ /\ call[p].op \in {"add", "label", "erase"} /\ outcome[h] = None
           /\ Loose' = Loose \cup {Target(call[p])}
    BY <1>4, <2>1, <2>3 DEF Loose, store
  <2>5. UNCHANGED <<has, did>>
    BY <1>4 DEF store
  <2>6. \A q \in Procs \ {p} : Lost(q)' <=> Lost(q)
    BY <1>1, <1>4 DEF Lost, store, InvH, Inv, TypeOK
  <2>7. CASE Lost(p)
    <3>1. outcome[h] # None
      BY <2>7, NothingAssumption DEF Lost, Results
    <3> QED BY <1>1, <2>4, <2>5, <2>6, <2>7, <3>1, Confirms
  <2>8. CASE ~Lost(p)
    BY <1>1, <1>2, <2>4, <2>5, <2>6, <2>8, Replies DEF Results
  <2> QED BY <2>7, <2>8
<1> QED BY <1>3, <1>4 DEF Break, handler

\* What a handler does before and between its calls of the store is none of the
\* contract.
LEMMA PartsRefine ==
  ASSUME InvH, NextH, NEW h \in Handlers, Parse(h) \/ Fallback(h) \/ Stream(h)
  PROVE  UNCHANGED Contract!vars
<1>1. /\ UNCHANGED <<req, client>> /\ at[h] # "free" /\ at'[h] # "free"
      /\ \A g \in Handlers \ {h} : at'[g] = at[g]
  BY DEF Parse, Fallback, Stream, Goto, InvH, Inv, TypeOK
<1>2. /\ UNCHANGED <<has, loose>> /\ did' \subseteq did
      /\ \A g \in Handlers \ {h} : outcome'[g] = outcome[g]
      /\ at'[h] = "serve" => outcome'[h] = None
      /\ outcome'[h] = outcome[h] \/ req[h].op = "open"
  <2>1. CASE CallStore(h)
    <3>1. serving[h] = None /\ UNCHANGED <<has, did, outcome, loose>>
      BY <2>1, Calling DEF InvH
    <3>2. outcome[h] = None
      BY <3>1 DEF InvH, Inv, Serves
    <3> QED BY <3>1, <3>2
  <2>2. CASE Parse(h) /\ UNCHANGED store
    <3>1. outcome[h] = None
      BY <2>2 DEF Parse, InvH, Inv, Serves
    <3> QED BY <2>2, <3>1 DEF store
  <2>3. CASE Fallback(h)
    <3>1. at[h] = "presign" /\ at'[h] = "stream" /\ Backend!Leave(h)
      BY <2>3 DEF Fallback, Goto, InvH, Inv, TypeOK
    <3> QED BY <3>1 DEF Backend!Leave, InvH, Inv, Serves, StoreOK
  <2> QED BY <2>1, <2>2, <2>3 DEF Parse, Stream
<1>3. \A g \in Handlers : g \in Orphans' <=> g \in Orphans
  BY <1>1 DEF Orphans, client
<1>4. Orphans' = Orphans
  BY <1>3 DEF Orphans
<1>5. Loose' = Loose
  BY <1>1, <1>2, <1>4, LooseKept DEF Orphans, Writes
<1>6. at[h] # "serve"
  BY DEF Parse, Fallback, Stream
<1>7. \A q \in Procs : Lost(q)' <=> Lost(q)
  BY <1>1, <1>2, <1>6, NothingAssumption DEF Lost, client, InvH, Inv, TypeOK, Results
<1> QED BY <1>1, <1>2, <1>5, <1>7, Stutters DEF client

\* An orphan ends, and with it what it might still have written.
LEMMA AbandonRefines ==
  ASSUME InvH, NextH, NEW h \in Handlers, Abandon(h)
  PROVE  [Contract!Next]_Contract!vars
<1> DEFINE k == Target(req[h])
<1>1. h \in Orphans /\ Free(h) /\ UNCHANGED client
  BY DEF Abandon
<1>2. at' = [at EXCEPT ![h] = "free"] /\ req' = [req EXCEPT ![h] = None]
  BY <1>1 DEF Free
<1>3. UNCHANGED <<has, loose>> /\ did' \subseteq did /\ outcome' = [outcome EXCEPT ![h] = None]
  BY <1>1, Leaving DEF Free, InvH
<1>4. \A g \in Handlers : g \in Orphans' <=> g \in Orphans /\ g # h
  BY <1>1, <1>2 DEF Orphans, client, InvH, Inv, TypeOK
<1>5. Orphans' = Orphans \ {h}
  BY <1>4 DEF Orphans
<1>6. \A g \in Orphans' : req'[g] = req[g] /\ outcome'[g] = outcome[g]
  BY <1>2, <1>3, <1>5 DEF Orphans, InvH, Inv, TypeOK, StoreOK
<1>7. \A q \in Procs : Lost(q)' <=> Lost(q)
  BY <1>1, <1>2, <1>3 DEF Orphans, Lost, client, InvH, Inv, TypeOK, StoreOK
<1>8. CASE Writes(h) /\ outcome[h] = None
  <2>1. Loose' \in {Loose, Loose \ {k}} /\ k \in Loose
    <3>1. Loose' \subseteq Loose
      BY <1>3, <1>5, <1>6 DEF Loose
    <3>2. \A l \in Loose : l # k => l \in Loose'
      BY <1>3, <1>5, <1>6 DEF Loose
    <3> QED BY <1>1, <1>8, <3>1, <3>2, OrphansLoose
  <2>2. Contract!Becomes(has)
    BY <1>1, <1>3, Becoming DEF client
  <2>3. made' = made /\ UNCHANGED <<call, Answers>>
    BY <1>1, <1>3, <1>7, Making DEF client, Answers
  <2>4. Contract!Drift(k)
    BY <2>1, <2>2, <2>3 DEF Contract!Drift
  <2> QED BY <2>1, <2>4 DEF Contract!Next
<1>9. CASE ~(Writes(h) /\ outcome[h] = None)
  <2>1. Loose' = Loose
    BY <1>3, <1>5, <1>6, <1>9 DEF Loose, Writes
  <2> QED BY <1>1, <1>3, <1>7, <2>1, Stutters DEF client
<1> QED BY <1>8, <1>9

\* What a step of the store leaves of the keys, and of what is loose.
LEMMA StoreStepKeys ==
  ASSUME InvH, NEW h \in Handlers, StoreStep(h)
  PROVE  /\ \/ UNCHANGED has
            \/ Writes(h) /\ has' \in {has \cup {Target(req[h])}, has \ {Target(req[h])}}
         /\ \/ loose' = loose
            \/ /\ Writes(h) /\ UNCHANGED <<has, did>> /\ outcome'[h] = "error"
               /\ loose' = loose \cup {Target(req[h])}
<1>1. serving[h] = req[h]
  BY Working DEF InvH, Inv, Serves
<1>2. CASE Backend!Appear(h)
  BY <1>1, <1>2, Vocabulary DEF Backend!Appear, Backend!Becomes, Writes
<1>3. CASE Backend!Rewrite(h)
  BY <1>1, <1>3, Vocabulary DEF Backend!Rewrite, Backend!Becomes, Writes
<1>4. CASE Backend!Vanish(h)
  BY <1>1, <1>4, Vocabulary DEF Backend!Vanish, Backend!Becomes, Writes
<1>5. CASE Backend!Reply(h)
  BY <1>1, <1>5, Vocabulary DEF Backend!Reply, Writes, InvH, Inv, StoreOK
<1> QED BY <1>2, <1>3, <1>4, <1>5 DEF StoreStep

\* The store works on the request of an orphan: a write is what an error left behind.
LEMMA OrphanStepRefines ==
  ASSUME InvH, NextH, NEW h \in Orphans, StoreStep(h)
  PROVE  [Contract!Next]_Contract!vars
<1> DEFINE k == Target(req[h])
<1>1. h \in Handlers /\ UNCHANGED <<client, handler>> /\ \A q \in Procs : via[q] # h
  BY DEF StoreStep, Orphans
<1>2. /\ outcome[h] = None /\ did' \in {did, did \cup {h}}
      /\ \A g \in Handlers \ {h} : outcome'[g] = outcome[g]
  BY <1>1, Working DEF InvH
<1>3. made' = made /\ Contract!Becomes(has')
  BY <1>1, <1>2, Making, Becoming DEF client
<1>4. \A q \in Procs : Lost(q)' <=> Lost(q)
  BY <1>1, <1>2 DEF Lost, client, handler, InvH, Inv, TypeOK
<1>5. UNCHANGED <<call, Answers>>
  BY <1>1, <1>4 DEF Answers, client
<1>6. Orphans' = Orphans /\ UNCHANGED req
  BY <1>1 DEF Orphans, client, handler
<1>7. CASE Writes(h)
  <2>1. k \in Loose
    BY <1>2, <1>7, OrphansLoose
  <2>2. loose \subseteq loose' /\ loose' \subseteq loose \cup {k}
    BY <1>1, StoreStepKeys
  <2>3. Loose' \subseteq Loose
    BY <1>2, <1>6, <2>1, <2>2 DEF Loose, Orphans
  <2>4. \A l \in Loose : l # k => l \in Loose'
    BY <1>2, <1>6, <2>2 DEF Loose, Orphans
  <2>5. Loose' \in {Loose, Loose \ {k}}
    BY <2>1, <2>3, <2>4
  <2>6. has' \in {has, has \cup {k}, has \ {k}}
    BY <1>1, StoreStepKeys
  <2>7. Contract!Drift(k)
    BY <1>3, <1>5, <2>1, <2>5, <2>6 DEF Contract!Drift
  <2> QED BY <2>1, <2>7 DEF Contract!Next
<1>8. CASE ~Writes(h)
  <2>1. UNCHANGED <<has, loose>>
    BY <1>1, <1>8, StoreStepKeys
  <2>2. Loose' = Loose
    BY <1>2, <1>6, <1>8, <2>1, LooseKept DEF Orphans
  <2>3. seen' = seen
    BY <1>1, <2>1, Becoming DEF client
  <2> QED BY <1>3, <1>5, <2>1, <2>2, <2>3 DEF Contract!vars
<1> QED BY <1>7, <1>8

\* The store works on the request that p waits for: it changes the key for p, or has
\* an error for it, of which p will hear in one way or another.
LEMMA OwnStepRefines ==
  ASSUME InvH, NextH, NEW p \in Procs, NEW h \in Handlers, via[p] = h, StoreStep(h)
  PROVE  [Contract!Next]_Contract!vars
<1> DEFINE k == Target(req[h])
<1>1. UNCHANGED <<client, handler>>
  BY DEF StoreStep
<1>2. /\ pc[p] = "wait" /\ call[p] = req[h] /\ call[p] # None
      /\ (h \in did <=> p \in made) /\ known[h] \subseteq seen[p]
      /\ \A q \in Procs : via[q] = h <=> q = p
  BY Connected, HandlersAssumption
<1>3. /\ serving[h] = req[h] /\ req[h].wellformed /\ outcome[h] = None
      /\ did' \in {did, did \cup {h}}
      /\ \A g \in Handlers \ {h} : outcome'[g] = outcome[g]
      /\ outcome'[h] \in Results \cup {None}
  BY Working DEF InvH, Inv, Serves
<1>4. Contract!Becomes(has') /\ (has' = has => seen' = seen)
  BY <1>1, Becoming DEF client
<1>5. made' = made \cup {q \in Procs : via[q] = h /\ h \in did' /\ via[q] # None}
  BY <1>1, <1>3, Making DEF client
<1>6. \A q \in Procs \ {p} : Lost(q)' <=> Lost(q)
  BY <1>1, <1>2, <1>3 DEF Lost, client, handler, InvH, Inv, TypeOK
<1>7. ~Lost(p) /\ (Lost(p)' <=> at[h] = "serve" /\ outcome'[h] = "error")
  BY <1>1, <1>3, NothingAssumption, HandlersAssumption DEF Lost, client, handler, Results
<1>8. Answers[p] = None
  BY <1>2, <1>7 DEF Answers
<1>9. ASSUME loose' = loose PROVE Loose' = Loose
  <2>1. Orphans' = Orphans /\ h \notin Orphans /\ UNCHANGED req
    BY <1>1 DEF Orphans, client, handler
  <2> QED BY <1>3, <1>9, <2>1, LooseKept DEF Orphans
<1>10. ASSUME outcome'[h] # "error" PROVE Answers' = Answers /\ Loose' = Loose
  <2>1. loose' = loose
    BY <1>10, StoreStepKeys
  <2> QED BY <1>1, <1>6, <1>7, <1>9, <1>10, <2>1 DEF Answers, client
<1>11. CASE Backend!Appear(h)
  <2>1. /\ h \notin did /\ req[h].op = "add" /\ k = <<req[h].s, req[h].d>>
        /\ Exclusive => k \notin has
        /\ has' = has \cup {k} /\ did' = did \cup {h} /\ Backend!MayAnswer(h)
    BY <1>3, <1>11, Vocabulary DEF Backend!Appear, Backend!Becomes
  <2>2. outcome'[h] # "error"
    BY <1>3, <2>1, NothingAssumption DEF Backend!MayAnswer, InvH, Inv, StoreOK, Results
  <2>3. made' = made \cup {p} /\ p \notin made
    BY <1>2, <1>5, <2>1, HandlersAssumption
  <2>4. Contract!Appear(p)
    BY <1>1, <1>2, <1>3, <1>4, <1>8, <1>10, <2>1, <2>2, <2>3, Vocabulary
    DEF Contract!Appear, Contract!MayAnswer, client
  <2> QED BY <2>4 DEF Contract!Next
<1>12. CASE Backend!Rewrite(h) \/ Backend!Vanish(h)
  <2>1. /\ did' = did /\ Backend!MayAnswer(h)
        /\ \/ /\ ~Exclusive /\ req[h].op = "label" /\ "present" \in known[h]
              /\ has' = has \cup {k}
           \/ req[h].op = "erase" /\ k \in has /\ has' = has \ {k}
    BY <1>3, <1>12, Vocabulary DEF Backend!Rewrite, Backend!Vanish, Backend!Becomes
  <2>2. outcome'[h] # "error"
    BY <1>3, <2>1, NothingAssumption DEF Backend!MayAnswer, InvH, Inv, StoreOK, Results
  <2>3. made' = made
    BY <1>2, <1>5, <2>1
  <2>4. Contract!Rewrite(p) \/ Contract!Vanish(p)
    BY <1>1, <1>2, <1>3, <1>4, <1>8, <1>10, <2>1, <2>2, <2>3, Vocabulary
    DEF Contract!Rewrite, Contract!Vanish, Contract!MayAnswer, client
  <2> QED BY <2>4 DEF Contract!Next
<1>13. CASE Backend!Reply(h)
  <2>1. UNCHANGED <<has, did>>
    BY <1>13 DEF Backend!Reply
  <2>2. made' = made /\ seen' = seen
    BY <1>2, <1>4, <1>5, <2>1
  <2>3. CASE outcome'[h] # "error"
    BY <1>1, <1>10, <2>1, <2>2, <2>3 DEF Contract!vars, client
  <2>4. CASE outcome'[h] = "error" /\ at[h] # "serve"
    <3>1. ~Writes(h)
      <4>1. at[h] = "presign"
        BY <1>2, <1>3, <2>4 DEF InvH, Inv, Serves
      <4> QED BY <4>1 DEF Writes, InvH, Inv, Serves
    <3>2. loose' = loose
      BY <3>1, StoreStepKeys
    <3>3. Answers' = Answers
      BY <1>1, <1>6, <1>7, <2>4 DEF Answers, client
    <3> QED BY <1>1, <1>9, <2>1, <2>2, <3>2, <3>3 DEF Contract!vars, client
  <2>5. CASE outcome'[h] = "error" /\ at[h] = "serve"
    <3>1. Lost(p)'
      BY <1>7, <2>5
    <3>2. Answers' = [Answers EXCEPT ![p] = "error"]
      BY <1>1, <1>2, <1>6, <3>1 DEF Answers, client
    <3>3. Contract!Justified(p, "error")
      BY DEF Contract!Justified, Refused
    <3>4. \/ Loose' = Loose
          \/ /\ call[p].op \in {"add", "label", "erase"}
             /\ Loose' = Loose \cup {Contract!Target(call[p])}
      <4>1. CASE loose' = loose
        BY <1>9, <4>1
      <4>2. CASE Writes(h) /\ loose' = loose \cup {k}
        <5>1. Orphans' = Orphans /\ h \notin Orphans /\ UNCHANGED req
          BY <1>1, <1>2 DEF Orphans, client, handler
        <5>2. \A g \in Orphans : outcome'[g] = outcome[g]
          BY <1>3, <5>1 DEF Orphans
        <5>3. Loose' = Loose \cup {k}
          BY <4>2, <5>1, <5>2 DEF Loose
        <5> QED BY <1>2, <4>2, <5>3, Vocabulary DEF Writes
      <4> QED BY <4>1, <4>2, StoreStepKeys
    <3>5. "error" \in Contract!Results
      BY DEF Contract!Results
    <3>6. Contract!Reply(p)
      BY <1>1, <1>2, <1>8, <2>1, <2>2, <3>2, <3>3, <3>4, <3>5 DEF Contract!Reply, client
    <3> QED BY <3>6 DEF Contract!Next
  <2> QED BY <2>3, <2>4, <2>5
<1> QED BY <1>11, <1>12, <1>13 DEF StoreStep

\* The store works on a request: for the client that waits, or for nobody.
LEMMA StoreStepRefines ==
  ASSUME InvH, NextH, NEW h \in Handlers, StoreStep(h)
  PROVE  [Contract!Next]_Contract!vars
<1>1. at[h] # "free"
  BY Working DEF InvH, Inv, Serves
<1> QED BY <1>1, OrphanStepRefines, OwnStepRefines DEF Orphans

\* A late write of the store behind is one of the contract.
LEMMA LateRefines ==
  ASSUME InvH, NextH, Late
  PROVE  Contract!Next
<1>1. PICK k \in loose : Backend!Drift(k)
  BY DEF Late
<1>2. /\ has' \in {has, has \cup {k}, has \ {k}} /\ loose' \in {loose, loose \ {k}}
      /\ UNCHANGED <<did, outcome>>
  BY <1>1 DEF Backend!Drift, Backend!Becomes
<1>3. UNCHANGED <<client, handler>>
  BY DEF Late
<1>4. made' = made /\ Contract!Becomes(has')
  BY <1>2, <1>3, Making, Becoming DEF client
<1>5. UNCHANGED <<call, Answers>>
  BY <1>2, <1>3 DEF Answers, Lost, client, handler
<1>6. Orphans' = Orphans /\ UNCHANGED req
  BY <1>3 DEF Orphans, client, handler
<1>7. k \in Loose /\ Loose' \in {Loose, Loose \ {k}}
  <2>1. k \in Loose
    BY DEF Loose
  <2>2. Loose' \subseteq Loose
    BY <1>2, <1>6 DEF Loose
  <2>3. \A l \in Loose : l # k => l \in Loose'
    BY <1>2, <1>6 DEF Loose
  <2> QED BY <2>1, <2>2, <2>3
<1>8. Contract!Drift(k)
  BY <1>2, <1>4, <1>5, <1>7 DEF Contract!Drift
<1> QED BY <1>7, <1>8 DEF Contract!Next

\* While a client waits, its handler forgets no Add, and learns only what is the case.
LEMMA HandlerKept ==
  ASSUME InvH, NextH, NEW p \in Procs, via[p] # None, via'[p] # None
  PROVE  /\ via'[p] = via[p] /\ call'[p] = call[p]
         /\ via[p] \in did => via[p] \in did'
         /\ known'[via[p]] \subseteq known[via[p]] \cup {Now(p)'}
<1> DEFINE h == via[p]
<1>1. /\ pc[p] = "wait" /\ h \in Handlers /\ at[h] # "free" /\ req[h] = call[p]
      /\ serving[h] \in {call[p], None} /\ \A q \in Procs : q # p => via[q] # h
  BY Connected
<1>2. ASSUME NEW g \in Handlers, g # h, Free(g)
      PROVE  (h \in did => h \in did') /\ known'[h] = known[h]
  BY <1>1, <1>2, Leaving DEF Free, InvH, Inv, StoreOK
<1>3. ASSUME NEW q \in Procs, Send(q) \/ Follow(q) \/ Return(q)
      PROVE  via'[p] = h /\ call'[p] = call[p] /\ UNCHANGED store
  <2>1. q # p
    BY <1>1, <1>3 DEF Send, Follow, Return
  <2> QED BY <1>3, <2>1 DEF Send, Follow, Return, InvH, Inv, TypeOK
<1>4. ASSUME NEW q \in Procs, Receive(q) \/ Break(q)
      PROVE  /\ via'[p] = h /\ call'[p] = call[p]
             /\ (h \in did => h \in did') /\ known'[h] = known[h]
  <2>1. via' = [via EXCEPT ![q] = None] /\ UNCHANGED call /\ pc[q] = "wait"
    BY <1>4 DEF Receive, Break
  <2>2. q # p /\ via'[p] = h
    BY <2>1 DEF InvH, Inv, TypeOK
  <2>3. Free(via[q]) \/ UNCHANGED store
    BY <1>4 DEF Receive, Break
  <2>4. via[q] # h /\ via[q] \in Handlers
    BY <1>1, <2>1, <2>2 DEF InvH, Inv, TypeOK
  <2> QED BY <1>2, <2>1, <2>2, <2>3, <2>4 DEF store
<1>5. ASSUME NEW g \in Handlers, Parse(g) \/ Stream(g) \/ Fallback(g)
      PROVE  /\ UNCHANGED client /\ (h \in did => h \in did')
             /\ known'[h] \subseteq known[h] \cup {Now(p)'}
  <2>1. UNCHANGED client
    BY <1>5 DEF Parse, Stream, Fallback
  <2>2. CASE CallStore(g)
    <3>1. /\ known' = [known EXCEPT ![g] = {Contract!Presence(Target(req[g]), has)}]
          /\ UNCHANGED <<has, did>>
      BY <1>5, <2>2, Calling DEF InvH
    <3> QED BY <1>1, <2>1, <3>1 DEF Now, client, InvH, Inv, StoreOK
  <2>3. CASE UNCHANGED store
    BY <2>1, <2>3 DEF store
  <2>4. CASE Fallback(g)
    <3>1. at[g] = "presign" /\ Backend!Leave(g)
      BY <2>4 DEF Fallback
    <3>2. g \notin did
      BY <1>5, <3>1 DEF InvH, Inv, Serves
    <3> QED BY <1>1, <2>1, <3>1, <3>2 DEF Backend!Leave, InvH, Inv, StoreOK
  <2> QED BY <1>5, <2>2, <2>3, <2>4 DEF Parse, Stream
<1>6. ASSUME NEW g \in Handlers, Abandon(g)
      PROVE  UNCHANGED client /\ (h \in did => h \in did') /\ known'[h] = known[h]
  BY <1>2, <1>6 DEF Abandon, Orphans
<1>7. ASSUME NEW g \in Handlers, StoreStep(g)
      PROVE  /\ UNCHANGED client /\ (h \in did => h \in did')
             /\ known'[h] \subseteq known[h] \cup {Now(p)'}
  <2>1. UNCHANGED client
    BY <1>7 DEF StoreStep
  <2>2. /\ did' \in {did, did \cup {g}}
        /\ known'[h] \subseteq known[h] \cup {Contract!Presence(Target(serving[h]), has')}
        /\ serving[h] = None => known'[h] = known[h]
    BY <1>1, <1>7, Working DEF InvH
  <2> QED BY <1>1, <2>1, <2>2 DEF Now, client
<1>8. ASSUME Late
      PROVE  /\ UNCHANGED client /\ (h \in did => h \in did')
             /\ known'[h] \subseteq known[h] \cup {Now(p)'}
  BY <1>1, <1>8, Drifting DEF Now, client, InvH
<1> QED BY <1>3, <1>4, <1>5, <1>6, <1>7, <1>8 DEF NextH, Next, client, store

\* The history stays what the handlers know.
LEMMA RecallsInv ==
  ASSUME InvH, NextH, NEW p \in Procs
  PROVE  Recalls(p)'
<1>1. Inv'
  BY NextInv DEF NextH, InvH
<1>2. /\ pc'[p] = "idle" => seen'[p] = {} /\ p \notin made'
      /\ pc'[p] # "idle" => Now(p)' \in seen'[p] /\ seen[p] \subseteq seen'[p]
      /\ p \in made' <=> pc'[p] # "idle" /\ (p \in made \/ via[p] \in did')
  BY DEF NextH, Now, Contract!Presence
<1>3. ASSUME pc'[p] = "follow" PROVE "present" \in seen'[p]
  <2>1. CASE pc[p] = "follow"
    BY <1>2, <1>3, <2>1 DEF InvH, Recalls
  <2>2. CASE pc[p] # "follow"
    <3>1. Receive(p) /\ Code(via[p]) = 307
      BY <1>3, <2>2 DEF NextH, Next, Send, Receive, Follow, Return, Break, Answer, Parse, Fallback,
                        Stream, Abandon, StoreStep, Late, client, InvH, Inv, TypeOK
    <3>2. via[p] # None /\ Code(via[p]) # None
      BY <3>1 DEF Receive, InvH, Inv, TypeOK
    <3> QED BY <1>2, <1>3, <3>1, <3>2, CodesJustified
  <2> QED BY <2>1, <2>2
<1>4. ASSUME via'[p] # None
      PROVE  known'[via'[p]] \subseteq seen'[p] /\ (via'[p] \in did' <=> p \in made')
  <2>1. pc'[p] = "wait"
    BY <1>1, <1>4 DEF Inv, TypeOK
  <2>2. CASE via[p] # None
    BY <1>2, <1>4, <2>1, <2>2, HandlerKept, Connected
  <2>3. CASE via[p] = None
    <3>1. Send(p)
      BY <1>4, <2>3 DEF NextH, Next, Send, Receive, Follow, Return, Break, Parse, Fallback,
                        Stream, Abandon, StoreStep, Late, client, InvH, Inv, TypeOK
    <3>2. via'[p] \in Handlers /\ at[via'[p]] = "free" /\ pc[p] = "idle" /\ UNCHANGED store
      BY <3>1 DEF Send, InvH, Inv, TypeOK
    <3>3. known'[via'[p]] = {} /\ via'[p] \notin did'
      BY <3>2 DEF store, InvH, Inv, Serves
    <3>4. p \notin made /\ via[p] \notin did'
      BY <2>3, <3>2, HandlersAssumption DEF store, InvH, Inv, StoreOK, Recalls
    <3> QED BY <1>2, <3>3, <3>4
  <2> QED BY <2>2, <2>3
<1> QED BY <1>2, <1>3, <1>4 DEF Recalls

\* The inductive invariant with the history: what a client will be told by its
\* handler is recalled of its call.
THEOREM HistoryInvariance == SpecH => []InvH
<1>1. InitH => InvH
  <2> SUFFICES ASSUME InitH PROVE InvH
    OBVIOUS
  <2>1. Inv
    BY InitInv DEF InitH
  <2> QED BY <2>1 DEF InitH, Init, InvH, Recalls
<1>2. InvH /\ [NextH]_<<vars, seen, made>> => InvH'
  <2> SUFFICES ASSUME InvH, [NextH]_<<vars, seen, made>> PROVE InvH'
    OBVIOUS
  <2>1. CASE UNCHANGED <<vars, seen, made>>
    <3>1. Inv'
      BY <2>1, NextInv DEF InvH
    <3> QED BY <2>1, <3>1 DEF vars, client, store, InvH, Recalls, Now, Contract!Presence
  <2>2. CASE NextH
    <3>1. Inv'
      BY <2>2, NextInv DEF NextH, InvH
    <3>2. seen' \in [Procs -> SUBSET {"present", "absent"}] /\ made' \subseteq Procs
      BY <2>2 DEF NextH, InvH
    <3> QED BY <2>2, <3>1, <3>2, RecallsInv DEF InvH
  <2> QED BY <2>1, <2>2
<1> QED BY <1>1, <1>2, PTL DEF SpecH

\* KeepsContract: HttpStore implements the contract of a remote store whenever the
\* store behind the handler implements that of a local or of a remote one, redirects or
\* not, for any number of clients and handlers and however many connections break.  A
\* key changes when the store behind the handler changes it: for the client that waits,
\* or as what an error has left behind.
THEOREM Refinement == SpecH => KeepsContract
<1>1. InitH => Contract!Init
  <2> SUFFICES ASSUME InitH PROVE Contract!Init
    OBVIOUS
  <2>1. Loose = {}
    BY DEF InitH, Init, Backend!Init, Loose, Orphans
  <2>2. \A p \in Procs : ~Lost(p)
    BY DEF InitH, Init, Lost
  <2> QED BY <2>1, <2>2 DEF InitH, Init, Backend!Init, Contract!Init, Answers
<1>2. InvH /\ [NextH]_<<vars, seen, made>> => [Contract!Next]_Contract!vars
  <2> SUFFICES ASSUME InvH, [NextH]_<<vars, seen, made>> PROVE [Contract!Next]_Contract!vars
    OBVIOUS
  <2>1. CASE UNCHANGED <<vars, seen, made>>
    BY <2>1 DEF vars, client, handler, store, Contract!vars, Loose, Orphans, Answers, Lost
  <2>2. CASE NextH
    BY <2>2, SendRefines, ReceiveRefines, ReturnRefines, BreakRefines, PartsRefine,
       AbandonRefines, StoreStepRefines, LateRefines DEF NextH, Next
  <2> QED BY <2>1, <2>2
<1> QED BY <1>1, <1>2, HistoryInvariance, PTL DEF SpecH, KeepsContract, Contract!Spec
=============================================================================
