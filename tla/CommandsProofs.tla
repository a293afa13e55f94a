--------------------------- MODULE CommandsProofs ---------------------------
(***************************************************************************)
(* Proofs about Commands, for any number of files, clients, digests and    *)
(* any --parallel: what the layers answer is true, standard input goes     *)
(* into one blob at most, and the exit code of `flob add' tells what was   *)
(* written and what failed.                                                *)
(***************************************************************************)
EXTENDS CommandsContract, FiniteSetTheorems, TLAPS

-----------------------------------------------------------------------------
(***************************************************************************)
(* The inductive invariant of a call.                                      *)
(***************************************************************************)
Types ==
    /\ pc \in [Procs -> PCs]
    /\ call \in [Procs -> Calls \cup {None}]
    /\ layer \in [Procs -> Layers \cup {None}]
    /\ ret \in [Procs -> Results \cup {None}]
    /\ inner \in [Procs -> Calls \cup {None}]
    /\ known \in [Procs -> SUBSET {"present", "absent"}]
    /\ did \subseteq Procs
    /\ outcome \in [Procs -> Results \cup {None}]
    /\ made \subseteq Procs

\* The stages of a call, and what it is there.
Staged(p) ==
    /\ pc[p] = "idle" => call[p] = None /\ ret[p] = None
    /\ pc[p] \notin {"idle", "done"} => call[p] # None /\ ret[p] = None
    /\ pc[p] = "done" => ret[p] # None /\ (call[p] = None => ret[p] = "error")
    /\ pc[p] \in {"check", "checking", "check2", "checking2"} =>
         call[p].op = "add" /\ call[p].given # None /\ layer[p] = "check"
    /\ pc[p] \in {"call2", "calling2", "copy"} => call[p].op \in {"get", "open"}
    /\ pc[p] \in {"check2", "call2"} => secondary # "none"
    /\ pc[p] \in {"checking2", "calling2"} => secondary = "same"

\* The backend is asked on behalf of the call, and answers as its contract says.
Asks(p) ==
    /\ pc[p] = "checking" => inner[p] = Existence(call[p])
    /\ pc[p] = "checking2" => inner[p] = [Existence(call[p]) EXCEPT !.s = SecondaryId]
    /\ pc[p] = "calling" => inner[p] = call[p]
    /\ pc[p] = "calling2" => inner[p] = [call[p] EXCEPT !.s = SecondaryId]
    /\ pc[p] \notin {"checking", "checking2", "calling", "calling2"} => inner[p] = None
    /\ inner[p] = None => outcome[p] = None /\ p \notin did
    /\ p \in did => pc[p] = "calling"
    /\ outcome[p] # None => Backend!Justified(p, outcome[p])

\* The calls that a fallback passes on, and the ones that may ask both stores.
Reads(p) == call[p].op \in {"get", "open"}
Twice(p) == secondary # "none" /\ LooksTwice(layer[p], call[p].op)

\* The history has what the backend has seen in the call, and tells what it did.
Recalls(p) ==
    /\ pc[p] \in {"checking", "calling"} => known[p] \subseteq seen[p]
    /\ pc[p] \in {"checking2", "calling2"} => known[p] \subseteq seen2[p]
    /\ pc[p] = "copy" =>
         "present" \in seen[p] \/ (secondary = "same" /\ "present" \in seen2[p])
    /\ pc[p] \in {"call2", "calling2"} /\ call[p].wellformed =>
         "absent" \in seen[p] \/ p \in broke
    /\ call[p] # None /\ Reads(p) /\ outcome[p] = "error" => p \in broke
    /\ p \in made => /\ pc[p] \in {"calling", "done"} /\ call[p] # None
                     /\ call[p].op = "add" /\ call[p].given \in {None, call[p].d}
                     /\ "present" \in seen[p]
    /\ pc[p] = "calling" => (p \in made <=> p \in did)

Caller(p) ==
    /\ Staged(p) /\ Asks(p) /\ Recalls(p)
    /\ pc[p] = "done" /\ call[p] # None => Supported(p)

Inv == Types /\ \A p \in Procs : Caller(p)

\* The vocabulary of the contract is that of the store.
LEMMA Vocabulary ==
  /\ Backend!Calls = Calls /\ Backend!Results = Results
  /\ \A c : Backend!Target(c) = Target(c) /\ (Backend!Sensible(c) <=> Sensible(c))
BY DEF Backend!Calls, Calls, Backend!Results, Results, Backend!Target, Target,
       Backend!Sensible, Sensible

\* What the history is about: the key of the call in its own store and in the secondary.
Now(k) == Backend!Presence(k, has)
Key2(p) == <<SecondaryId, Target(call[p])[2]>>

\* An answer of the backend stays right while its call lasts.
LEMMA JustifiedStays ==
  ASSUME NEW p \in Procs, NEW r \in Results, Backend!Justified(p, r),
         inner'[p] = inner[p], known[p] \subseteq known'[p], p \in did' <=> p \in did
  PROVE  Backend!Justified(p, r)'
<1>1. CASE ~inner[p].wellformed
  BY <1>1 DEF Backend!Justified, Backend!Refusal
<1>2. CASE inner[p].wellformed
  <2>1. r \in {"ok", "exists", "notexist", "mismatch", "error"}
    BY DEF Results
  <2>2. CASE r = "ok"
    BY <1>2, <2>2 DEF Backend!Justified
  <2>3. CASE r = "exists"
    BY <1>2, <2>3 DEF Backend!Justified
  <2>4. CASE r = "notexist"
    BY <1>2, <2>4 DEF Backend!Justified
  <2>5. CASE r = "mismatch"
    BY <1>2, <2>5 DEF Backend!Justified
  <2>6. CASE r = "error"
    BY <1>2, <2>6 DEF Backend!Justified
  <2> QED BY <2>1, <2>2, <2>3, <2>4, <2>5, <2>6
<1> QED BY <1>1, <1>2

\* The key that a backend is asked for is that of the call, in the store that is asked.
LEMMA InnerKey ==
  ASSUME Inv, NEW p \in Procs
  PROVE  /\ pc[p] \in {"checking", "calling"} => Target(inner[p]) = Target(call[p])
         /\ pc[p] \in {"checking2", "calling2"} => Target(inner[p]) = Key2(p)
<1>1. pc[p] \notin {"idle", "done"} => call[p] \in Calls
  BY DEF Inv, Types, Caller, Staged
<1>2. CASE pc[p] \in {"checking", "checking2"}
  <2>1. call[p] \in Calls /\ call[p].given # None
    BY <1>1, <1>2 DEF Inv, Caller, Staged
  <2>2. /\ Existence(call[p]).s = call[p].s /\ Existence(call[p]).given = call[p].given
        /\ [Existence(call[p]) EXCEPT !.s = SecondaryId].s = SecondaryId
        /\ [Existence(call[p]) EXCEPT !.s = SecondaryId].given = call[p].given
    BY <2>1 DEF Existence, Calls
  <2> QED BY <1>2, <2>1, <2>2 DEF Inv, Caller, Asks, Target, Key2
<1>3. CASE pc[p] = "calling"
  BY <1>3 DEF Inv, Caller, Asks
<1>4. CASE pc[p] = "calling2"
  <2>1. LET c == [call[p] EXCEPT !.s = SecondaryId] IN
          c.s = SecondaryId /\ c.given = call[p].given /\ c.d = call[p].d
    BY <1>1, <1>4 DEF Calls
  <2> QED BY <1>4, <2>1 DEF Inv, Caller, Asks, Target, Key2
<1> QED BY <1>2, <1>3, <1>4

\* The history of a call that goes on grows, by what is the case now.
LEMMA HistoryGrows ==
  ASSUME Inv, NextH, NEW p \in Procs, pc[p] \notin {"idle", "prepare"},
         call[p] # None, call'[p] = call[p], layer'[p] = layer[p], UNCHANGED secondary
  PROVE  /\ seen[p] \subseteq seen'[p] /\ Now(Target(call[p]))' \in seen'[p]
         /\ Twice(p) => seen2[p] \subseteq seen2'[p] /\ Now(Key2(p))' \in seen2'[p]
         /\ Reads(p) /\ p \in broke => p \in broke'
         /\ p \in made' <=> p \in made \/ p \in did'
<1>1. Target(call[p])' = Target(call[p]) /\ Key2(p)' = Key2(p)
  BY DEF Target, Key2
<1>2. /\ seen[p] \subseteq seen'[p] /\ Now(Target(call[p]))' \in seen'[p]
      /\ p \in made' <=> p \in made \/ p \in did'
  BY <1>1 DEF NextH, Recorded, Now, Backend!Presence
<1>3. Twice(p) => seen2[p] \subseteq seen2'[p] /\ Now(Key2(p))' \in seen2'[p]
  BY <1>1 DEF NextH, Recorded, Now, Backend!Presence, Key2, Twice
<1>4. Reads(p) /\ p \in broke => p \in broke'
  BY DEF NextH, Reads
<1> QED BY <1>2, <1>3, <1>4

\* A Get or an Open one of whose backends fails is known to have broken.
LEMMA BreakTells ==
  ASSUME NextH, NEW p \in Procs, call'[p] # None, Reads(p)', outcome'[p] = "error"
  PROVE  p \in broke'
BY DEF NextH, Reads

\* What was answered stays true, as the history only grows.
LEMMA SupportedStays ==
  ASSUME NEW p \in Procs, Supported(p), ret[p] \in Results,
         call'[p] = call[p], ret'[p] = ret[p], layer'[p] = layer[p], UNCHANGED secondary,
         seen[p] \subseteq seen'[p], p \in made' <=> p \in made,
         Twice(p) => seen2[p] \subseteq seen2'[p], Reads(p) /\ p \in broke => p \in broke'
  PROVE  Supported(p)'
<1> USE DEF Twice, LooksTwice, Reads
<1>1. ret[p] \in {"ok", "exists", "notexist", "mismatch", "error"}
  BY DEF Results
<1>2. CASE ret[p] = "ok"
  BY <1>2 DEF Supported
<1>3. CASE ret[p] = "exists"
  BY <1>3 DEF Supported
<1>4. CASE ret[p] = "notexist"
  BY <1>4 DEF Supported
<1>5. CASE ret[p] = "mismatch"
  BY <1>5 DEF Supported
<1>6. CASE ret[p] = "error"
  BY <1>6 DEF Supported
<1> QED BY <1>1, <1>2, <1>3, <1>4, <1>5, <1>6

-----------------------------------------------------------------------------
(***************************************************************************)
(* Every step keeps the invariant of every call.                           *)
(***************************************************************************)

\* A call that stays where it is, while its backend works.
LEMMA CallerKept ==
  ASSUME Inv, NextH, NEW q \in Procs, UNCHANGED secondary,
         pc'[q] = pc[q], call'[q] = call[q], layer'[q] = layer[q], ret'[q] = ret[q],
         inner'[q] = inner[q], known[q] \subseteq known'[q],
         known'[q] \subseteq known[q] \cup {Backend!Presence(Target(inner[q]), has')},
         q \in did => q \in did',
         q \in did' \ did => /\ inner[q].op = "add" /\ Target(inner[q])[2] = inner[q].d
                             /\ "present" \in known'[q],
         inner[q] = None => outcome'[q] = None /\ q \notin did',
         outcome'[q] # None => Backend!Justified(q, outcome[q])'
  PROVE  Caller(q)'
<1>1. Staged(q)'
  BY DEF Inv, Caller, Staged
<1>2. q \in did' => pc[q] = "calling"
  <2>1. pc[q] \in {"checking", "checking2", "calling2"} /\ call[q] \in Calls => inner[q].op # "add"
    BY DEF Inv, Caller, Staged, Asks, Existence, Calls
  <2> QED BY <2>1 DEF Inv, Caller, Asks, Types, Staged
<1>3. Asks(q)'
  BY <1>2 DEF Inv, Caller, Asks, Existence
<1>4. CASE call[q] = None \/ pc[q] = "prepare"
  <2>1. pc[q] \in {"idle", "done", "prepare"} /\ q \notin made /\ q \notin did'
    BY <1>2, <1>4 DEF Inv, Caller, Staged, Recalls
  <2>2. q \notin made'
    BY <2>1 DEF NextH
  <2>3. Recalls(q)'
    BY <2>1, <2>2, BreakTells DEF Recalls
  <2> QED BY <1>1, <1>3, <1>4, <2>3 DEF Caller
<1>5. CASE call[q] # None /\ pc[q] # "prepare"
  <2>0. pc[q] # "idle" /\ call[q] \in Calls
    BY <1>5 DEF Inv, Caller, Staged, Types
  <2>1. /\ seen[q] \subseteq seen'[q] /\ Now(Target(call[q]))' \in seen'[q]
        /\ Twice(q) => seen2[q] \subseteq seen2'[q] /\ Now(Key2(q))' \in seen2'[q]
        /\ Reads(q) /\ q \in broke => q \in broke'
        /\ q \in made' <=> q \in made \/ q \in did'
    BY <1>5, <2>0, HistoryGrows
  <2>2. pc[q] \in {"checking", "calling"} => known'[q] \subseteq seen'[q]
    <3> SUFFICES ASSUME pc[q] \in {"checking", "calling"} PROVE known'[q] \subseteq seen'[q]
      OBVIOUS
    <3>1. Target(inner[q]) = Target(call[q]) /\ known[q] \subseteq seen[q]
      BY InnerKey DEF Inv, Caller, Recalls
    <3>2. Now(Target(call[q]))' = Backend!Presence(Target(inner[q]), has')
      BY <3>1 DEF Now, Backend!Presence, Target
    <3> QED BY <2>1, <3>1, <3>2
  <2>3. pc[q] \in {"checking2", "calling2"} => known'[q] \subseteq seen2'[q]
    <3> SUFFICES ASSUME pc[q] \in {"checking2", "calling2"} PROVE known'[q] \subseteq seen2'[q]
      OBVIOUS
    <3>1. Target(inner[q]) = Key2(q) /\ known[q] \subseteq seen2[q]
      BY InnerKey DEF Inv, Caller, Recalls
    <3>2. Now(Key2(q))' = Backend!Presence(Target(inner[q]), has')
      BY <3>1 DEF Now, Backend!Presence, Key2, Target
    <3>3. Twice(q)
      BY DEF Inv, Caller, Staged, Twice, LooksTwice
    <3> QED BY <2>1, <3>1, <3>2, <3>3
  <2>4. /\ pc[q] = "copy" =>
             "present" \in seen'[q] \/ (secondary = "same" /\ "present" \in seen2'[q])
        /\ pc[q] \in {"call2", "calling2"} /\ call[q].wellformed =>
             "absent" \in seen'[q] \/ q \in broke'
    BY <2>1 DEF Inv, Caller, Staged, Recalls, Reads, Twice, LooksTwice
  <2>5. ASSUME q \in made'
        PROVE  /\ pc[q] \in {"calling", "done"} /\ call[q].op = "add"
               /\ call[q].given \in {None, call[q].d} /\ "present" \in seen'[q]
    <3>1. CASE q \in made
      BY <2>1, <3>1 DEF Inv, Caller, Recalls
    <3>2. CASE q \notin made
      <4>1. pc[q] = "calling" /\ q \in did' \ did
        BY <1>2, <2>1, <2>5, <3>2 DEF Inv, Caller, Recalls
      <4>2. inner[q] = call[q]
        BY <4>1 DEF Inv, Caller, Asks
      <4>3. call[q].given \in {None, call[q].d}
        BY <4>1, <4>2 DEF Target
      <4> QED BY <2>2, <4>1, <4>2, <4>3
    <3> QED BY <3>1, <3>2
  <2>6. pc[q] = "calling" => (q \in made' <=> q \in did')
    BY <2>1 DEF Inv, Caller, Recalls
  <2>7. Recalls(q)'
    BY <1>5, <2>1, <2>2, <2>3, <2>4, <2>5, <2>6, BreakTells DEF Recalls
  <2>8. ASSUME pc[q] = "done" PROVE Supported(q)'
    <3>1. q \in made' <=> q \in made
      BY <1>2, <2>1, <2>8
    <3>2. ret[q] \in Results /\ Supported(q)
      BY <1>5, <2>8 DEF Inv, Caller, Staged, Types
    <3> QED BY <2>1, <3>1, <3>2, SupportedStays
  <2> QED BY <1>1, <1>3, <2>7, <2>8 DEF Caller
<1> QED BY <1>4, <1>5

\* A call that a step of another leaves alone.
LEMMA Bystander ==
  ASSUME Inv, NextH, NEW q \in Procs, UNCHANGED secondary,
         pc'[q] = pc[q], call'[q] = call[q], layer'[q] = layer[q], ret'[q] = ret[q],
         inner'[q] = inner[q], outcome'[q] = outcome[q], q \in did' <=> q \in did,
         known[q] \subseteq known'[q],
         known'[q] \subseteq known[q] \cup {Backend!Presence(Target(inner[q]), has')}
  PROVE  Caller(q)'
<1>1. inner[q] = None => outcome[q] = None /\ q \notin did
  BY DEF Inv, Caller, Asks
<1>2. outcome'[q] # None => Backend!Justified(q, outcome[q])'
  BY JustifiedStays DEF Inv, Types, Caller, Asks
<1> QED BY <1>1, <1>2, CallerKept

\* The calls of a backend, once its contract is expanded.
LEMMA AskingBackend ==
  ASSUME Inv, NEW p \in Procs, NEW c, Ask(p, c)
  PROVE  /\ c \in Calls /\ inner[p] = None
         /\ inner' = [inner EXCEPT ![p] = c]
         /\ known' = [known EXCEPT ![p] = {Backend!Presence(Target(c), has)}]
         /\ UNCHANGED <<has, did, outcome, loose>>
<1>1. PICK e \in Calls : /\ inner' = [inner EXCEPT ![p] = e]
                         /\ known' = [known EXCEPT ![p] = {Backend!Presence(Backend!Target(e), has)}]
  BY Vocabulary DEF Ask, Backend!Invoke
<1>2. e = c
  BY <1>1 DEF Ask, Inv, Types
<1> QED BY <1>1, <1>2, Vocabulary DEF Ask, Backend!Invoke

\* A step of the backend in the call of p.
LEMMA BackendInv ==
  ASSUME Inv, NextH, NEW p \in Procs, BackendReply(p) \/ BackendEffect(p)
  PROVE  Inv'
<1> USE Vocabulary
<1>1. UNCHANGED <<client, secondary>>
  BY DEF BackendReply, BackendEffect
<1>2. ASSUME NEW k, Backend!Becomes(k)
      PROVE  /\ known' \in [Procs -> SUBSET {"present", "absent"}] /\ has' = k
             /\ \A q \in Procs :
                  /\ known[q] \subseteq known'[q]
                  /\ known'[q] \subseteq known[q] \cup {Backend!Presence(Target(inner[q]), has')}
                  /\ inner[q] # None => Backend!Presence(Target(inner[q]), k) \in known'[q]
  BY <1>2 DEF Backend!Becomes, Backend!Presence, Inv, Types
<1>3. "ok" \in Results /\ "ok" # None
  BY NothingAssumption DEF Results
<1>4. ASSUME Backend!MayAnswer(p), outcome[p] = None
      PROVE  /\ \A q \in Procs \ {p} : outcome'[q] = outcome[q]
             /\ outcome' \in [Procs -> Results \cup {None}] /\ outcome'[p] \in {None, "ok"}
  BY <1>3, <1>4 DEF Backend!MayAnswer, Inv, Types
<1>5. /\ inner[p] # None /\ UNCHANGED inner
      /\ known' \in [Procs -> SUBSET {"present", "absent"}]
      /\ \A q \in Procs :
           /\ known[q] \subseteq known'[q]
           /\ known'[q] \subseteq known[q] \cup {Backend!Presence(Target(inner[q]), has')}
      /\ did' \in {did, did \cup {p}}
      /\ p \in did' \ did => /\ inner[p].op = "add" /\ Target(inner[p])[2] = inner[p].d
                             /\ "present" \in known'[p]
      /\ \A q \in Procs \ {p} : outcome'[q] = outcome[q]
      /\ outcome' \in [Procs -> Results \cup {None}]
      /\ (outcome[p] # None => Backend!Justified(p, outcome[p]))'
  <2>1. CASE Backend!Appear(p)
    <3>1. /\ inner[p] # None /\ outcome[p] = None /\ did' = did \cup {p}
          /\ inner[p].op = "add" /\ inner[p].wellformed /\ UNCHANGED inner
          /\ Target(inner[p]) = <<inner[p].s, inner[p].d>>
          /\ Backend!MayAnswer(p) /\ Backend!Becomes(has \cup {Target(inner[p])})
      BY <2>1 DEF Backend!Appear
    <3>2. Backend!Justified(p, "ok")'
      BY <3>1 DEF Backend!Justified
    <3>3. "present" \in known'[p]
      BY <1>2, <3>1 DEF Backend!Presence
    <3> QED BY <1>2, <1>4, <3>1, <3>2, <3>3
  <2>2. CASE Backend!Rewrite(p)
    <3>1. /\ inner[p] # None /\ outcome[p] = None /\ did' = did
          /\ inner[p].op = "label" /\ inner[p].wellformed /\ "present" \in known[p]
          /\ UNCHANGED inner /\ Backend!MayAnswer(p) /\ \E k : Backend!Becomes(k)
      BY <2>2 DEF Backend!Rewrite
    <3>2. "present" \in known'[p]
      BY <1>2, <3>1
    <3>3. Backend!Justified(p, "ok")'
      BY <3>1, <3>2 DEF Backend!Justified
    <3> QED BY <1>2, <1>4, <3>1, <3>3
  <2>3. CASE Backend!Vanish(p)
    <3>1. /\ inner[p] # None /\ outcome[p] = None /\ did' = did
          /\ inner[p].op = "erase" /\ inner[p].wellformed /\ UNCHANGED inner
          /\ Backend!MayAnswer(p) /\ Backend!Becomes(has \ {Target(inner[p])})
      BY <2>3 DEF Backend!Vanish
    <3>2. "absent" \in known'[p]
      BY <1>2, <3>1 DEF Backend!Presence
    <3>3. Backend!Justified(p, "ok")'
      BY <3>1, <3>2 DEF Backend!Justified
    <3> QED BY <1>2, <1>4, <3>1, <3>3
  <2>4. CASE Backend!Reply(p)
    <3>1. PICK r \in Results : Backend!Justified(p, r) /\ outcome' = [outcome EXCEPT ![p] = r]
      BY <2>4 DEF Backend!Reply
    <3>2. inner[p] # None /\ UNCHANGED <<has, inner, known, did>>
      BY <2>4 DEF Backend!Reply
    <3>3. Backend!Justified(p, r)' /\ outcome'[p] = r
      BY <3>1, <3>2, JustifiedStays DEF Inv, Types
    <3> QED BY <3>1, <3>2, <3>3 DEF Inv, Types
  <2> QED BY <2>1, <2>2, <2>3, <2>4 DEF BackendReply, BackendEffect
<1>6. Types'
  BY <1>1, <1>5 DEF Inv, Types, client, NextH
<1>7. ASSUME NEW q \in Procs, q # p PROVE Caller(q)'
  BY <1>1, <1>5, <1>7, Bystander DEF client
<1>8. Caller(p)'
  BY <1>1, <1>5, CallerKept DEF client
<1> QED BY <1>6, <1>7, <1>8 DEF Inv

\* A key changes, and no call of this process has done it.
LEMMA OthersInv ==
  ASSUME Inv, NextH, Others
  PROVE  Inv'
<1>1. UNCHANGED <<client, secondary, inner, did, outcome>>
  BY DEF Others, Backend!Drift
<1>2. \E k : Backend!Becomes(k)
  BY DEF Others, Backend!Drift
<1>3. /\ known' \in [Procs -> SUBSET {"present", "absent"}]
      /\ \A q \in Procs :
           /\ known[q] \subseteq known'[q]
           /\ known'[q] \subseteq known[q] \cup {Backend!Presence(Target(inner[q]), has')}
  BY <1>2, Vocabulary DEF Backend!Becomes, Backend!Presence, Inv, Types
<1>4. Types'
  BY <1>1, <1>3 DEF Inv, Types, client, NextH
<1>5. ASSUME NEW q \in Procs PROVE Caller(q)'
  BY <1>1, <1>3, <1>5, Bystander DEF client
<1> QED BY <1>4, <1>5 DEF Inv

\* A step of p alone.
Aside(p) ==
    /\ UNCHANGED <<has, secondary>>
    /\ \A q \in Procs \ {p} :
         /\ pc'[q] = pc[q] /\ call'[q] = call[q] /\ layer'[q] = layer[q] /\ ret'[q] = ret[q]
         /\ inner'[q] = inner[q] /\ known'[q] = known[q] /\ outcome'[q] = outcome[q]
         /\ q \in did' <=> q \in did

\* Only the call that takes it has to be looked at.
LEMMA OwnStep ==
  ASSUME Inv, NextH, NEW p \in Procs, Aside(p), Types', Caller(p)'
  PROVE  Inv'
<1>1. ASSUME NEW q \in Procs, q # p PROVE Caller(q)'
  BY <1>1, Bystander DEF Aside
<1> QED BY <1>1 DEF Inv

\* A call that is at no backend after the step, nor has anything to show for yet.
LEMMA Onward ==
  ASSUME Inv, NextH, NEW p \in Procs, UNCHANGED secondary, Staged(p)',
         pc'[p] \notin {"checking", "checking2", "calling", "calling2", "copy", "done"},
         inner'[p] = None, outcome'[p] = None, p \notin did, p \notin did', p \notin made,
         pc'[p] = "call2" /\ call'[p].wellformed => "absent" \in seen'[p] \/ p \in broke'
  PROVE  Caller(p)'
<1>1. p \notin made' /\ outcome'[p] # "error"
  BY NothingAssumption DEF NextH, Results
<1> QED BY <1>1 DEF Caller, Asks, Recalls

\* A call that ends outside its backends ends with what its history supports.
LEMMA Ending ==
  ASSUME Inv, NextH, NEW p \in Procs, UNCHANGED secondary, NEW r \in Results,
         pc[p] \notin {"idle", "prepare", "done"}, UNCHANGED <<call, layer>>, Answer(p, r),
         inner'[p] = None, outcome'[p] = None, p \notin did',
         Supported(p)'
  PROVE  Caller(p)'
<1>1. pc'[p] = "done" /\ ret'[p] = r /\ r # None /\ call[p] # None
  BY NothingAssumption DEF Answer, Goto, Inv, Types, Caller, Staged
<1>2. /\ seen[p] \subseteq seen'[p] /\ (p \in made' <=> p \in made)
      /\ outcome'[p] # "error"
  BY <1>1, HistoryGrows, NothingAssumption DEF Results
<1>3. Staged(p)' /\ Asks(p)'
  BY <1>1 DEF Staged, Asks
<1>4. Recalls(p)'
  BY <1>1, <1>2 DEF Inv, Caller, Recalls
<1> QED BY <1>1, <1>3, <1>4 DEF Caller

\* A call begins.
LEMMA BeginInv ==
  ASSUME Inv, NextH, NEW p \in Procs, Call(p) \/ (pc[p] = "idle" /\ Resolve(p))
  PROVE  Inv'
<1>1. /\ pc[p] = "idle" /\ call[p] = None /\ ret[p] = None /\ inner[p] = None
      /\ outcome[p] = None /\ p \notin did /\ p \notin made
  BY DEF Call, Inv, Caller, Staged, Asks, Recalls
<1>2. UNCHANGED <<secondary, store>>
  BY DEF Call, Resolve
<1>3. CASE Call(p)
  <2>1. PICK c \in Calls, l \in Layers :
          /\ Fits(l, c.op)
          /\ call' = [call EXCEPT ![p] = c]
          /\ layer' = [layer EXCEPT ![p] = l]
          /\ pc' = [pc EXCEPT ![p] = FirstStep(l, c)]
    BY <1>3 DEF Call, Goto
  <2>2. FirstStep(l, c) \in {"resolve", "measure", "check", "prepare", "call"}
    BY DEF FirstStep
  <2>3. FirstStep(l, c) = "check" => l = "check" /\ c.given # None /\ c.op = "add"
    BY <2>1 DEF FirstStep, Fits
  <2>4. UNCHANGED ret
    BY <1>3 DEF Call
  <2>5. Types' /\ Aside(p)
    BY <1>2, <2>1, <2>2, <2>4 DEF Inv, Types, PCs, Aside, store, NextH
  <2>6. Staged(p)'
    BY <1>1, <2>1, <2>2, <2>3, <2>4, NothingAssumption DEF Inv, Types, Staged
  <2>7. Caller(p)'
    BY <1>1, <1>2, <2>1, <2>2, <2>6, Onward DEF Inv, Types, store
  <2> QED BY <2>5, <2>7, OwnStep
<1>4. CASE Resolve(p) /\ Answer(p, "error") /\ UNCHANGED <<call, layer>>
  <2>1. pc' = [pc EXCEPT ![p] = "done"] /\ ret' = [ret EXCEPT ![p] = "error"]
    BY <1>4 DEF Answer, Goto
  <2>2. Types' /\ Aside(p)
    BY <1>2, <1>4, <2>1 DEF Inv, Types, PCs, Results, Aside, store, NextH
  <2>3. Staged(p)' /\ Asks(p)'
    BY <1>1, <1>2, <1>4, <2>1, NothingAssumption DEF Inv, Types, Staged, Asks, store, Results
  <2>4. p \notin made' /\ pc'[p] = "done" /\ call'[p] = None
    BY <1>1, <1>4, <2>1 DEF NextH, Inv, Types
  <2>5. Caller(p)'
    BY <2>3, <2>4 DEF Caller, Recalls
  <2> QED BY <2>2, <2>5, OwnStep
<1>5. CASE Resolve(p) /\ ~(Answer(p, "error") /\ UNCHANGED <<call, layer>>)
  <2>1. PICK d \in Contents :
          /\ call' = [call EXCEPT ![p] = [op |-> "add", s |-> StoreId, d |-> d,
                                          given |-> None, wellformed |-> TRUE]]
          /\ layer' = [layer EXCEPT ![p] = "plain"]
          /\ pc' = [pc EXCEPT ![p] = "call"] /\ UNCHANGED ret
    BY <1>5 DEF Resolve, Goto
  <2>2. [op |-> "add", s |-> StoreId, d |-> d, given |-> None, wellformed |-> TRUE] \in Calls
    BY CommandsAssumption, StoreIdsAssumption DEF Calls, Contents
  <2>3. Types' /\ Aside(p)
    BY <1>2, <2>1, <2>2 DEF Inv, Types, PCs, Layers, Aside, store, NextH
  <2>4. Staged(p)'
    BY <1>1, <2>1, <2>2, NothingAssumption DEF Inv, Types, Staged
  <2>5. Caller(p)'
    BY <1>1, <1>2, <2>1, <2>4, Onward DEF Inv, Types, store
  <2> QED BY <2>3, <2>5, OwnStep
<1> QED BY <1>3, <1>4, <1>5 DEF Resolve

\* A call is returned from.
LEMMA ReturnInv ==
  ASSUME Inv, NextH, NEW p \in Procs, Return(p)
  PROVE  Inv'
<1>1. /\ pc[p] = "done" /\ pc' = [pc EXCEPT ![p] = "idle"]
      /\ call' = [call EXCEPT ![p] = None] /\ layer' = [layer EXCEPT ![p] = None]
      /\ ret' = [ret EXCEPT ![p] = None] /\ UNCHANGED <<secondary, store>>
  BY DEF Return, Goto
<1>2. Types' /\ Aside(p)
  BY <1>1 DEF Inv, Types, PCs, Aside, store, NextH
<1>3. inner[p] = None /\ outcome[p] = None /\ p \notin did
  BY <1>1 DEF Inv, Caller, Asks
<1>4. Staged(p)' /\ Asks(p)'
  BY <1>1, <1>3 DEF Inv, Types, Staged, Asks, store
<1>5. p \notin made' /\ pc'[p] = "idle" /\ call'[p] = None
  BY <1>1 DEF NextH, Inv, Types
<1> QED BY <1>2, <1>4, <1>5, OwnStep DEF Caller, Recalls

\* What a layer does by itself, before it calls the store and after it has its answer.
LEMMA LayerInv ==
  ASSUME Inv, NextH, NEW p \in Procs,
         ResolveDigest(p) \/ Measure(p) \/ Measured(p) \/ Hash(p) \/ AskFresh(p) \/ Copy(p)
  PROVE  Inv'
<1>0. UNCHANGED <<layer, secondary, store>>
  BY DEF ResolveDigest, Measure, Measured, Hash, AskFresh, Copy
<1>1. pc[p] \in {"resolve", "measure", "measured", "prepare", "check2", "call2", "copy"}
  BY DEF ResolveDigest, Measure, Measured, Hash, AskFresh, Copy
<1>2. /\ call[p] \in Calls /\ call[p] # None /\ ret[p] = None /\ inner[p] = None
      /\ outcome[p] = None /\ p \notin did /\ p \notin made
  BY <1>1 DEF Inv, Types, Caller, Staged, Asks, Recalls
<1>3. inner'[p] = None /\ outcome'[p] = None /\ p \notin did'
  BY <1>0, <1>2 DEF store
<1>4. ASSUME NEW l \in {"measured", "call"}, pc' = [pc EXCEPT ![p] = l], UNCHANGED ret,
             NEW c \in Calls, call' = [call EXCEPT ![p] = c]
      PROVE  Inv'
  <2>1. Types' /\ Aside(p)
    BY <1>0, <1>4 DEF Inv, Types, PCs, Aside, store, NextH
  <2>2. Staged(p)' /\ pc'[p] = l
    BY <1>2, <1>4, NothingAssumption DEF Inv, Types, Staged
  <2>3. Caller(p)'
    BY <1>0, <1>2, <1>3, <2>2, Onward
  <2> QED BY <2>1, <2>3, OwnStep
<1>5. ASSUME NEW r \in Results, Answer(p, r), UNCHANGED call, Supported(p)', pc[p] # "prepare"
      PROVE  Inv'
  <2>1. Types' /\ Aside(p)
    BY <1>0, <1>5 DEF Answer, Goto, Inv, Types, PCs, Aside, store, NextH
  <2>2. Caller(p)'
    BY <1>0, <1>1, <1>3, <1>5, Ending
  <2> QED BY <2>1, <2>2, OwnStep
<1>6. call = [call EXCEPT ![p] = call[p]]
  BY DEF Inv, Types
<1>7. ASSUME Answer(p, "error") PROVE Supported(p)'
  <2>1. ret'[p] = "error"
    BY <1>7 DEF Answer, Inv, Types
  <2> QED BY <2>1 DEF Supported
<1>8. CASE Measure(p) \/ Measured(p)
  BY <1>2, <1>4, <1>6, <1>8 DEF Measure, Measured, Goto
<1>9. CASE ResolveDigest(p)
  <2>1. UNCHANGED call /\ pc[p] # "prepare" /\ "error" \in Results
    BY <1>9 DEF ResolveDigest, Results
  <2> QED BY <1>2, <1>4, <1>5, <1>6, <1>7, <1>9, <2>1 DEF ResolveDigest, Goto
<1>10. CASE Hash(p)
  <2>1. CASE Answer(p, "error") /\ UNCHANGED call
    <3>1. Types' /\ Aside(p)
      BY <1>0, <2>1 DEF Answer, Goto, Inv, Types, PCs, Results, Aside, store, NextH
    <3>2. pc'[p] = "done" /\ ret'[p] = "error" /\ call'[p] = call[p]
      BY <2>1 DEF Answer, Goto, Inv, Types
    <3>3. Staged(p)' /\ Asks(p)'
      BY <1>2, <1>3, <3>2, NothingAssumption DEF Staged, Asks, Results
    <3>4. p \notin made' /\ outcome'[p] # "error"
      BY <1>2, <1>3, NothingAssumption DEF NextH, Results
    <3>5. Caller(p)'
      BY <1>0, <1>7, <2>1, <3>2, <3>3, <3>4 DEF Caller, Recalls
    <3> QED BY <3>1, <3>5, OwnStep
  <2>2. ASSUME NEW d \in {call[p].d, Foreign},
               NEW c \in {call[p], [call[p] EXCEPT !.given = d, !.wellformed = TRUE]},
               call' = [call EXCEPT ![p] = c], Goto(p, "call"), UNCHANGED ret
        PROVE  Inv'
    <3>1. c \in Calls
      BY <1>2, <2>2, ForeignAssumption DEF Calls
    <3> QED BY <1>4, <2>2, <3>1 DEF Goto
  <2> QED BY <1>6, <1>10, <2>1, <2>2 DEF Hash
<1>11. CASE AskFresh(p)
  <2>1. pc[p] \in {"check2", "call2"} /\ secondary = "fresh" /\ UNCHANGED call
    BY <1>11 DEF AskFresh
  <2>2. CASE pc[p] = "check2"
    BY <1>2, <1>4, <1>6, <1>11, <2>1, <2>2 DEF AskFresh, Goto
  <2>3. CASE pc[p] = "call2"
    <3>1. Answer(p, "notexist") /\ "notexist" \in Results
      BY <1>11, <2>3 DEF AskFresh, Results
    <3>2. ret'[p] = "notexist"
      BY <3>1 DEF Answer, Inv, Types
    <3>3. Reads(p) /\ (call[p].wellformed => "absent" \in seen[p] \/ p \in broke)
      BY <2>3 DEF Inv, Caller, Staged, Recalls, Reads
    <3>4. seen[p] \subseteq seen'[p] /\ (p \in broke => p \in broke')
      BY <1>0, <1>2, <2>1, <3>3, HistoryGrows
    <3>5. Supported(p)'
      BY <1>0, <2>1, <3>2, <3>3, <3>4 DEF Supported, Reads
    <3> QED BY <1>5, <2>1, <2>3, <3>1, <3>5
  <2> QED BY <2>1, <2>2, <2>3
<1>12. CASE Copy(p)
  <2>1. pc[p] = "copy" /\ UNCHANGED call
    BY <1>12 DEF Copy
  <2>2. PICK r \in {"ok", "error"} : Answer(p, r)
    BY <1>12 DEF Copy
  <2>3. /\ call[p].op \in {"get", "open"}
        /\ "present" \in seen[p] \/ (secondary = "same" /\ "present" \in seen2[p])
    BY <2>1 DEF Inv, Caller, Staged, Recalls
  <2>4. seen[p] \subseteq seen'[p] /\ (secondary = "same" => seen2[p] \subseteq seen2'[p])
    BY <1>0, <1>2, <2>1, <2>3, HistoryGrows DEF Twice, LooksTwice
  <2>5. ret'[p] = r
    BY <2>2 DEF Answer, Inv, Types
  <2>6. CASE r = "ok"
    <3>1. Supported(p)'
      BY <1>0, <2>1, <2>3, <2>4, <2>5, <2>6 DEF Supported
    <3> QED BY <1>5, <2>1, <2>2, <2>6, <3>1 DEF Results
  <2>7. CASE r = "error"
    BY <1>5, <1>7, <2>1, <2>2, <2>7 DEF Results
  <2> QED BY <2>6, <2>7
<1> QED BY <1>8, <1>9, <1>10, <1>11, <1>12

\* The keys of what is asked.
LEMMA AskedKeys ==
  ASSUME NEW c \in Calls
  PROVE  /\ Target([c EXCEPT !.s = SecondaryId]) = <<SecondaryId, Target(c)[2]>>
         /\ c.given # None => /\ Target(Existence(c)) = Target(c)
                              /\ Target([Existence(c) EXCEPT !.s = SecondaryId])
                                   = <<SecondaryId, Target(c)[2]>>
<1>1. LET e == [c EXCEPT !.s = SecondaryId] IN e.s = SecondaryId /\ e.given = c.given /\ e.d = c.d
  BY DEF Calls
<1>2. LET e == Existence(c) IN e.s = c.s /\ e.given = c.given
  BY DEF Calls, Existence
<1>3. LET e == [Existence(c) EXCEPT !.s = SecondaryId] IN e.s = SecondaryId /\ e.given = c.given
  BY DEF Calls, Existence
<1> QED BY <1>1, <1>2, <1>3 DEF Target

\* The store is called.
LEMMA AskInv ==
  ASSUME Inv, NextH, NEW p \in Procs, AskPrimary(p) \/ AskSecondary(p)
  PROVE  Inv'
<1> DEFINE c == IF AskPrimary(p) THEN Asked(p, pc[p]) ELSE [Asked(p, pc[p]) EXCEPT !.s = SecondaryId]
           l == Asking[pc[p]]
<1>1. /\ pc[p] \in {"check", "call", "check2", "call2"} /\ Ask(p, c)
      /\ pc' = [pc EXCEPT ![p] = l] /\ UNCHANGED <<call, layer, ret, secondary>>
      /\ AskPrimary(p) => pc[p] \in {"check", "call"}
      /\ ~AskPrimary(p) => pc[p] \in {"check2", "call2"} /\ secondary = "same"
  BY DEF AskPrimary, AskSecondary, Goto
<1> HIDE DEF c, l
<1>2. /\ c \in Calls /\ inner[p] = None
      /\ inner' = [inner EXCEPT ![p] = c]
      /\ known' = [known EXCEPT ![p] = {Backend!Presence(Target(c), has)}]
      /\ UNCHANGED <<has, did, outcome>>
  BY <1>1, AskingBackend
<1>3. /\ call[p] \in Calls /\ call[p] # None /\ ret[p] = None
      /\ outcome[p] = None /\ p \notin did /\ p \notin made
  BY <1>1, <1>2 DEF Inv, Types, Caller, Staged, Asks, Recalls
<1>4. /\ pc[p] = "check" => l = "checking" /\ c = Existence(call[p])
      /\ pc[p] = "check2" => l = "checking2" /\ c = [Existence(call[p]) EXCEPT !.s = SecondaryId]
      /\ pc[p] = "call" => l = "calling" /\ c = call[p]
      /\ pc[p] = "call2" => l = "calling2" /\ c = [call[p] EXCEPT !.s = SecondaryId]
  BY <1>1 DEF c, l, Asked, Asking
<1>5. pc'[p] = l /\ inner'[p] = c /\ known'[p] = {Backend!Presence(Target(c), has)}
      /\ call'[p] = call[p]
  BY <1>1, <1>2 DEF Inv, Types
<1>6. Types' /\ Aside(p)
  <2>1. l \in PCs
    BY <1>1, <1>4 DEF PCs
  <2>2. {Backend!Presence(Target(c), has)} \in SUBSET {"present", "absent"}
    BY DEF Backend!Presence
  <2> QED BY <1>1, <1>2, <2>1, <2>2 DEF Inv, Types, Aside, NextH
<1>7. Staged(p)'
  BY <1>1, <1>3, <1>4, <1>5 DEF Inv, Caller, Staged
<1>8. Asks(p)'
  BY <1>1, <1>2, <1>3, <1>4, <1>5, NothingAssumption DEF Asks, Existence
<1>9. /\ Now(Target(call[p]))' \in seen'[p]
      /\ Twice(p) => Now(Key2(p))' \in seen2'[p]
      /\ seen[p] \subseteq seen'[p] /\ (Reads(p) /\ p \in broke => p \in broke')
      /\ p \notin made'
  BY <1>1, <1>2, <1>3, <1>5, HistoryGrows
<1>10. Now(Target(call[p]))' = Backend!Presence(Target(call[p]), has)
       /\ Now(Key2(p))' = Backend!Presence(Key2(p), has)
  BY <1>1, <1>2 DEF Now, Key2, Backend!Presence, Target
<1>11. l \in {"checking", "calling"} => known'[p] \subseteq seen'[p]
  <2>1. l \in {"checking", "calling"} => Target(c) = Target(call[p])
    BY <1>1, <1>3, <1>4, AskedKeys DEF Inv, Caller, Staged
  <2> QED BY <1>5, <1>9, <1>10, <2>1
<1>12. l \in {"checking2", "calling2"} => known'[p] \subseteq seen2'[p]
  <2>1. l \in {"checking2", "calling2"} => Target(c) = Key2(p) /\ pc[p] \in {"check2", "call2"}
    BY <1>1, <1>3, <1>4, AskedKeys DEF Inv, Caller, Staged, Key2
  <2>2. pc[p] \in {"check2", "call2"} => Twice(p)
    BY <1>1 DEF Inv, Caller, Staged, Twice, LooksTwice
  <2> QED BY <1>5, <1>9, <1>10, <2>1, <2>2
<1>13. l \in {"call2", "calling2"} /\ call[p].wellformed => "absent" \in seen'[p] \/ p \in broke'
  BY <1>1, <1>4, <1>9 DEF Inv, Caller, Staged, Recalls, Reads
<1>14. outcome'[p] # "error"
  BY <1>2, <1>3, NothingAssumption DEF Results
<1>15. Recalls(p)'
  BY <1>1, <1>2, <1>3, <1>4, <1>5, <1>9, <1>11, <1>12, <1>13, <1>14 DEF Recalls
<1> QED BY <1>1, <1>4, <1>5, <1>6, <1>7, <1>8, <1>15, OwnStep DEF Caller

\* An answer of the primary, or of the secondary to a call that has fallen back to it,
\* is supported by the history.
LEMMA AnswerSupported ==
  ASSUME Inv, NextH, NEW p \in Procs, Answered(p), ret'[p] = Through(layer[p], outcome[p]),
         UNCHANGED <<call, layer, secondary>>, p \notin did'
  PROVE  Supported(p)'
<1> DEFINE r == outcome[p]
<1>1. /\ pc[p] \in {"calling", "calling2"} /\ r \in Results /\ ~Falls(p)
      /\ Backend!Justified(p, r) /\ call[p] \in Calls /\ call[p] # None
  BY DEF Answered, Inv, Types, Caller, Asks, Staged
<1>2. /\ seen[p] \subseteq seen'[p] /\ (p \in made' <=> p \in made)
      /\ Twice(p) => seen2[p] \subseteq seen2'[p]
      /\ Reads(p) /\ p \in broke => p \in broke'
  BY <1>1, HistoryGrows
<1>3. r \in {"ok", "exists", "notexist", "mismatch", "error"}
  BY <1>1 DEF Results
<1>4. CASE pc[p] = "calling"
  <2>1. inner[p] = call[p] /\ known[p] \subseteq seen[p] /\ (p \in made <=> p \in did)
        /\ (p \in made => call[p].given \in {None, call[p].d})
    BY <1>4 DEF Inv, Caller, Asks, Recalls
  <2>2. CASE ~call[p].wellformed
    <3>1. \/ call[p].op = "add" /\ r = "error"
          \/ call[p].op = "erase" /\ r = "ok"
          \/ call[p].op \in {"get", "open", "label"} /\ r = "notexist"
      BY <1>1, <2>1, <2>2, OpsAssumption DEF Backend!Justified, Backend!Refusal, Refusal, Calls
    <3> QED BY <2>2, <3>1 DEF Supported, Through
  <2>3. CASE call[p].wellformed
    <3>1. CASE r = "ok"
      BY <1>1, <1>2, <2>1, <2>3, <3>1 DEF Backend!Justified, Supported, Through
    <3>2. CASE r = "exists"
      <4>1. call[p].op = "add" /\ "present" \in seen'[p] /\ p \notin made'
        BY <1>1, <1>2, <2>1, <2>3, <3>2 DEF Backend!Justified
      <4>2. CASE layer[p] = "allow"
        BY <3>2, <4>1, <4>2 DEF Supported, Through
      <4>3. CASE layer[p] # "allow"
        BY <3>2, <4>1, <4>3 DEF Supported, Through
      <4> QED BY <4>2, <4>3
    <3>3. CASE r = "notexist"
      <4>1. \/ call[p].op \in {"get", "open", "label"} /\ "absent" \in seen'[p]
            \/ call[p].op = "add" /\ p \notin made'
        BY <1>1, <1>2, <2>1, <2>3, <3>3 DEF Backend!Justified
      <4>2. call[p].op \in {"get", "open"} => secondary = "none"
        BY <1>1, <1>4, <2>1, <3>3, NothingAssumption DEF Falls, Results
      <4> QED BY <3>3, <4>1, <4>2 DEF Supported, Through
    <3>4. CASE r = "mismatch"
      <4>1. call[p].op = "add" /\ call[p].given \notin {None, call[p].d}
        BY <1>1, <2>1, <2>3, <3>4 DEF Backend!Justified
      <4>2. p \notin made'
        BY <1>2, <2>1, <4>1
      <4> QED BY <3>4, <4>1, <4>2 DEF Supported, Through
    <3>5. CASE r = "error"
      BY <3>5 DEF Supported, Through
    <3> QED BY <1>3, <3>1, <3>2, <3>3, <3>4, <3>5
  <2> QED BY <2>2, <2>3
<1>5. CASE pc[p] = "calling2"
  <2>0. /\ call[p].op \in {"get", "open"} /\ secondary = "same"
        /\ inner[p].op = call[p].op /\ inner[p].wellformed = call[p].wellformed
    BY <1>1, <1>5 DEF Inv, Caller, Staged, Asks, Calls
  <2>1. /\ call[p].op \in {"get", "open"} /\ secondary = "same" /\ known[p] \subseteq seen2'[p]
        /\ inner[p].op = call[p].op /\ inner[p].wellformed = call[p].wellformed
        /\ call[p].wellformed => "absent" \in seen'[p] \/ p \in broke'
    BY <1>2, <1>5, <2>0 DEF Inv, Caller, Recalls, Twice, LooksTwice, Reads
  <2>2. CASE ~call[p].wellformed
    <3>1. r = "notexist"
      BY <1>1, <2>1, <2>2 DEF Backend!Justified, Backend!Refusal, Refusal
    <3> QED BY <2>1, <2>2, <3>1 DEF Supported, Through
  <2>3. CASE call[p].wellformed
    <3>1. CASE r = "ok"
      BY <1>1, <2>1, <2>3, <3>1 DEF Backend!Justified, Supported, Through
    <3>2. CASE r = "notexist"
      BY <1>1, <2>1, <2>3, <3>2 DEF Backend!Justified, Supported, Through
    <3>3. CASE r = "error"
      BY <3>3 DEF Supported, Through
    <3>4. r \notin {"exists", "mismatch"}
      BY <1>1, <2>1, <2>3 DEF Backend!Justified
    <3> QED BY <1>3, <3>1, <3>2, <3>3, <3>4
  <2> QED BY <2>2, <2>3
<1> QED BY <1>1, <1>4, <1>5

\* The answer of a backend is taken.
LEMMA TakeInv ==
  ASSUME Inv, NextH, NEW p \in Procs, Fallback(p) \/ Checked(p) \/ Answered(p)
  PROVE  Inv'
<1>1. /\ pc[p] \in {"checking", "checking2", "calling", "calling2"} /\ outcome[p] # None
      /\ Backend!Leave(p) /\ UNCHANGED <<call, layer, secondary>>
  BY DEF Fallback, Falls, Checked, Answered
<1>2. /\ inner' = [inner EXCEPT ![p] = None] /\ known' = [known EXCEPT ![p] = {}]
      /\ did' = did \ {p} /\ outcome' = [outcome EXCEPT ![p] = None] /\ UNCHANGED has
  BY <1>1 DEF Backend!Leave
<1>3. inner'[p] = None /\ outcome'[p] = None /\ p \notin did'
  BY <1>2 DEF Inv, Types
<1>4. /\ call[p] \in Calls /\ call[p] # None /\ ret[p] = None /\ outcome[p] \in Results
      /\ Backend!Justified(p, outcome[p])
  BY <1>1 DEF Inv, Types, Caller, Staged, Asks
<1>5. /\ seen[p] \subseteq seen'[p] /\ (p \in made' <=> p \in made)
      /\ Twice(p) => seen2[p] \subseteq seen2'[p]
      /\ Reads(p) /\ p \in broke => p \in broke'
  BY <1>1, <1>3, <1>4, HistoryGrows
<1>6. ASSUME NEW l \in PCs, pc' = [pc EXCEPT ![p] = l], ret' \in [Procs -> Results \cup {None}],
             \A q \in Procs \ {p} : ret'[q] = ret[q]
      PROVE  Types' /\ Aside(p)
  BY <1>1, <1>2, <1>6 DEF Inv, Types, Aside, NextH
<1>7. ASSUME NEW r \in Results, Answer(p, r), Supported(p)'
      PROVE  Inv'
  <2>1. Types' /\ Aside(p)
    BY <1>6, <1>7 DEF Answer, Goto, Inv, Types, PCs
  <2>2. Caller(p)'
    BY <1>1, <1>3, <1>7, Ending
  <2> QED BY <2>1, <2>2, OwnStep
<1>8. ASSUME NEW l \in {"check2", "call2", "call"}, pc' = [pc EXCEPT ![p] = l], UNCHANGED ret,
             Staged(p)', p \notin did,
             l = "call2" /\ call[p].wellformed => "absent" \in seen'[p] \/ p \in broke'
      PROVE  Inv'
  <2>1. Types' /\ Aside(p)
    BY <1>6, <1>8 DEF Inv, Types, PCs
  <2>2. p \notin made /\ pc'[p] = l
    BY <1>1, <1>8 DEF Inv, Types, Caller, Recalls
  <2>3. Caller(p)'
    BY <1>1, <1>3, <1>8, <2>2, Onward
  <2> QED BY <2>1, <2>3, OwnStep
<1>9. CASE Fallback(p)
  <2>1. /\ Falls(p) /\ UNCHANGED ret
        /\ pc' = [pc EXCEPT ![p] = IF pc[p] = "checking" THEN "check2" ELSE "call2"]
    BY <1>9 DEF Fallback, Goto
  <2>2. pc[p] \in {"checking", "calling"} /\ inner[p].op \in {"get", "open"} /\ secondary # "none"
    BY <2>1 DEF Falls
  <2>3. p \notin did
    <3>1. p \in did => pc[p] = "calling" /\ inner[p] = call[p] /\ p \in made
      BY DEF Inv, Caller, Asks, Recalls
    <3> QED BY <2>2, <3>1 DEF Inv, Caller, Recalls
  <2>4. CASE pc[p] = "checking"
    <3>1. Staged(p)'
      BY <1>1, <1>4, <2>1, <2>2, <2>4 DEF Inv, Types, Caller, Staged
    <3> QED BY <1>8, <2>1, <2>3, <2>4, <3>1
  <2>5. CASE pc[p] = "calling"
    <3>1. call[p].op \in {"get", "open"}
      BY <2>2, <2>5 DEF Inv, Caller, Asks
    <3>2. Staged(p)'
      BY <1>1, <1>4, <2>1, <2>2, <2>5, <3>1 DEF Inv, Types, Caller, Staged
    <3>3. ASSUME call[p].wellformed PROVE "absent" \in seen'[p] \/ p \in broke'
      <4>1. inner[p] = call[p] /\ known[p] \subseteq seen[p]
        BY <2>5 DEF Inv, Caller, Asks, Recalls
      <4>2. CASE outcome[p] = "notexist"
        BY <1>4, <1>5, <3>1, <3>3, <4>1, <4>2 DEF Backend!Justified
      <4>3. CASE outcome[p] = "error"
        BY <1>4, <1>5, <3>1, <4>3 DEF Inv, Caller, Recalls, Reads
      <4>4. outcome[p] \notin {"ok", "exists", "mismatch"}
        BY <1>4, <2>1, <3>1, <3>3, <4>1 DEF Falls, Backend!Justified
      <4> QED BY <1>4, <4>2, <4>3, <4>4 DEF Results
    <3> QED BY <1>8, <2>1, <2>3, <2>5, <3>2, <3>3
  <2> QED BY <2>2, <2>4, <2>5
<1>10. CASE Checked(p)
  <2>1. /\ pc[p] \in {"checking", "checking2"} /\ p \notin did /\ p \notin made
        /\ call[p].op = "add" /\ layer[p] = "check"
    BY <1>10 DEF Checked, Inv, Caller, Staged, Asks, Recalls
  <2>2. CASE outcome[p] = "ok"
    <3>1. Answer(p, "exists") /\ "exists" \in Results
      BY <1>10, <2>2 DEF Checked, Results
    <3>2. inner[p].op = "get"
      BY <1>4, <2>1 DEF Inv, Caller, Asks, Existence, Calls
    <3>3. "present" \in known[p]
      BY <1>4, <2>2, <3>2 DEF Backend!Justified, Backend!Refusal, Refusal
    <3>4. "present" \in seen'[p] \/ (secondary = "same" /\ "present" \in seen2'[p])
      BY <1>5, <2>1, <3>3 DEF Inv, Caller, Staged, Recalls, Twice, LooksTwice
    <3>5. ret'[p] = "exists" /\ p \notin made'
      BY <1>5, <2>1, <3>1 DEF Answer, Inv, Types
    <3>6. Supported(p)'
      BY <1>1, <2>1, <3>4, <3>5 DEF Supported
    <3> QED BY <1>7, <3>1, <3>6
  <2>3. CASE outcome[p] # "ok"
    <3>1. pc' = [pc EXCEPT ![p] = "call"] /\ UNCHANGED ret
      BY <1>10, <2>3 DEF Checked, Goto
    <3>2. Staged(p)'
      BY <1>1, <1>4, <3>1 DEF Inv, Types, Staged
    <3> QED BY <1>8, <2>1, <3>1, <3>2
  <2> QED BY <2>2, <2>3
<1>11. CASE Answered(p)
  <2>1. CASE layer[p] = "cli" /\ call[p].op = "open" /\ outcome[p] = "ok"
    <3>1. pc' = [pc EXCEPT ![p] = "copy"] /\ UNCHANGED ret /\ pc[p] \in {"calling", "calling2"}
      BY <1>11, <2>1 DEF Answered, Goto
    <3>2. Types' /\ Aside(p)
      BY <1>6, <3>1 DEF Inv, Types, PCs
    <3>3. inner[p].op = "open"
      BY <1>4, <2>1, <3>1 DEF Inv, Caller, Asks, Calls
    <3>4. "present" \in known[p]
      BY <1>4, <2>1, <3>3 DEF Backend!Justified, Backend!Refusal, Refusal
    <3>5. "present" \in seen'[p] \/ (secondary = "same" /\ "present" \in seen2'[p])
      BY <1>5, <2>1, <3>1, <3>4 DEF Inv, Caller, Staged, Recalls, Twice, LooksTwice
    <3>6. p \notin made'
      <4>1. p \notin made
        BY <2>1 DEF Inv, Caller, Recalls
      <4> QED BY <1>5, <4>1
    <3>7. Staged(p)' /\ Asks(p)' /\ Recalls(p)' /\ pc'[p] = "copy"
      BY <1>1, <1>3, <1>4, <1>5, <2>1, <3>1, <3>5, <3>6, NothingAssumption
      DEF Inv, Types, Staged, Asks, Recalls, Results
    <3> QED BY <3>2, <3>7, OwnStep DEF Caller
  <2>2. CASE ~(layer[p] = "cli" /\ call[p].op = "open" /\ outcome[p] = "ok")
    <3>1. Answer(p, Through(layer[p], outcome[p]))
      BY <1>11, <2>2, Zenon DEF Answered
    <3>2. Through(layer[p], outcome[p]) \in Results
      BY <1>4 DEF Through, Results
    <3>3. ret'[p] = Through(layer[p], outcome[p])
      BY <3>1 DEF Answer, Inv, Types
    <3>4. Supported(p)'
      BY <1>1, <1>3, <1>11, <3>3, AnswerSupported
    <3> QED BY <1>7, <3>1, <3>2, <3>4
  <2> QED BY <2>1, <2>2
<1> QED BY <1>9, <1>10, <1>11

\* Every step keeps the invariant of the calls.
LEMMA NextInv == Inv /\ [NextH]_<<vars, history>> => Inv'
<1> SUFFICES ASSUME Inv, [NextH]_<<vars, history>> PROVE Inv'
  OBVIOUS
<1>1. CASE UNCHANGED <<vars, history>>
  <2>1. Types'
    BY <1>1 DEF vars, history, client, store, Inv, Types
  <2>2. ASSUME NEW p \in Procs PROVE Caller(p)'
    <3>1. Staged(p)' /\ Recalls(p)'
      BY <1>1, <2>2 DEF vars, history, client, store, Inv, Caller, Staged, Recalls, Reads
    <3>2. outcome[p] # None => Backend!Justified(p, outcome[p])'
      BY <1>1, <2>2, JustifiedStays DEF vars, store, Inv, Types, Caller, Asks
    <3>3. Asks(p)'
      BY <1>1, <2>2, <3>2 DEF vars, client, store, Inv, Caller, Asks, Existence
    <3>4. pc[p] = "done" /\ call[p] # None => Supported(p)'
      BY <1>1, <2>2, SupportedStays DEF vars, history, client, Inv, Types, Caller, Staged
    <3> QED BY <1>1, <3>1, <3>3, <3>4 DEF Caller, vars, client
  <2> QED BY <2>1, <2>2 DEF Inv
<1>2. CASE NextH /\ UNCHANGED <<client, secondary, store>>
  <2>1. Types'
    BY <1>2 DEF client, store, Inv, Types, NextH
  <2>2. ASSUME NEW p \in Procs PROVE Caller(p)'
    BY <1>2, <2>2, Bystander DEF client, store
  <2> QED BY <2>1, <2>2 DEF Inv
<1>3. ASSUME NextH, NEW p \in Procs, Proceed(p) PROVE Inv'
  BY <1>3, LayerInv, AskInv, TakeInv DEF Proceed
<1>4. CASE NextH
  <2>1. CASE Start \/ Finish
    BY <1>2, <1>4, <2>1 DEF Start, Finish
  <2>2. ASSUME NEW p \in Procs, Resolve(p) PROVE Inv'
    BY <1>4, <2>2, BeginInv DEF Resolve
  <2>3. ASSUME NEW p \in Procs, Work(p) \/ Use(p) PROVE Inv'
    BY <1>3, <1>4, <2>3, BeginInv, ReturnInv DEF Work, Use
  <2> QED BY <1>4, <2>1, <2>2, <2>3, BackendInv, OthersInv DEF NextH, Next
<1> QED BY <1>1, <1>4

\* It holds at the start.
LEMMA InitInv == InitH => Inv
<1> SUFFICES ASSUME InitH PROVE Inv
  OBVIOUS
<1>1. Types
  BY DEF InitH, Init, InitStores, Types, PCs
<1>2. \A p \in Procs : Caller(p)
  BY NothingAssumption DEF InitH, Init, InitStores, Caller, Staged, Asks, Recalls, Results
<1> QED BY <1>1, <1>2 DEF Inv

\* The inductive invariant of the calls holds in every reachable state: at every stage
\* the backend is asked for what the caller means, and the history has what it saw.
THEOREM Invariance == SpecH => []Inv
BY InitInv, NextInv, PTL DEF SpecH

\* AnswersTrue: what a layer answers was true during its call, whatever the other
\* callers, other processes and late writes do between the calls that it makes.
THEOREM LayersTellTruth == SpecH => []AnswersTrue
<1>1. Inv => AnswersTrue
  BY DEF Inv, Caller, AnswersTrue
<1> QED BY <1>1, Invariance, PTL

-----------------------------------------------------------------------------
(***************************************************************************)
(* The inductive invariant of `flob add'.                                  *)
(***************************************************************************)

\* The loop starts the goroutines in order, and they call Add, each once.
Loop ==
    /\ files \in Seq({"path", "-"}) /\ Len(files) <= MaxFiles
    /\ next \in 1..(Len(files) + 1)
    /\ files # <<>> =>
         \A p \in Procs :
           /\ p >= next => pc[p] = "idle"
           /\ call[p] # None => call[p].op = "add" /\ layer[p] = "plain"
    /\ files = <<>> => exit = 1
    /\ exit # None => \A i \in Workers : pc[i] = "done"

\* With standard input one goroutine runs at a time, and what was read is known.
Sequential ==
    /\ Stdin # {} => \A i, j \in Running : i = j
    /\ \A i \in Stdin : ret[i] \in {"ok", "exists"} => drained
    /\ \A i, j \in Stdin :
         i # j /\ ret[j] \in {"ok", "exists"} /\ call[i] # None
               /\ ret[i] \in {"ok", "exists", None} => Empty \in {call[i].d, call[j].d}

InvC == Inv /\ Loop /\ Sequential /\ ExitTells

\* The goroutines and the loop, as numbers.
LEMMA Numbers ==
  ASSUME Loop
  PROVE  /\ Len(files) \in Nat /\ next \in Nat /\ Workers \subseteq Procs
         /\ Running \subseteq Workers /\ Stdin \subseteq Workers
         /\ files = <<>> <=> Len(files) = 0
         /\ files = <<>> => Workers = {}
<1>1. Len(files) \in Nat /\ Len(files) <= MaxFiles /\ next \in 1..(Len(files) + 1)
      /\ (files = <<>> <=> Len(files) = 0)
  BY DEF Loop
<1>2. Workers \subseteq Procs
  BY <1>1, CommandsAssumption DEF Workers
<1>3. Running \subseteq Workers
  BY <1>1 DEF Running, Workers
<1> QED BY <1>1, <1>2, <1>3 DEF Workers, Stdin

\* What a goroutine does: it makes its call, or fails to, and goes on in it.
Moves(p) ==
    /\ UNCHANGED <<files, parallel, next, exit>> /\ pc[p] # "done"
    /\ \A q \in Procs \ {p} :
         pc'[q] = pc[q] /\ call'[q] = call[q] /\ layer'[q] = layer[q] /\ ret'[q] = ret[q]
    /\ call'[p] # None => call'[p].op = "add" /\ layer'[p] = "plain"
    /\ call[p] # None => /\ call'[p] # None /\ call'[p].d = call[p].d
                         /\ drained' = (drained \/ (p \in Stdin /\ ret'[p] \in {"ok", "exists"}))
    /\ call[p] = None =>
         /\ UNCHANGED drained
         /\ IF call'[p] = None THEN ret'[p] = "error"
            ELSE ret'[p] = None /\ (p \in Stdin /\ drained => call'[p].d = Empty)

\* A step within a call.
LEMMA Proceeding ==
  ASSUME Inv, NEW p \in Procs, Proceed(p)
  PROVE  /\ pc[p] \notin {"idle", "done"} /\ UNCHANGED layer
         /\ \A q \in Procs \ {p} : pc'[q] = pc[q] /\ call'[q] = call[q] /\ ret'[q] = ret[q]
         /\ call[p] # None /\ call'[p] # None
         /\ call'[p].op = call[p].op /\ call'[p].d = call[p].d
<1>1. pc[p] \notin {"idle", "done"} /\ UNCHANGED layer
  BY DEF Proceed, ResolveDigest, Measure, Measured, Hash, AskPrimary, Fallback, Falls,
         AskSecondary, AskFresh, Checked, Answered, Copy
<1>2. call[p] \in Calls /\ call[p] # None
  BY <1>1 DEF Inv, Types, Caller, Staged
<1>3. \A q \in Procs \ {p} : pc'[q] = pc[q] /\ ret'[q] = ret[q]
  <2>1. \E l : Goto(p, l)
    BY DEF Proceed, ResolveDigest, Measure, Measured, Hash, AskPrimary, Fallback,
           AskSecondary, AskFresh, Checked, Answered, Copy, Answer
  <2>2. UNCHANGED ret \/ \E r : ret' = [ret EXCEPT ![p] = r]
    BY DEF Proceed, ResolveDigest, Measure, Measured, Hash, AskPrimary, Fallback,
           AskSecondary, AskFresh, Checked, Answered, Copy, Answer
  <2> QED BY <2>1, <2>2 DEF Goto, Inv, Types
<1>4. PICK c \in {call[p]} \cup {[call[p] EXCEPT !.given = d, !.wellformed = TRUE] :
                              d \in {call[p].d, Foreign}} :
        call' = [call EXCEPT ![p] = c]
  <2>1. UNCHANGED call => call' = [call EXCEPT ![p] = call[p]]
    BY DEF Inv, Types
  <2> QED BY <2>1 DEF Proceed, ResolveDigest, Measure, Measured, Hash, AskPrimary, Fallback,
                      AskSecondary, AskFresh, Checked, Answered, Copy
<1>5. c \in Calls /\ c.op = call[p].op /\ c.d = call[p].d
  BY <1>2, <1>4, ForeignAssumption DEF Calls
<1> QED BY <1>1, <1>2, <1>3, <1>4, <1>5, NothingAssumption DEF Inv, Types

\* The steps of `flob add' with files.
LEMMA Steps ==
  ASSUME Inv, Loop, Next, files # <<>>
  PROVE  \/ Start \/ Finish \/ UNCHANGED <<client, command>>
         \/ \E p \in Running : Moves(p)
<1>1. ASSUME NEW p \in Procs, Resolve(p) PROVE p \in Running /\ Moves(p)
  <2>1. /\ p \in Running /\ pc[p] = "idle" /\ UNCHANGED command
        /\ call[p] = None /\ ret[p] = None
    BY <1>1 DEF Resolve, Inv, Caller, Staged
  <2>2. CASE Answer(p, "error") /\ UNCHANGED <<call, layer>>
    BY <2>1, <2>2 DEF Answer, Goto, Moves, command, Inv, Types
  <2>3. CASE ~(Answer(p, "error") /\ UNCHANGED <<call, layer>>)
    <3>1. PICK d \in Contents :
            /\ p \in Stdin /\ drained => d = Empty
            /\ call' = [call EXCEPT ![p] = [op |-> "add", s |-> StoreId, d |-> d,
                                            given |-> None, wellformed |-> TRUE]]
            /\ layer' = [layer EXCEPT ![p] = "plain"]
            /\ pc' = [pc EXCEPT ![p] = "call"] /\ UNCHANGED ret
      BY <1>1, <2>3 DEF Resolve, Goto
    <3>2. [op |-> "add", s |-> StoreId, d |-> d, given |-> None, wellformed |-> TRUE] \in Calls
      BY CommandsAssumption, StoreIdsAssumption DEF Calls, Contents
    <3> QED BY <2>1, <3>1, <3>2, NothingAssumption DEF Moves, command, Inv, Types
  <2> QED BY <2>2, <2>3
<1>2. ASSUME NEW p \in Procs, Work(p) PROVE p \in Running /\ Moves(p)
  <2>1. /\ p \in Workers /\ Proceed(p) /\ UNCHANGED <<files, parallel, next, exit>>
        /\ drained' = (drained \/ (p \in Stdin /\ ret'[p] \in {"ok", "exists"}))
    BY <1>2 DEF Work
  <2>2. ~(p >= next) /\ pc[p] # "done" /\ call[p].op = "add" /\ layer[p] = "plain"
    BY <2>1, Proceeding DEF Loop
  <2>3. p \in Running
    BY <2>1, <2>2, Numbers DEF Running, Workers
  <2> QED BY <2>1, <2>2, <2>3, Proceeding DEF Moves
<1> QED BY <1>1, <1>2 DEF Next, Use, Others, BackendReply, BackendEffect

\* Without files there is no goroutine.
LEMMA NoFiles ==
  ASSUME Loop, Next, files = <<>>
  PROVE  UNCHANGED command /\ Workers = {} /\ Stdin = {} /\ Failed = {} /\ Printed = {}
<1>1. Workers = {} /\ Running = {} /\ exit = 1 /\ exit # None /\ next = 1
  BY Numbers, ExitCodesAssumption DEF Loop
<1>2. ~Start /\ ~Finish /\ \A p \in Procs : ~Resolve(p) /\ ~Work(p)
  BY <1>1, Numbers DEF Start, Finish, Resolve, Work
<1>3. UNCHANGED command
  BY <1>2 DEF Next, Use
<1> QED BY <1>1, <1>3 DEF Stdin, Failed, Printed

\* Every step keeps the loop in order.
LEMMA LoopInv ==
  ASSUME Inv, Loop, Next
  PROVE  Loop'
<1> USE Numbers
<1>1. CASE files = <<>>
  <2>1. UNCHANGED command /\ Workers = {} /\ Workers' = {}
    BY <1>1, NoFiles DEF command, Workers
  <2> QED BY <1>1, <2>1 DEF Loop, command
<1>2. CASE files # <<>>
  <2>0. UNCHANGED files
    BY <1>2, Steps DEF Start, Finish, command, Moves
  <2>1. CASE Start
    <3>1. next' \in 1..(Len(files) + 1) /\ UNCHANGED <<pc, call, layer, exit>>
      BY <2>1 DEF Start, Loop, client
    <3>2. \A p \in Procs : p >= next' => p >= next
      BY <2>1, CommandsAssumption DEF Start
    <3> QED BY <2>0, <3>1, <3>2 DEF Loop, Workers
  <2>2. CASE Finish
    <3>1. Workers = 1..(next - 1) /\ Running = {}
      BY <2>2 DEF Finish, Workers, Loop
    <3>2. \A i \in Workers : pc[i] = "done"
      BY <3>1 DEF Running
    <3> QED BY <1>2, <2>0, <2>2, <3>2 DEF Finish, Loop, client, Workers
  <2>3. CASE UNCHANGED <<client, command>>
    BY <2>3 DEF client, command, Loop, Workers
  <2>4. ASSUME NEW p \in Running, Moves(p) PROVE Loop'
    <3>1. exit = None /\ p \in Procs /\ ~(p >= next)
      BY <2>4 DEF Loop, Moves, Running, Workers
    <3> QED BY <1>2, <2>0, <2>4, <3>1 DEF Moves, Loop, Workers
  <2> QED BY <1>2, <2>1, <2>2, <2>3, <2>4, Steps
<1> QED BY <1>1, <1>2

\* A place in the semaphore of capacity 1 is taken when no goroutine runs.
LEMMA FirstPlace ==
  ASSUME Loop, Start, Stdin # {}
  PROVE  Running = {}
<1>1. Capacity = 1 /\ Cardinality(Running) < 1
  BY DEF Start, Capacity
<1>2. IsFiniteSet(Running)
  <2>1. IsFiniteSet(Procs) /\ Running \subseteq Procs
    BY Numbers, CommandsAssumption, FS_Interval
  <2> QED BY <2>1, FS_Subset
<1>3. Cardinality(Running) = 0
  BY <1>1, <1>2, FS_CardinalityType
<1> QED BY <1>2, <1>3, FS_EmptySet

\* Every step keeps what is known of standard input.
LEMMA SequentialInv ==
  ASSUME Inv, Loop, Sequential, Next
  PROVE  Sequential'
<1> USE Numbers
<1>1. CASE files = <<>>
  <2>1. Stdin' = {}
    BY <1>1, NoFiles DEF command, Stdin, Workers
  <2> QED BY <2>1 DEF Sequential
<1>2. CASE files # <<>>
  <2>0. UNCHANGED files /\ Stdin' = Stdin
    BY <1>2, Steps DEF Start, Finish, command, Moves, Stdin, Workers
  <2>1. CASE Start
    <3>1. Stdin # {} => \A i, j \in Running' : i = j
      <4>1. Stdin # {} => Running = {}
        BY <2>1, FirstPlace
      <4>2. Running' \subseteq Running \cup {next}
        BY <2>1 DEF Start, Running, client
      <4> QED BY <4>1, <4>2
    <3> QED BY <2>0, <2>1, <3>1 DEF Start, Sequential, client
  <2>2. CASE Finish \/ UNCHANGED <<client, command>>
    BY <2>0, <2>2 DEF Finish, Sequential, client, command, Running
  <2>3. ASSUME NEW p \in Running, Moves(p) PROVE Sequential'
    <3>0. p \in Procs /\ \A i \in Stdin : i \in Procs
      OBVIOUS
    <3>1. Running' \subseteq Running
      <4>1. \A q \in 1..(next - 1) : q \in Procs
        BY DEF Loop, Workers
      <4> QED BY <2>3, <4>1 DEF Moves, Running
    <3>2. ASSUME NEW i \in Stdin, ret'[i] \in {"ok", "exists"} PROVE drained'
      <4>1. CASE i # p
        <5>1. ret[i] \in {"ok", "exists"}
          BY <2>3, <3>0, <3>2, <4>1 DEF Moves
        <5>2. drained
          BY <5>1 DEF Sequential
        <5> QED BY <2>3, <5>2 DEF Moves
      <4>2. CASE i = p
        <5>1. call[p] # None
          BY <2>3, <3>2, <4>2, NothingAssumption DEF Moves, Results
        <5> QED BY <2>3, <3>2, <4>2, <5>1 DEF Moves
      <4> QED BY <4>1, <4>2
    <3>3. ASSUME NEW i \in Stdin, NEW j \in Stdin, i # j, ret'[j] \in {"ok", "exists"},
                 call'[i] # None, ret'[i] \in {"ok", "exists", None}
          PROVE  Empty \in {call'[i].d, call'[j].d}
      <4>1. CASE p \notin {i, j}
        BY <2>3, <3>0, <3>3, <4>1 DEF Moves, Sequential
      <4>2. CASE p = i
        <5>1. ret[j] \in {"ok", "exists"} /\ call'[j] = call[j] /\ drained
          BY <2>3, <3>0, <3>3, <4>2 DEF Moves, Sequential
        <5>2. CASE call[i] = None
          BY <2>3, <3>3, <4>2, <5>1, <5>2 DEF Moves
        <5>3. CASE call[i] # None
          <6>1. ret[i] = None
            BY <2>3, <3>0, <4>2, <5>3 DEF Moves, Inv, Caller, Staged
          <6> QED BY <2>3, <3>3, <4>2, <5>1, <5>3, <6>1 DEF Moves, Sequential
        <5> QED BY <5>2, <5>3
      <4>3. CASE p = j
        <5>1. call'[i] = call[i] /\ ret'[i] = ret[i] /\ call[i] # None
          BY <2>3, <3>0, <3>3, <4>3 DEF Moves
        <5>2. call[j] # None /\ call'[j].d = call[j].d /\ ret[j] = None
          <6>1. call[j] # None
            BY <2>3, <3>3, <4>3, NothingAssumption DEF Moves, Results
          <6> QED BY <2>3, <3>0, <4>3, <6>1 DEF Moves, Inv, Caller, Staged
        <5>3. i \notin Running
          BY <3>3, <4>3 DEF Sequential
        <5>4. pc[i] = "done"
          <6>1. ~(i >= next)
            BY <1>2, <3>0, <5>1 DEF Loop, Inv, Caller, Staged
          <6>2. i \in 1..(next - 1)
            BY <6>1 DEF Workers
          <6> QED BY <5>3, <6>2 DEF Running
        <5>5. ret[i] \in {"ok", "exists"}
          BY <3>0, <3>3, <5>1, <5>4 DEF Inv, Caller, Staged
        <5> QED BY <3>3, <5>1, <5>2, <5>5 DEF Sequential
      <4> QED BY <4>1, <4>2, <4>3
    <3> QED BY <2>0, <3>1, <3>2, <3>3 DEF Sequential
  <2> QED BY <1>2, <2>1, <2>2, <2>3, Steps
<1> QED BY <1>1, <1>2

\* A goroutine that is done stays as it is, and its history too, but for growing.
LEMMA DoneStays ==
  ASSUME Inv, Loop, NextH, files # <<>>, NEW i \in Workers, pc[i] = "done"
  PROVE  /\ ret'[i] = ret[i] /\ (i \in made' <=> i \in made)
         /\ call[i] # None => seen[i] \subseteq seen'[i]
<1>1. i \in Procs
  BY Numbers
<1>2. pc'[i] = "done" /\ call'[i] = call[i] /\ ret'[i] = ret[i]
  BY <1>1, Steps DEF NextH, Start, Finish, client, Moves
<1>3. i \notin did'
  BY <1>1, <1>2, NextInv DEF Inv, Caller, Asks
<1>4. i \in made => call[i] # None
  BY <1>1 DEF Inv, Caller, Recalls
<1> QED BY <1>1, <1>2, <1>3, <1>4 DEF NextH, Recorded

\* What the results of the goroutines say of what they did.
LEMMA ResultsTell ==
  ASSUME Inv, Loop, files # <<>>, NEW i \in Workers, pc[i] = "done"
  PROVE  /\ ret[i] \in Results
         /\ ret[i] = "ok" => i \in made
         /\ ret[i] = "exists" => i \notin made
         /\ ret[i] \in {"ok", "exists"} => "present" \in seen[i] /\ call[i] # None
<1>1. i \in Procs
  BY Numbers
<1>2. ret[i] \in Results /\ (call[i] = None => ret[i] = "error")
  BY <1>1 DEF Inv, Types, Caller, Staged
<1>3. call[i] # None => Supported(i) /\ call[i].op = "add" /\ layer[i] = "plain"
  BY <1>1 DEF Inv, Caller, Loop
<1>4. ret[i] = "ok" => i \in made /\ "present" \in seen[i]
  BY <1>1, <1>2, <1>3 DEF Supported, Inv, Caller, Recalls
<1>5. ret[i] = "exists" => i \notin made /\ "present" \in seen[i]
  BY <1>2, <1>3 DEF Supported
<1> QED BY <1>2, <1>4, <1>5

\* Every step keeps the exit code true.
LEMMA ExitInv ==
  ASSUME Inv, Loop, ExitTells, NextH
  PROVE  ExitTells'
<1>0. Next
  BY DEF NextH
<1>1. CASE files = <<>>
  <2>1. UNCHANGED command /\ exit = 1 /\ files' = <<>>
    BY <1>0, <1>1, NoFiles DEF Loop, command
  <2>2. Printed' = {}
    BY <1>0, <1>1, NoFiles DEF command, Printed, Workers
  <2>3. Workers' = {} /\ Workers = {}
    BY <1>0, <1>1, NoFiles DEF command, Workers
  <2> QED BY <2>1, <2>2, <2>3 DEF ExitTells, command
<1>2. CASE files # <<>>
  <2>0. UNCHANGED files /\ Workers' = Workers
    BY <1>0, <1>2, Steps DEF Start, Finish, command, Moves, Workers
  <2>1. CASE exit # None
    <3>1. ASSUME NEW i \in Workers
          PROVE  /\ pc[i] = "done" /\ ret'[i] = ret[i] /\ (i \in made' <=> i \in made)
                 /\ ret[i] \in {"ok", "exists"} /\ "present" \in seen[i] => "present" \in seen'[i]
      <4>1. pc[i] = "done"
        BY <2>1, <3>1 DEF Loop
      <4> QED BY <1>2, <3>1, <4>1, DoneStays, ResultsTell
    <3>2. exit' = exit
      <4>1. \A p \in Running : FALSE
        BY <3>1, Numbers DEF Running
      <4> QED BY <1>0, <1>2, <2>1, <4>1, Steps DEF Start, Finish, command
    <3>3. Failed' = Failed /\ Printed' = Printed /\ made' \cap Workers' = made \cap Workers
      BY <2>0, <3>1 DEF Failed, Printed
    <3>4. \A i \in Printed : "present" \in seen[i] => "present" \in seen'[i]
      BY <3>1 DEF Printed
    <3>5. (\E i \in Workers : ret[i] = "notexist")' <=> \E i \in Workers : ret[i] = "notexist"
      BY <2>0, <3>1
    <3> QED BY <2>0, <2>1, <3>2, <3>3, <3>4, <3>5 DEF ExitTells
  <2>2. CASE exit = None /\ Finish
    <3>0. /\ Len(files) \in Nat /\ Len(files) # 0
          /\ next = Len(files) + 1 /\ Running = {}
      <4>1. Len(files) \in Nat /\ next \in 1..(Len(files) + 1) /\ Len(files) # 0
        BY <1>2, Numbers DEF Loop
      <4>2. next > Len(files) /\ Running = {}
        BY <2>2 DEF Finish
      <4> QED BY <4>1, <4>2
    <3>1. Workers = 1..(next - 1) /\ Running = {} /\ Workers # {}
      <4>1. next - 1 = Len(files) /\ 1 \in 1..Len(files)
        BY <3>0
      <4> QED BY <3>0, <4>1 DEF Workers
    <3>2. \A i \in Workers : pc[i] = "done"
      BY <3>1 DEF Running
    <3>3. ASSUME NEW i \in Workers
          PROVE  /\ ret'[i] = ret[i] /\ (i \in made' <=> i \in made) /\ ret[i] \in Results
                 /\ ret[i] = "ok" => i \in made
                 /\ ret[i] = "exists" => i \notin made
                 /\ ret[i] \in {"ok", "exists"} => "present" \in seen'[i]
      BY <1>2, <3>2, <3>3, DoneStays, ResultsTell
    <3>4. /\ Failed' = Failed /\ Printed' = Printed /\ made' \cap Workers' = made \cap Workers
          /\ (\E i \in Workers : ret[i] = "notexist")' <=> \E i \in Workers : ret[i] = "notexist"
      BY <2>0, <3>3 DEF Failed, Printed
    <3>5. \A i \in Printed' : "present" \in seen'[i]
      BY <3>3, <3>4 DEF Printed
    <3>6. exit' = ExitCode(addOutcome)
      BY <2>2 DEF Finish
    <3>7. CASE Failed # {}
      <4> DEFINE err == {ret[i] : i \in Failed}
      <4>1. addOutcome = err /\ err # {} /\ "exists" \notin err
        BY <3>7 DEF addOutcome, Failed
      <4>2. "notexist" \in err <=> \E i \in Workers : ret[i] = "notexist"
        BY NothingAssumption DEF Failed, Results
      <4>3. exit' = IF "notexist" \in err THEN 4 ELSE 1
        BY <3>6, <4>1 DEF ExitCode
      <4> QED BY <3>4, <3>5, <3>7, <4>2, <4>3 DEF ExitTells
    <3>8. CASE Failed = {} /\ Existed = Workers
      <4>1. exit' = 3
        BY <3>1, <3>6, <3>8 DEF addOutcome, ExitCode
      <4>2. made \cap Workers = {}
        BY <3>3, <3>8 DEF Existed
      <4>3. \A i \in Workers : ret[i] # "notexist"
        BY <3>8 DEF Existed
      <4> QED BY <1>2, <2>0, <3>4, <3>5, <3>8, <4>1, <4>2, <4>3 DEF ExitTells
    <3>9. CASE Failed = {} /\ Existed # Workers
      <4>1. exit' = 0
        BY <3>1, <3>6, <3>9 DEF addOutcome, ExitCode
      <4>2. PICK i \in Workers : ret[i] # "exists"
        BY <3>9 DEF Existed
      <4>3. ret[i] = "ok"
        BY <3>3, <3>9, <4>2, NothingAssumption DEF Failed, Results
      <4>4. made \cap Workers # {}
        BY <3>3, <4>3
      <4>5. \A j \in Workers : ret[j] # "notexist"
        BY <3>9, NothingAssumption DEF Failed, Results
      <4> QED BY <3>4, <3>5, <3>9, <4>1, <4>4, <4>5 DEF ExitTells
    <3> QED BY <3>7, <3>8, <3>9
  <2>3. CASE exit = None /\ ~Finish
    BY <1>0, <1>2, <2>3, Steps DEF Start, command, Moves, ExitTells
  <2> QED BY <2>1, <2>2, <2>3
<1> QED BY <1>1, <1>2

\* The inductive invariant of `flob add' holds in every reachable state.
THEOREM AddInvariance == SpecH => []InvC
<1>1. InitH => InvC
  <2> SUFFICES ASSUME InitH PROVE InvC
    OBVIOUS
  <2>1. PICK n \in 0..MaxFiles : files \in [1..n -> {"path", "-"}]
    BY DEF InitH, Init
  <2>2. files \in Seq({"path", "-"}) /\ Len(files) = n
    BY <2>1, CommandsAssumption
  <2>3. /\ next = 1 /\ exit = (IF files = <<>> THEN 1 ELSE None)
        /\ \A p \in Procs : pc[p] = "idle" /\ call[p] = None /\ ret[p] = None
    BY DEF InitH, Init, InitStores
  <2>4. files = <<>> => Workers = {}
    BY <2>2 DEF Workers
  <2>5. Loop
    BY <2>1, <2>2, <2>3, <2>4, CommandsAssumption DEF Loop
  <2>6. Sequential
    <3>1. Running = {}
      BY <2>3 DEF Running
    <3>2. \A i \in Stdin : ret[i] = None
      BY <2>3, <2>5, Numbers
    <3> QED BY <3>1, <3>2, NothingAssumption DEF Sequential, Results
  <2>7. ExitTells
    <3>1. files = <<>> => Printed = {}
      BY <2>4 DEF Printed
    <3> QED BY <2>3, <2>4, <3>1 DEF ExitTells
  <2> QED BY <2>5, <2>6, <2>7, InitInv DEF InvC
<1>2. InvC /\ [NextH]_<<vars, history>> => InvC'
  <2> SUFFICES ASSUME InvC, [NextH]_<<vars, history>> PROVE InvC'
    OBVIOUS
  <2>1. CASE UNCHANGED <<vars, history>>
    <3>1. Inv'
      BY <2>1, NextInv DEF InvC
    <3>2. Loop' /\ Sequential' /\ ExitTells'
      BY <2>1 DEF vars, history, client, command, InvC, Loop, Sequential, ExitTells, Workers,
                  Running, Stdin, Failed, Printed
    <3> QED BY <3>1, <3>2 DEF InvC
  <2>2. CASE NextH
    BY <2>2, NextInv, LoopInv, SequentialInv, ExitInv DEF NextH, InvC
  <2> QED BY <2>1, <2>2
<1> QED BY <1>1, <1>2, PTL DEF SpecH

\* StdinOnce: of several "-" at most one is answered with the digest of content, for
\* any number of files and any --parallel.
THEOREM OneReaderOfStdin == SpecH => []StdinOnce
<1>1. InvC => StdinOnce
  <2> SUFFICES ASSUME InvC, NEW i \in Stdin, NEW j \in Stdin, i # j,
                      {ret[i], ret[j]} \subseteq {"ok", "exists"}
               PROVE  Empty \in {call[i].d, call[j].d}
    BY DEF StdinOnce
  <2>1. i \in Procs /\ ret[i] \in {"ok", "exists"} /\ ret[j] \in {"ok", "exists"}
    BY Numbers DEF InvC
  <2>2. call[i] # None
    BY <2>1, NothingAssumption DEF InvC, Inv, Caller, Staged, Results
  <2> QED BY <2>1, <2>2 DEF InvC, Sequential
<1> QED BY <1>1, AddInvariance, PTL

\* ExitTells: the exit code of `flob add' says whether anything was written, whether all
\* blobs are there and whether a store has answered ErrNotExist, however the goroutines
\* and other clients interleave.
THEOREM ExitCodeTellsTruth == SpecH => []ExitTells
<1>1. InvC => ExitTells
  BY DEF InvC
<1> QED BY <1>1, AddInvariance, PTL
=============================================================================
