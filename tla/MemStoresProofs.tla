-------------------------- MODULE MemStoresProofs --------------------------
(***************************************************************************)
(* Proofs of the safety properties of MemStores, for any number of stores, *)
(* digests and callers.                                                    *)
(*                                                                         *)
(* The heart of the argument is RefCount.  Every step changes at most one  *)
(* element of the sets that are counted, and only of the blob it works on, *)
(* so each step's proof says which sets stay and which gain or lose one.   *)
(***************************************************************************)
EXTENDS MemStoresInv, MemStoresContract, FiniteSetTheorems, TLAPS

-----------------------------------------------------------------------------
(***************************************************************************)
(* Counting.                                                               *)
(***************************************************************************)

\* There are finitely many keys.
LEMMA FiniteKeys == IsFiniteSet(Keys)
BY FiniteAssumption, FS_Product DEF Keys

\* Counting callers: adding one and removing one.
LEMMA CountProcs ==
  ASSUME NEW S \in SUBSET Procs, NEW p \in Procs
  PROVE  /\ Cardinality(S) \in Nat /\ Cardinality(S) <= Cardinality(Procs)
         /\ Cardinality(S) = 0 <=> S = {}
         /\ p \notin S => Cardinality(S \cup {p}) = Cardinality(S) + 1
         /\ p \in S => Cardinality(S \ {p}) = Cardinality(S) - 1
<1>1. IsFiniteSet(S) /\ Cardinality(S) <= Cardinality(Procs)
  BY FiniteAssumption, FS_Subset
<1> QED BY <1>1, FS_CardinalityType, FS_EmptySet, FS_AddElement, FS_RemoveElement

\* Counting keys: adding one and removing one.
LEMMA CountKeys ==
  ASSUME NEW S \in SUBSET Keys, NEW k \in Keys
  PROVE  /\ Cardinality(S) \in Nat /\ Cardinality(S) <= Cardinality(Keys)
         /\ Cardinality(S) = 0 <=> S = {}
         /\ k \notin S => Cardinality(S \cup {k}) = Cardinality(S) + 1
         /\ k \in S => Cardinality(S \ {k}) = Cardinality(S) - 1
<1>1. IsFiniteSet(S) /\ Cardinality(S) <= Cardinality(Keys)
  BY FiniteKeys, FS_Subset
<1> QED BY <1>1, FS_CardinalityType, FS_EmptySet, FS_AddElement, FS_RemoveElement

\* A call under way has a digest and a key.
LEMMA CallFacts ==
  ASSUME Inv, NEW p \in Procs, pc[p] # "idle"
  PROVE  /\ call[p] \in Calls /\ D(p) \in Digests /\ K(p) \in Keys
         /\ K(p)[2] = D(p)
BY DEF Inv, Types, CallState, Calls, D, K, Keys

\* While nobody holds the mutex of a blob, or while a caller that is not
\* counting holds it, no Add has an entry of the blob to count.
LEMMA NothingUncounted ==
  ASSUME Inv, NEW b \in Blobs,
         mu[b] # None => \E q \in Procs : mu[b] = q /\ pc[q] # "finish"
  PROVE  Uncounted(b) = {} /\ Cardinality(Uncounted(b)) = 0
<1>1. ASSUME NEW q \in Uncounted(b) PROVE FALSE
  <2>1. q \in Procs /\ pc[q] = "finish" /\ cur[q] = b
    BY <1>1 DEF Uncounted
  <2>2. mu[b] = q
    BY <2>1 DEF Inv, Owner, Holding
  <2> QED BY <2>1, <2>2, NoneAssumption
<1>2. Uncounted(b) = {}
  BY <1>1
<1> QED BY <1>2, FS_EmptySet

-----------------------------------------------------------------------------
(***************************************************************************)
(* Steps that touch neither maps nor blobs.                                *)
(***************************************************************************)
Quiet(p) ==
    /\ UNCHANGED <<bs, es, data, mu, refs>>
    /\ \A q \in Procs \ {p} : /\ pc'[q] = pc[q] /\ call'[q] = call[q]
                              /\ cur'[q] = cur[q] /\ ret'[q] = ret[q]
    /\ pc[p] \notin Holding \cup {"dec"}
    /\ pc'[p] \notin Holding \cup {"dec"}
    /\ pc'[p] = "wait" => cur'[p] # None /\ data[cur'[p]] = D(p) /\ call'[p] = call[p]
    /\ pc'[p] # "idle" => call'[p] \in Calls

\* A quiet step that keeps the types keeps the invariant.
LEMMA QuietStep ==
  ASSUME Inv, NEW p \in Procs, Quiet(p), Types'
  PROVE  Inv'
<1>1. \A q \in Procs \ {p} : D(q)' = D(q)
  BY DEF Quiet, D
<1>2. CallState'
  BY <1>1 DEF Quiet, Inv, CallState, Holding, Working, D
<1>3. Owner'
  BY NoneAssumption DEF Quiet, Inv, Owner
<1>4. (BlobOfDigest /\ EntryOfBlob /\ Registered /\ NoZombie)'
  BY DEF Quiet, Inv, BlobOfDigest, EntryOfBlob, Registered, NoZombie
<1>5. Counts'
  BY DEF Quiet, Inv, Counts, Holding
<1>6. RefCount'
  <2>1. \A b \in Blobs : /\ Pointing(b)' = Pointing(b)
                         /\ Owing(b)' = Owing(b)
                         /\ Uncounted(b)' = Uncounted(b)
    BY DEF Quiet, Pointing, Owing, Uncounted, Holding
  <2> QED BY <2>1 DEF Quiet, Inv, RefCount
<1> QED BY <1>2, <1>3, <1>4, <1>5, <1>6 DEF Inv

\* Invoke, Refuse, Return, AddGiven, AddRead, Load and LabelStore are quiet.
LEMMA LooksInv ==
  ASSUME Inv, NEW p \in Procs,
         \/ Invoke(p) \/ Refuse(p) \/ Return(p) \/ AddGiven(p) \/ AddRead(p)
         \/ Load(p) \/ LabelStore(p)
  PROVE  Inv'
<1>0. Types /\ CallState
  BY DEF Inv
<1>1. CASE Invoke(p)
  <2>1. PICK c \in Calls : call' = [call EXCEPT ![p] = c]
                           /\ Goto(p, IF c.wellformed THEN FirstStep(c.op) ELSE "refuse")
    BY <1>1 DEF Invoke
  <2>2. FirstStep(c.op) \in {"given", "detach", "load"}
    BY DEF FirstStep
  <2> QED BY <1>0, <1>1, <2>1, <2>2, QuietStep
      DEF Invoke, Types, PCs, Quiet, Goto, maps, blobs, Holding
<1>2. CASE Refuse(p)
  <2>1. Refusal(call[p].op) \in Results
    BY DEF Refusal, Results
  <2> QED BY <1>0, <1>2, <2>1, QuietStep
      DEF Refuse, Types, CallState, PCs, Quiet, Answer, Goto, maps, blobs, Holding
<1>3. CASE Return(p)
  BY <1>0, <1>3, QuietStep
  DEF Return, Types, BlobOrNone, PCs, Quiet, Answer, Goto, maps, blobs, Holding
<1>4. CASE AddGiven(p)
  BY <1>0, <1>4, QuietStep
  DEF AddGiven, Types, CallState, PCs, Results, Quiet, Answer, Continue, Goto, maps,
      blobs, Holding
<1>5. CASE AddRead(p)
  BY <1>0, <1>5, QuietStep
  DEF AddRead, Types, CallState, PCs, Results, Quiet, Answer, Continue, Goto, maps,
      blobs, Holding
<1>6. CASE Load(p)
  <2>1. K(p) \in Keys
    BY <1>6, CallFacts DEF Load
  <2> QED BY <1>0, <1>6, <2>1, QuietStep
      DEF Load, Types, CallState, PCs, Results, Quiet, Answer, Continue, Goto, maps,
          blobs, Holding
<1>7. CASE LabelStore(p)
  BY <1>0, <1>7, QuietStep
  DEF LabelStore, Types, CallState, PCs, Results, Quiet, Answer, Goto, maps, blobs, Holding
<1> QED BY <1>1, <1>2, <1>3, <1>4, <1>5, <1>6, <1>7

-----------------------------------------------------------------------------
(***************************************************************************)
(* Add.                                                                    *)
(***************************************************************************)

\* LoadOrStore puts a fresh blob, locked, where there was none, or picks up the
\* blob that is there.
LEMMA AddStoreInv ==
  ASSUME Inv, NEW p \in Procs, AddStore(p)
  PROVE  Inv'
<1>0. Types /\ CallState /\ D(p) \in Digests /\ pc[p] = "store"
  BY CallFacts DEF Inv, AddStore
<1>1. CASE bs[D(p)] # None
  BY <1>0, <1>1, QuietStep
  DEF AddStore, Inv, BlobOfDigest, Types, BlobOrNone, CallState, PCs, Quiet, Continue,
      Goto, blobs, Holding
<1>2. CASE bs[D(p)] = None
  <2>1. PICK b \in FreeBlobs : /\ bs' = [bs EXCEPT ![D(p)] = b]
                              /\ data' = [data EXCEPT ![b] = D(p)]
                              /\ refs' = [refs EXCEPT ![b] = 0]
                              /\ mu' = [mu EXCEPT ![b] = p]
                              /\ cur' = [cur EXCEPT ![p] = b]
    BY <1>2 DEF AddStore
  <2>2. pc' = [pc EXCEPT ![p] = "entry"] /\ UNCHANGED <<es, call, ret>>
    BY <1>2 DEF AddStore, Continue, Goto
  <2>3. /\ b \in Blobs
        /\ \A d \in Digests : bs[d] # b
        /\ \A k \in Keys : es[k] # b
        /\ \A q \in Procs : cur[q] # b
    BY <2>1 DEF FreeBlobs
  <2>4. mu[b] = None
    BY <2>3 DEF Inv, Types, Owner
  <2>5. \A q \in Procs : D(q)' = D(q)
    BY <2>2 DEF D
  <2>6. Types'
    BY <1>0, <2>1, <2>2, <2>3 DEF Types, BlobOrNone, PCs
  <2>7. CallState'
    BY <1>0, <2>1, <2>2, <2>3, <2>5, NoneAssumption DEF Types, CallState, Working
  <2>8. Owner'
    BY <1>0, <2>1, <2>2, <2>3, <2>4, NoneAssumption DEF Inv, Types, Owner, Holding
  <2>9. (BlobOfDigest /\ EntryOfBlob)'
    BY <1>0, <1>2, <2>1, <2>2, <2>3 DEF Inv, Types, BlobOfDigest, EntryOfBlob, Keys
  <2>10. Registered'
    BY <1>0, <1>2, <2>1, <2>2, <2>3, NoneAssumption DEF Inv, Types, Registered
  <2>11. Counts'
    BY <1>0, <2>1, <2>2, <2>3 DEF Inv, Types, Counts
  <2>12. NoZombie'
    BY <1>0, <2>1, <2>3, NoneAssumption DEF Inv, Types, NoZombie
  <2>13. RefCount'
    <3>1. \A c \in Blobs : /\ Pointing(c)' = Pointing(c)
                           /\ Owing(c)' = Owing(c)
                           /\ Uncounted(c)' = Uncounted(c)
      BY <1>0, <2>1, <2>2, <2>3 DEF Types, Pointing, Owing, Uncounted
    <3>2. Pointing(b) = {} /\ Owing(b) = {} /\ Uncounted(b) = {}
      BY <2>3 DEF Pointing, Owing, Uncounted
    <3>3. \A c \in Blobs \ {b} : refs'[c] = refs[c]
      BY <2>1 DEF Inv, Types
    <3>4. refs'[b] = 0
      BY <2>1, <2>3 DEF Inv, Types
    <3> QED BY <3>1, <3>2, <3>3, <3>4, FS_EmptySet DEF Inv, RefCount
  <2> QED BY <2>6, <2>7, <2>8, <2>9, <2>10, <2>11, <2>12, <2>13 DEF Inv
<1> QED BY <1>1, <1>2

\* A blob without references sends the Add back; otherwise the Add takes its
\* mutex, and the blob is still in bs.
LEMMA AddWaitInv ==
  ASSUME Inv, NEW p \in Procs, AddWait(p)
  PROVE  Inv'
<1>0. /\ Types /\ CallState /\ pc[p] = "wait" /\ cur[p] \in Blobs
      /\ mu[cur[p]] = None /\ D(p) \in Digests /\ call[p] \in Calls
  BY CallFacts DEF Inv, AddWait, Types, BlobOrNone, CallState, Working
<1>1. CASE refs[cur[p]] = 0
  BY <1>0, <1>1, QuietStep
  DEF AddWait, Types, BlobOrNone, PCs, Quiet, Continue, Goto, maps, Holding
<1>2. CASE refs[cur[p]] # 0
  <2>1. /\ mu' = [mu EXCEPT ![cur[p]] = p]
        /\ pc' = [pc EXCEPT ![p] = "entry"]
        /\ UNCHANGED <<bs, es, data, refs, call, cur, ret>>
    BY <1>2 DEF AddWait, Continue, Goto, maps
  <2>2. refs[cur[p]] > 0
    BY <1>0, <1>2 DEF Types
  <2>3. \A q \in Procs : D(q)' = D(q)
    BY <2>1 DEF D
  <2>4. Types' /\ CallState'
    BY <1>0, <2>1, <2>3 DEF Types, PCs, CallState, Working
  <2>5. Owner'
    BY <1>0, <2>1, NoneAssumption DEF Inv, Types, Owner, Holding
  <2>6. (BlobOfDigest /\ EntryOfBlob /\ Counts)'
    BY <1>0, <2>1 DEF Inv, Types, BlobOfDigest, EntryOfBlob, Counts
  <2>7. (Registered /\ NoZombie)'
    BY <1>0, <2>1, <2>2, NoneAssumption DEF Inv, Types, BlobOrNone, Registered, NoZombie
  <2>8. RefCount'
    <3>1. \A c \in Blobs : /\ Pointing(c)' = Pointing(c)
                           /\ Owing(c)' = Owing(c)
                           /\ Uncounted(c)' = Uncounted(c)
      BY <1>0, <2>1 DEF Types, Pointing, Owing, Uncounted
    <3> QED BY <2>1, <3>1 DEF Inv, RefCount
  <2> QED BY <2>4, <2>5, <2>6, <2>7, <2>8 DEF Inv
<1> QED BY <1>1, <1>2

\* A new entry is one more to point to the blob and one more to count; an Add
\* that meets an entry meets one of its own blob, which is therefore referred to.
LEMMA AddEntryInv ==
  ASSUME Inv, NEW p \in Procs, NEW b \in Blobs, b = cur[p], AddEntry(p)
  PROVE  Inv'
<1>0. /\ Types /\ CallState /\ pc[p] = "entry" /\ data[b] = D(p)
      /\ D(p) \in Digests /\ K(p) \in Keys /\ K(p)[2] = D(p)
  BY CallFacts DEF Inv, AddEntry, Types, BlobOrNone, CallState, Working
<1>1. mu[b] = p /\ bs[D(p)] = b
  BY <1>0, NoneAssumption DEF Inv, Owner, Holding, Registered
<1>2. Uncounted(b) = {} /\ Cardinality(Uncounted(b)) = 0
  BY <1>0, <1>1, NothingUncounted
<1>3. PICK r \in {"ok", "exists"} :
        /\ pc' = [pc EXCEPT ![p] = "finish"] /\ ret' = [ret EXCEPT ![p] = r]
        /\ es' = IF r = "ok" THEN [es EXCEPT ![K(p)] = b] ELSE es
        /\ es[K(p)] = None <=> r = "ok"
  <2>1. CASE es[K(p)] = None
    BY <2>1 DEF AddEntry, Answer, Goto
  <2>2. CASE es[K(p)] # None
    BY <2>2 DEF AddEntry, Answer, Goto
  <2> QED BY <2>1, <2>2
<1>4. UNCHANGED <<bs, data, mu, refs, call, cur>>
  BY DEF AddEntry, blobs
<1>5. \A q \in Procs : D(q)' = D(q)
  BY <1>4 DEF D
<1>6. r = "exists" => refs[b] > 0
  <2>1. ASSUME r = "exists" PROVE K(p) \in Pointing(b)
    BY <2>1, <1>0, <1>1, <1>3 DEF Inv, EntryOfBlob, Pointing
  <2>2. Pointing(b) \in SUBSET Keys /\ Owing(b) \in SUBSET Procs
    BY DEF Pointing, Owing
  <2>3. /\ Cardinality(Pointing(b)) \in Nat /\ Cardinality(Owing(b)) \in Nat
        /\ Cardinality(Pointing(b)) = 0 <=> Pointing(b) = {}
    BY <1>0, <2>2, CountKeys, CountProcs
  <2>4. refs[b] \in Nat /\ refs[b] + 0 = Cardinality(Pointing(b)) + Cardinality(Owing(b))
    BY <1>0, <1>2 DEF Inv, Types, RefCount
  <2> QED BY <2>1, <2>3, <2>4
<1>7. Types'
  BY <1>0, <1>3, <1>4 DEF Types, BlobOrNone, PCs, Results
<1>8. CallState'
  BY <1>0, <1>3, <1>4, <1>5 DEF Types, CallState, Working
<1>9. Owner'
  BY <1>0, <1>3, <1>4 DEF Inv, Types, Owner, Holding
<1>10. (BlobOfDigest /\ EntryOfBlob /\ Registered /\ NoZombie)'
  BY <1>0, <1>1, <1>3, <1>4 DEF Inv, Types, BlobOfDigest, EntryOfBlob, Registered, NoZombie
<1>11. Counts'
  BY <1>0, <1>3, <1>4, <1>6 DEF Inv, Types, Counts
<1>12. RefCount'
  <2>1. \A c \in Blobs : Owing(c)' = Owing(c)
    BY <1>0, <1>3, <1>4 DEF Types, Owing
  <2>2. \A c \in Blobs \ {b} : Pointing(c)' = Pointing(c) /\ Uncounted(c)' = Uncounted(c)
    <3>1. \A c \in Blobs \ {b} : Uncounted(c)' = Uncounted(c)
      BY <1>0, <1>3, <1>4 DEF Types, Uncounted
    <3>2. \A c \in Blobs \ {b} : Pointing(c)' = Pointing(c)
      BY <1>0, <1>3, NoneAssumption DEF Types, Pointing
    <3> QED BY <3>1, <3>2
  <2>3. CASE r = "ok"
    <3>1. Pointing(b)' = Pointing(b) \cup {K(p)} /\ K(p) \notin Pointing(b)
      BY <2>3, <1>0, <1>3, <1>4, NoneAssumption DEF Types, Pointing
    <3>2. Uncounted(b)' = Uncounted(b) \cup {p} /\ p \notin Uncounted(b)
      BY <2>3, <1>0, <1>3, <1>4 DEF Types, Uncounted
    <3>3. Pointing(b) \in SUBSET Keys /\ Uncounted(b) \in SUBSET Procs
          /\ Owing(b) \in SUBSET Procs
      BY DEF Pointing, Uncounted, Owing
    <3>4. /\ Cardinality(Pointing(b)') = Cardinality(Pointing(b)) + 1
          /\ Cardinality(Uncounted(b)') = Cardinality(Uncounted(b)) + 1
          /\ Cardinality(Pointing(b)) \in Nat /\ Cardinality(Uncounted(b)) \in Nat
          /\ Cardinality(Owing(b)) \in Nat /\ refs[b] \in Nat
      <4>1. /\ Cardinality(Pointing(b)') = Cardinality(Pointing(b)) + 1
            /\ Cardinality(Pointing(b)) \in Nat
        BY <1>0, <3>1, <3>3, CountKeys
      <4>2. /\ Cardinality(Uncounted(b)') = Cardinality(Uncounted(b)) + 1
            /\ Cardinality(Uncounted(b)) \in Nat /\ Cardinality(Owing(b)) \in Nat
        BY <3>2, <3>3, CountProcs
      <4> QED BY <1>0, <4>1, <4>2 DEF Types
    <3>5. refs[b] + Cardinality(Uncounted(b)') =
            Cardinality(Pointing(b)') + Cardinality(Owing(b))
      BY <3>4 DEF Inv, RefCount
    <3> QED BY <1>4, <2>1, <2>2, <3>5 DEF Inv, RefCount
  <2>4. CASE r = "exists"
    <3>1. Pointing(b)' = Pointing(b) /\ Uncounted(b)' = Uncounted(b)
      BY <2>4, <1>0, <1>3, <1>4 DEF Types, Pointing, Uncounted
    <3> QED BY <1>0, <1>4, <2>1, <2>2, <3>1 DEF Inv, RefCount
  <2> QED BY <2>3, <2>4
<1> QED BY <1>7, <1>8, <1>9, <1>10, <1>11, <1>12 DEF Inv

\* The Add counts its entry and lets go of the mutex.
LEMMA AddFinishInv ==
  ASSUME Inv, NEW p \in Procs, NEW b \in Blobs, b = cur[p], AddFinish(p)
  PROVE  Inv'
<1>0. /\ Types /\ CallState /\ pc[p] = "finish" /\ data[b] = D(p)
      /\ D(p) \in Digests /\ ret[p] \in {"ok", "exists"}
  BY CallFacts DEF Inv, AddFinish, Types, BlobOrNone, CallState, Working
<1>1. mu[b] = p /\ bs[D(p)] = b
  BY <1>0, NoneAssumption DEF Inv, Owner, Holding, Registered
<1>2. /\ refs' = [refs EXCEPT ![b] = IF ret[p] = "ok" THEN @ + 1 ELSE @]
      /\ mu' = [mu EXCEPT ![b] = None] /\ cur' = [cur EXCEPT ![p] = None]
      /\ pc' = [pc EXCEPT ![p] = "done"]
      /\ UNCHANGED <<bs, es, data, call, ret>>
  BY DEF AddFinish, Goto, maps
<1>3. /\ \A c \in Blobs \ {b} : refs'[c] = refs[c]
      /\ refs'[b] = IF ret[p] = "ok" THEN refs[b] + 1 ELSE refs[b]
      /\ refs' \in [Blobs -> Nat] /\ refs'[b] > 0
  BY <1>0, <1>2 DEF Inv, Types, Counts
<1>4. \A q \in Procs : D(q)' = D(q)
  BY <1>2 DEF D
<1>5. Types'
  BY <1>0, <1>2, <1>3 DEF Types, BlobOrNone, PCs
<1>6. CallState'
  BY <1>0, <1>2, <1>4 DEF Types, CallState, Working
<1>7. Owner'
  BY <1>0, <1>1, <1>2, NoneAssumption DEF Inv, Types, Owner, Holding
<1>8. (BlobOfDigest /\ EntryOfBlob)'
  BY <1>2 DEF Inv, BlobOfDigest, EntryOfBlob
<1>9. (Registered /\ NoZombie)'
  BY <1>0, <1>1, <1>2, <1>3, NoneAssumption
  DEF Inv, Types, BlobOrNone, BlobOfDigest, Registered, NoZombie
<1>10. Counts'
  <2>1. \A q \in Procs \ {p} : pc[q] \in {"delete", "finish"} => cur[q] # b
    BY <1>0, <1>1 DEF Inv, Owner, Holding
  <2>2. \A q \in Procs : pc[q] \in {"delete", "finish"} => cur[q] \in Blobs
    BY <1>0 DEF Types, BlobOrNone, CallState, Working
  <2> QED BY <1>0, <1>2, <1>3, <2>1, <2>2 DEF Inv, Types, Counts
<1>11. RefCount'
  <2>1. \A c \in Blobs : Pointing(c)' = Pointing(c) /\ Owing(c)' = Owing(c)
    BY <1>0, <1>2, NoneAssumption DEF Types, Pointing, Owing
  <2>2. \A c \in Blobs \ {b} : Uncounted(c)' = Uncounted(c)
    BY <1>0, <1>2 DEF Types, Uncounted
  <2>3. Uncounted(b)' = Uncounted(b) \ {p} /\ (p \in Uncounted(b) <=> ret[p] = "ok")
    BY <1>0, <1>2 DEF Types, Uncounted
  <2>4. Uncounted(b) \in SUBSET Procs
    BY DEF Uncounted
  <2>5. /\ Cardinality(Uncounted(b)) \in Nat /\ refs[b] \in Nat
        /\ Cardinality(Uncounted(b)') =
             IF ret[p] = "ok" THEN Cardinality(Uncounted(b)) - 1
                              ELSE Cardinality(Uncounted(b))
    <3>1. Cardinality(Uncounted(b)) \in Nat /\ refs[b] \in Nat
      BY <1>0, <2>4, CountProcs DEF Types
    <3>2. CASE ret[p] = "ok"
      BY <3>1, <3>2, <2>3, <2>4, CountProcs
    <3>3. CASE ret[p] # "ok"
      <4>1. Uncounted(b)' = Uncounted(b)
        BY <3>3, <2>3
      <4> QED BY <3>1, <3>3, <4>1
    <3> QED BY <3>2, <3>3
  <2>6. refs'[b] + Cardinality(Uncounted(b)') = refs[b] + Cardinality(Uncounted(b))
    BY <1>3, <2>5
  <2> QED BY <1>0, <1>3, <2>1, <2>2, <2>6 DEF Inv, RefCount
<1> QED BY <1>5, <1>6, <1>7, <1>8, <1>9, <1>10, <1>11 DEF Inv

-----------------------------------------------------------------------------
(***************************************************************************)
(* Erase.                                                                  *)
(***************************************************************************)

\* Detaching an entry moves one from those that point to those that owe.
LEMMA EraseDetachInv ==
  ASSUME Inv, NEW p \in Procs, EraseDetach(p)
  PROVE  Inv'
<1>0. /\ Types /\ CallState /\ pc[p] = "detach" /\ call[p] \in Calls
      /\ D(p) \in Digests /\ K(p) \in Keys /\ K(p)[2] = D(p)
  BY CallFacts DEF Inv, EraseDetach
<1>1. CASE es[K(p)] = None
  BY <1>0, <1>1, QuietStep
  DEF EraseDetach, Types, PCs, Results, Quiet, Answer, Goto, blobs, Holding
<1>2. CASE es[K(p)] # None
  <2>1. PICK b \in Blobs : b = es[K(p)]
    BY <1>0, <1>2 DEF Types, BlobOrNone
  <2>2. /\ cur' = [cur EXCEPT ![p] = b] /\ es' = [es EXCEPT ![K(p)] = None]
        /\ pc' = [pc EXCEPT ![p] = "dec"]
        /\ UNCHANGED <<bs, data, mu, refs, call, ret>>
    BY <1>2, <2>1 DEF EraseDetach, Continue, Goto, blobs
  <2>3. \A q \in Procs : D(q)' = D(q)
    BY <2>2 DEF D
  <2>4. data[b] = D(p)
    BY <1>0, <1>2, <2>1 DEF Inv, EntryOfBlob, BlobOfDigest
  <2>5. Types'
    BY <1>0, <2>2 DEF Types, BlobOrNone, PCs
  <2>6. CallState'
    BY <1>0, <2>2, <2>3, <2>4, NoneAssumption DEF Types, CallState, Working
  <2>7. Owner'
    BY <1>0, <2>2 DEF Inv, Types, Owner, Holding
  <2>8. (BlobOfDigest /\ EntryOfBlob /\ Registered /\ NoZombie)'
    BY <1>0, <2>2 DEF Inv, Types, BlobOfDigest, EntryOfBlob, Registered, NoZombie
  <2>9. Counts'
    BY <1>0, <2>2 DEF Inv, Types, Counts
  <2>10. RefCount'
    <3>1. \A c \in Blobs : Uncounted(c)' = Uncounted(c)
      BY <1>0, <2>2 DEF Types, Uncounted
    <3>2. \A c \in Blobs \ {b} : Pointing(c)' = Pointing(c)
      BY <1>0, <2>1, <2>2, NoneAssumption DEF Types, Pointing
    <3>3. \A c \in Blobs \ {b} : Owing(c)' = Owing(c)
      BY <1>0, <2>2 DEF Types, Owing
    <3>4. Pointing(b)' = Pointing(b) \ {K(p)} /\ K(p) \in Pointing(b)
      BY <1>0, <2>1, <2>2, NoneAssumption DEF Types, Pointing
    <3>5. Owing(b)' = Owing(b) \cup {p} /\ p \notin Owing(b)
      BY <1>0, <2>2 DEF Types, Owing
    <3>6. Pointing(b) \in SUBSET Keys /\ Owing(b) \in SUBSET Procs
      BY DEF Pointing, Owing
    <3>7. Cardinality(Pointing(b)') = Cardinality(Pointing(b)) - 1
          /\ Cardinality(Pointing(b)) \in Nat
      BY <1>0, <3>4, <3>6, CountKeys
    <3>8. Cardinality(Owing(b)') = Cardinality(Owing(b)) + 1
          /\ Cardinality(Owing(b)) \in Nat
      BY <3>5, <3>6, CountProcs
    <3>9. Cardinality(Pointing(b)') + Cardinality(Owing(b)') =
            Cardinality(Pointing(b)) + Cardinality(Owing(b))
      BY <3>7, <3>8
    <3> QED BY <2>2, <3>1, <3>2, <3>3, <3>9 DEF Inv, RefCount
  <2> QED BY <2>5, <2>6, <2>7, <2>8, <2>9, <2>10 DEF Inv
<1> QED BY <1>1, <1>2

\* An Erase takes its entry off a count that is not 0; at 0 it keeps the mutex of
\* the blob, which is in bs.
LEMMA EraseDecInv ==
  ASSUME Inv, NEW p \in Procs, NEW b \in Blobs, b = cur[p], EraseDec(p)
  PROVE  Inv'
<1>0. /\ Types /\ CallState /\ pc[p] = "dec" /\ mu[b] = None /\ data[b] = D(p)
      /\ D(p) \in Digests /\ call[p] \in Calls
  BY CallFacts DEF Inv, EraseDec, Types, CallState, Working
<1>1. /\ Pointing(b) \in SUBSET Keys /\ Owing(b) \in SUBSET Procs /\ p \in Owing(b)
      /\ Cardinality(Uncounted(b)) = 0
  BY <1>0, NothingUncounted DEF Pointing, Owing
<1>2. Cardinality(Owing(b)) \in Nat /\ Cardinality(Owing(b)) # 0
  BY <1>1, CountProcs
<1>3. Cardinality(Pointing(b)) \in Nat
  BY <1>1, FiniteKeys, FS_Subset, FS_CardinalityType
<1>4. refs[b] \in Nat /\ refs[b] > 0
  BY <1>0, <1>1, <1>2, <1>3 DEF Inv, Types, RefCount
<1>5. Decrement(refs[b]) = refs[b] - 1 /\ refs[b] - 1 \in Nat
  BY <1>4 DEF Decrement
<1>6. /\ refs' = [refs EXCEPT ![b] = refs[b] - 1]
      /\ refs'[b] = refs[b] - 1 /\ \A c \in Blobs \ {b} : refs'[c] = refs[c]
      /\ UNCHANGED <<bs, es, data, call>>
  BY <1>0, <1>5 DEF EraseDec, maps, Types
<1>7. bs[D(p)] = b
  BY <1>0, <1>4 DEF Inv, Registered
<1>8. \A q \in Procs : pc[q] \in {"delete", "finish"} => cur[q] \in Blobs /\ cur[q] # b
  BY <1>0, NoneAssumption DEF Inv, Types, BlobOrNone, CallState, Working, Owner, Holding
<1>9. RefCount'
  <2>1. \A c \in Blobs : Pointing(c)' = Pointing(c)
    BY <1>6 DEF Pointing
  <2>2. \A q \in Procs \ {p} : pc'[q] = pc[q] /\ cur'[q] = cur[q] /\ ret'[q] = ret[q]
    BY <1>0 DEF EraseDec, Types, Answer, Continue, Goto
  <2>3. pc'[p] \in {"done", "delete"}
    BY <1>0 DEF EraseDec, Types, Answer, Continue, Goto
  <2>4. \A c \in Blobs : Uncounted(c)' = Uncounted(c)
    BY <1>0, <2>2, <2>3 DEF Uncounted
  <2>5. \A c \in Blobs \ {b} : Owing(c)' = Owing(c)
    BY <1>0, <2>2, <2>3 DEF Owing
  <2>6. Owing(b)' = Owing(b) \ {p}
    BY <1>0, <2>2, <2>3 DEF Owing
  <2>7. Cardinality(Owing(b)') = Cardinality(Owing(b)) - 1
    BY <1>1, <2>6, CountProcs
  <2>8. refs'[b] + Cardinality(Uncounted(b)) =
          Cardinality(Pointing(b)) + Cardinality(Owing(b)')
    BY <1>1, <1>2, <1>3, <1>4, <1>6, <2>7 DEF Inv, RefCount
  <2> QED BY <1>6, <2>1, <2>4, <2>5, <2>8 DEF Inv, RefCount
<1>10. \A q \in Procs : D(q)' = D(q)
  BY <1>6 DEF D
<1>11. (BlobOfDigest /\ EntryOfBlob)'
  BY <1>6 DEF Inv, BlobOfDigest, EntryOfBlob
<1>12. CASE refs[b] - 1 > 0
  <2>1. /\ cur' = [cur EXCEPT ![p] = None] /\ ret' = [ret EXCEPT ![p] = "ok"]
        /\ pc' = [pc EXCEPT ![p] = "done"] /\ UNCHANGED mu
    BY <1>5, <1>12 DEF EraseDec, Answer, Goto
  <2>2. Types'
    BY <1>0, <1>5, <1>6, <2>1 DEF Types, BlobOrNone, PCs, Results
  <2>3. CallState'
    BY <1>0, <1>6, <1>10, <2>1 DEF Types, CallState, Working
  <2>4. Owner'
    BY <1>0, <2>1 DEF Inv, Types, Owner, Holding
  <2>5. (Registered /\ NoZombie)'
    BY <1>0, <1>6, <1>7, <1>12, <2>1, <2>2
    DEF Inv, Types, BlobOrNone, Registered, NoZombie
  <2>6. Counts'
    BY <1>0, <1>6, <1>8, <2>1 DEF Inv, Types, Counts
  <2> QED BY <1>9, <1>11, <2>2, <2>3, <2>4, <2>5, <2>6 DEF Inv
<1>13. CASE ~(refs[b] - 1 > 0)
  <2>1. /\ mu' = [mu EXCEPT ![b] = p] /\ pc' = [pc EXCEPT ![p] = "delete"]
        /\ UNCHANGED <<cur, ret>>
    BY <1>5, <1>13 DEF EraseDec, Continue, Goto
  <2>2. refs'[b] = 0
    <3>1. refs[b] - 1 = 0
      BY <1>4, <1>5, <1>13
    <3> QED BY <1>6, <3>1
  <2>3. Types'
    BY <1>0, <1>5, <1>6, <2>1 DEF Types, PCs
  <2>4. CallState'
    BY <1>0, <1>6, <1>10, <2>1 DEF Types, CallState, Working
  <2>5. Owner'
    BY <1>0, <2>1, NoneAssumption DEF Inv, Types, Owner, Holding
  <2>6. (Registered /\ NoZombie)'
    BY <1>0, <1>6, <1>7, <2>1, <2>3, NoneAssumption
    DEF Inv, Types, BlobOrNone, Registered, NoZombie
  <2>7. Counts'
    BY <1>0, <1>6, <1>8, <2>1, <2>2 DEF Inv, Types, Counts
  <2> QED BY <1>9, <1>11, <2>3, <2>4, <2>5, <2>6, <2>7 DEF Inv
<1> QED BY <1>12, <1>13

\* A blob is deleted when nothing points to it; what bs.Delete removes is that
\* blob and no other.
LEMMA EraseDeleteInv ==
  ASSUME Inv, NEW p \in Procs, NEW b \in Blobs, b = cur[p], EraseDelete(p)
  PROVE  Inv'
<1>0. /\ Types /\ CallState /\ pc[p] = "delete" /\ data[b] = D(p)
      /\ D(p) \in Digests /\ call[p] \in Calls
  BY CallFacts DEF Inv, EraseDelete, Types, CallState, Working
<1>1. mu[b] = p /\ bs[D(p)] = b /\ refs[b] = 0
  BY <1>0, NoneAssumption DEF Inv, Owner, Holding, Registered, Counts
<1>2. Pointing(b) = {}
  <2>1. Cardinality(Uncounted(b)) = 0
    BY <1>0, <1>1, NothingUncounted
  <2>2. Pointing(b) \in SUBSET Keys /\ Owing(b) \in SUBSET Procs
    BY DEF Pointing, Owing
  <2>3. /\ IsFiniteSet(Pointing(b)) /\ Cardinality(Pointing(b)) \in Nat
        /\ Cardinality(Owing(b)) \in Nat
    BY <2>2, FiniteKeys, FiniteAssumption, FS_Subset, FS_CardinalityType
  <2>4. Cardinality(Pointing(b)) = 0
    BY <1>1, <2>1, <2>3 DEF Inv, RefCount
  <2> QED BY <2>3, <2>4, FS_EmptySet
<1>3. /\ bs' = [bs EXCEPT ![D(p)] = None] /\ mu' = [mu EXCEPT ![b] = None]
      /\ cur' = [cur EXCEPT ![p] = None] /\ ret' = [ret EXCEPT ![p] = "ok"]
      /\ pc' = [pc EXCEPT ![p] = "done"] /\ UNCHANGED <<es, data, refs, call>>
  BY DEF EraseDelete, Answer, Goto
<1>4. \A q \in Procs : D(q)' = D(q)
  BY <1>3 DEF D
<1>5. Types'
  BY <1>0, <1>3 DEF Types, BlobOrNone, PCs, Results
<1>6. CallState'
  BY <1>0, <1>3, <1>4 DEF Types, CallState, Working
<1>7. Owner'
  BY <1>0, <1>1, <1>3, NoneAssumption DEF Inv, Types, Owner, Holding
<1>8. BlobOfDigest'
  BY <1>0, <1>3 DEF Inv, Types, BlobOfDigest
<1>9. EntryOfBlob'
  BY <1>0, <1>1, <1>2, <1>3 DEF Inv, Types, EntryOfBlob, Pointing, Keys
<1>10. Registered'
  BY <1>0, <1>1, <1>3 DEF Inv, Types, Registered
<1>11. NoZombie'
  BY <1>0, <1>1, <1>3 DEF Inv, Types, BlobOrNone, BlobOfDigest, NoZombie
<1>12. Counts'
  BY <1>0, <1>3 DEF Inv, Types, Counts
<1>13. RefCount'
  <2>1. \A c \in Blobs : /\ Pointing(c)' = Pointing(c)
                         /\ Owing(c)' = Owing(c)
                         /\ Uncounted(c)' = Uncounted(c)
    BY <1>0, <1>3 DEF Types, Pointing, Owing, Uncounted
  <2> QED BY <1>3, <2>1 DEF Inv, RefCount
<1> QED BY <1>5, <1>6, <1>7, <1>8, <1>9, <1>10, <1>11, <1>12, <1>13 DEF Inv

-----------------------------------------------------------------------------
(***************************************************************************)
(* The theorems.                                                           *)
(***************************************************************************)

\* The stores start empty, with nothing to count.
LEMMA InitInv == Init => Inv
<1> SUFFICES ASSUME Init PROVE Inv
  OBVIOUS
<1>1. Types
  BY DEF Init, Types, BlobOrNone, PCs
<1>2. CallState /\ Counts
  BY DEF Init, CallState, Counts, Working
<1>3. Owner
  BY NoneAssumption DEF Init, Owner, Holding
<1>4. BlobOfDigest /\ EntryOfBlob /\ Registered /\ NoZombie
  BY DEF Init, BlobOfDigest, EntryOfBlob, Registered, NoZombie
<1>5. RefCount
  <2>1. \A b \in Blobs : Pointing(b) = {} /\ Owing(b) = {} /\ Uncounted(b) = {}
    BY NoneAssumption DEF Init, Pointing, Owing, Uncounted
  <2> QED BY <2>1, FS_EmptySet DEF Init, RefCount
<1> QED BY <1>1, <1>2, <1>3, <1>4, <1>5 DEF Inv

\* Every step keeps the invariant.
LEMMA NextInv == Inv /\ [Next]_vars => Inv'
<1> SUFFICES ASSUME Inv, [Next]_vars PROVE Inv'
  OBVIOUS
<1>1. CASE UNCHANGED vars
  BY <1>1
  DEF vars, maps, blobs, Inv, Types, CallState, Owner, BlobOfDigest, EntryOfBlob,
      Registered, Counts, RefCount, NoZombie, Pointing, Owing, Uncounted, D
<1>2. ASSUME NEW p \in Procs, Invoke(p) \/ Step(p) PROVE Inv'
  <2>1. pc[p] \in Working => cur[p] \in Blobs
    BY DEF Inv, Types, BlobOrNone, CallState
  <2>2. CASE AddEntry(p)
    BY <2>1, <2>2, AddEntryInv DEF AddEntry, Working
  <2>3. CASE AddFinish(p)
    BY <2>1, <2>3, AddFinishInv DEF AddFinish, Working
  <2>4. CASE EraseDec(p)
    BY <2>1, <2>4, EraseDecInv DEF EraseDec, Working
  <2>5. CASE EraseDelete(p)
    BY <2>1, <2>5, EraseDeleteInv DEF EraseDelete, Working
  <2> QED BY <1>2, <2>2, <2>3, <2>4, <2>5, LooksInv, AddStoreInv, AddWaitInv,
             EraseDetachInv
      DEF Step, AddStep, EraseStep
<1> QED BY <1>1, <1>2 DEF Next

\* The inductive invariant holds in every reachable state.
THEOREM Invariance == Spec => []Inv
BY InitInv, NextInv, PTL DEF Spec

\* RefCount: whatever Adds and Erases overlap, in however many stores, the count
\* of a blob is the number of its entries up to the calls that are about to
\* adjust it (refs in Add and Erase of mem.go).
THEOREM CountExact == Spec => []RefCount
<1>1. Inv => RefCount
  BY DEF Inv
<1> QED BY <1>1, Invariance, PTL

\* OneBlob: all entries of a digest share the one blob that bs holds, and it has
\* the right bytes (LoadOrStore in Add against bs.Delete in Erase of mem.go).
THEOREM SharedBlob == Spec => []OneBlob
<1>1. Inv => OneBlob
  BY DEF Inv, Types, Keys, EntryOfBlob, BlobOfDigest, OneBlob
<1> QED BY <1>1, Invariance, PTL

\* NoZombie: a blob in bs is locked or referred to, so that the retry loop of Add
\* meets a blob without references only when its deletion is complete.
THEOREM RetrySound == Spec => []NoZombie
<1>1. Inv => NoZombie
  BY DEF Inv
<1> QED BY <1>1, Invariance, PTL

\* TypeOK: the variables keep their types and `refs--' never wraps around.
THEOREM TypeCorrect == Spec => []TypeOK
<1>1. ASSUME Inv PROVE TypeOK
  <2>1. ASSUME NEW b \in Blobs PROVE refs[b] \in 0..MaxUint - 1
    <3>1. /\ Pointing(b) \in SUBSET Keys /\ Owing(b) \in SUBSET Procs
          /\ Uncounted(b) \in SUBSET Procs
      BY DEF Pointing, Owing, Uncounted
    <3>2. /\ Cardinality(Pointing(b)) \in Nat /\ Cardinality(Keys) \in Nat
          /\ Cardinality(Pointing(b)) <= Cardinality(Keys)
      BY <3>1, FiniteKeys, FS_Subset, FS_CardinalityType
    <3>3. /\ Cardinality(Owing(b)) \in Nat /\ Cardinality(Procs) \in Nat
          /\ Cardinality(Owing(b)) <= Cardinality(Procs)
          /\ Cardinality(Uncounted(b)) \in Nat
      BY <3>1, FiniteAssumption, FS_Subset, FS_CardinalityType
    <3>4. refs[b] \in Nat /\ refs[b] + Cardinality(Uncounted(b)) =
                              Cardinality(Pointing(b)) + Cardinality(Owing(b))
      BY <1>1 DEF Inv, Types, RefCount
    <3> QED BY <3>2, <3>3, <3>4, MaxUintAssumption
  <2>2. refs \in [Blobs -> 0..MaxUint - 1]
    BY <1>1, <2>1 DEF Inv, Types
  <2> QED BY <1>1, <2>2 DEF Inv, Types, TypeOK
<1> QED BY <1>1, Invariance, PTL

-----------------------------------------------------------------------------
(***************************************************************************)
(* The refinement of StoreContract.                                        *)
(***************************************************************************)

\* Whether the key of p exists now.
Now(p) == Contract!Presence(Target(call[p]), Present)

\* The stage of a call goes with its arguments.
Staged(p) ==
    /\ pc[p] = "idle" => call[p] = None
    /\ pc[p] \notin {"finish", "done"} => ret[p] = None
    /\ pc[p] # "idle" => Sensible(call[p])
    /\ pc[p] = "refuse" => ~call[p].wellformed
    /\ pc[p] \notin {"idle", "refuse", "done"} => call[p].wellformed
    /\ pc[p] \in {"given", "read", "store", "wait", "entry", "finish"} => call[p].op = "add"
    /\ pc[p] \in {"store", "wait", "entry", "finish"} => call[p].given \in {None, call[p].d}
    /\ pc[p] \in {"detach", "dec", "delete"} => call[p].op = "erase"
    /\ pc[p] = "load" => call[p].op \in {"get", "open", "label"}
    /\ pc[p] = "relabel" => call[p].op = "label"

\* What a call under way relies on having found, and will answer with.
Relies(p, w) ==
    CASE w = "present" -> pc[p] = "relabel" \/ (pc[p] = "finish" /\ ret[p] = "exists")
      [] w = "absent"  -> pc[p] \in {"dec", "delete"}

\* The history of a call has what is the case now, and what the call relies on.
Witnessed(p) ==
    /\ pc[p] = "idle" => seen[p] = {}
    /\ pc[p] # "idle" => Now(p) \in seen[p]
    /\ \A w \in {"present", "absent"} : Relies(p, w) => w \in seen[p]

InvH ==
    /\ Inv
    /\ seen \in [Procs -> SUBSET {"present", "absent"}]
    /\ \A p \in Procs : Staged(p) /\ Witnessed(p)

\* The vocabulary of the contract is that of the store.
LEMMA Vocabulary ==
  /\ Contract!Calls = Calls /\ Contract!Results = Results
  /\ \A c : Contract!Target(c) = Target(c) /\ (Contract!Sensible(c) <=> Sensible(c))
BY DEF Contract!Calls, Calls, Contract!Results, Results, Contract!Target, Target,
       Contract!Sensible, Sensible

\* Past its first look the digest of a call is that of its content, and the entry of
\* K(p) is the key that the contract speaks of.
LEMMA KeyOfCall ==
  ASSUME InvH, NEW p \in Procs, pc[p] \notin {"idle", "refuse", "given", "read", "done"}
  PROVE  K(p) = Target(call[p]) /\ (K(p) \in Present <=> es[K(p)] # None)
<1>1. K(p) \in Keys
  BY CallFacts DEF InvH
<1>2. pc[p] \in PCs
  BY DEF InvH, Inv, Types
<1> QED BY <1>1, <1>2 DEF InvH, Staged, Sensible, Target, K, Present, PCs

\* What a step of p leaves alone: the calls of the others.
Alone(p) ==
    \A q \in Procs \ {p} : pc'[q] = pc[q] /\ call'[q] = call[q] /\ ret'[q] = ret[q]

\* The history after a step within the calls is what the contract makes of it.
LEMMA Becoming ==
  ASSUME InvH, NextH, NEW p \in Procs, Alone(p), UNCHANGED call,
         pc[p] # "idle", pc'[p] # "idle"
  PROVE  Contract!Becomes(Present') /\ (Present' = Present => seen' = seen)
<1>1. \A q \in Procs : pc'[q] = "idle" <=> pc[q] = "idle"
  BY DEF Alone
<1>2. \A q \in Procs : (call[q] = None <=> pc[q] = "idle") /\ (pc[q] = "idle" => seen[q] = {})
  BY NothingAssumption DEF InvH, Inv, CallState, Staged, Witnessed
<1>3. seen' = [q \in Procs |-> IF call[q] = None THEN seen[q]
                ELSE seen[q] \cup {Contract!Presence(Contract!Target(call[q]), Present')}]
  BY <1>1, <1>2, Vocabulary DEF NextH, Contract!Presence
<1>4. ASSUME Present' = Present PROVE seen' = seen
  <2>1. \A q \in Procs : pc[q] # "idle" => Now(q) \in seen[q]
    BY DEF InvH, Witnessed
  <2>2. \A q \in Procs : seen'[q] = seen[q]
    BY <1>1, <1>2, <1>4, <2>1 DEF NextH, Now, Contract!Presence
  <2> QED BY <2>2 DEF InvH, NextH
<1> QED BY <1>3, <1>4 DEF Contract!Becomes

\* A step of p that changes no entry and does not end its call is none of the contract.
LEMMA Stutters ==
  ASSUME InvH, NextH, NEW p \in Procs, pc[p] \notin {"idle", "done"}, UNCHANGED <<es, call>>,
         NEW l \in PCs \ {"idle", "done"}, Goto(p, l),
         UNCHANGED ret \/ (ret' = [ret EXCEPT ![p] = "exists"] /\ ret[p] = None)
  PROVE  UNCHANGED Contract!vars
<1> USE DEF Goto, InvH, Inv, Types
<1>1. Alone(p) /\ Present' = Present /\ pc'[p] = l
  BY DEF Alone, Present
<1>2. seen' = seen
  BY <1>1, Becoming
<1>3. Did' = Did
  <2>1. \A q \in Procs : q \in Did' <=> q \in Did
    BY NothingAssumption DEF Did, Results
  <2> QED BY <2>1 DEF Did
<1>4. Answers' = Answers
  BY DEF Answers
<1> QED BY <1>1, <1>2, <1>3, <1>4 DEF Contract!vars

\* A step of p that changes no entry and ends its call is an answer of the contract.
LEMMA Replies ==
  ASSUME InvH, NextH, NEW p \in Procs, pc[p] \notin {"idle", "done"}, UNCHANGED <<es, call>>,
         NEW r \in Results, Goto(p, "done"), r = ret'[p], Contract!Justified(p, r),
         \/ UNCHANGED ret
         \/ ret' = [ret EXCEPT ![p] = r] /\ ret[p] = None /\ (r = "ok" => call[p].op # "add")
  PROVE  Contract!Reply(p)
<1> USE DEF Goto, InvH, Inv, Types
<1>1. Alone(p) /\ Present' = Present /\ pc'[p] = "done"
  BY DEF Alone, Present
<1>2. seen' = seen
  BY <1>1, Becoming
<1>3. Did' = Did
  <2>1. \A q \in Procs : q \in Did' <=> q \in Did
    BY NothingAssumption DEF Did, Results
  <2> QED BY <2>1 DEF Did
<1>4. Answers[p] = None /\ Answers' = [Answers EXCEPT ![p] = r]
  BY DEF Answers
<1>5. call[p] # None
  BY NothingAssumption DEF CallState
<1> QED BY <1>1, <1>2, <1>3, <1>4, <1>5, Vocabulary DEF Contract!Reply

\* The steps of Add are steps of the contract: the entry appears with es.LoadOrStore,
\* and the call is answered when it has let go of the mutex.
LEMMA AddRefines ==
  ASSUME InvH, NextH, NEW p \in Procs, AddStep(p)
  PROVE  [Contract!Next]_Contract!vars
<1> USE DEF maps, blobs, Answer, Continue
<1>0. /\ pc[p] \in {"given", "read", "store", "wait", "entry", "finish"}
      /\ call[p].op = "add" /\ call[p].wellformed
      /\ Now(p) \in seen[p] /\ call[p] \in Calls /\ call[p] # None
      /\ pc[p] # "finish" => ret[p] = None /\ p \notin Did
  <2>1. pc[p] \in {"given", "read", "store", "wait", "entry", "finish"}
    BY DEF AddStep, AddGiven, AddRead, AddStore, AddWait, AddEntry, AddFinish
  <2> QED BY <2>1, NothingAssumption DEF InvH, Inv, CallState, Staged, Witnessed, Did, Results
<1>a. ASSUME Contract!Reply(p) PROVE Contract!Next
  BY <1>a DEF Contract!Next
<1>1. CASE AddGiven(p)
  <2>1. CASE call[p].given # None /\ es[<<call[p].s, call[p].given>>] # None
    <3>1. Target(call[p]) \in Present
      BY <1>0, <2>1 DEF Target, Present, Keys, Calls
    <3>2. Contract!Justified(p, "exists")
      BY <1>0, <1>1, <3>1 DEF AddGiven, Contract!Justified, Now, Contract!Presence
    <3> QED BY <1>0, <1>1, <1>a, <2>1, <3>2, Replies DEF AddGiven, Results, InvH, Inv, Types
  <2>2. CASE ~(call[p].given # None /\ es[<<call[p].s, call[p].given>>] # None)
    BY <1>0, <1>1, <2>2, Stutters DEF AddGiven, PCs
  <2> QED BY <2>1, <2>2
<1>2. CASE AddRead(p)
  <2>1. CASE Answer(p, "error", "done")
    <3>1. Contract!Justified(p, "error")
      BY <1>0, <1>2 DEF AddRead, Contract!Justified
    <3> QED BY <1>0, <1>2, <1>a, <2>1, <3>1, Replies DEF AddRead, Results, InvH, Inv, Types
  <2>2. CASE call[p].given \notin {None, D(p)} /\ Answer(p, "mismatch", "done")
    <3>1. Contract!Justified(p, "mismatch")
      BY <1>0, <2>2 DEF Contract!Justified, D
    <3> QED BY <1>0, <1>2, <1>a, <2>2, <3>1, Replies DEF AddRead, Results, InvH, Inv, Types
  <2>3. CASE Continue(p, "store")
    BY <1>0, <1>2, <2>3, Stutters DEF AddRead, PCs
  <2> QED BY <1>2, <2>1, <2>2, <2>3 DEF AddRead
<1>3. CASE AddStore(p)
  BY <1>0, <1>3, Stutters DEF AddStore, PCs
<1>4. CASE AddWait(p)
  BY <1>0, <1>4, Stutters DEF AddWait, PCs
<1>5. CASE AddEntry(p)
  <2>0. K(p) = Target(call[p]) /\ (K(p) \in Present <=> es[K(p)] # None) /\ K(p) \in Keys
    BY <1>5, KeyOfCall, CallFacts DEF AddEntry, InvH
  <2>1. CASE es[K(p)] # None
    BY <1>0, <1>5, <2>1, Stutters DEF AddEntry, PCs
  <2>2. CASE es[K(p)] = None
    <3>1. /\ es' = [es EXCEPT ![K(p)] = cur[p]] /\ ret' = [ret EXCEPT ![p] = "ok"]
          /\ pc' = [pc EXCEPT ![p] = "finish"] /\ UNCHANGED call
      BY <1>5, <2>2 DEF AddEntry, Goto
    <3>2. Alone(p) /\ pc'[p] = "finish" /\ pc[p] = "entry"
      BY <1>5, <3>1 DEF AddEntry, Alone, InvH, Inv, Types
    <3>3. Present' = Present \cup {K(p)}
      BY <2>0, <3>1, <3>2 DEF Present, InvH, Inv, Types, CallState, Working
    <3>4. Contract!Becomes(Present \cup {Contract!Target(call[p])})
      BY <1>0, <2>0, <3>1, <3>2, <3>3, Becoming, Vocabulary
    <3>5. Contract!Target(call[p]) = <<call[p].s, call[p].d>>
      BY <2>0, Vocabulary DEF K
    <3>6. Did' = Did \cup {p}
      BY <1>0, <3>1 DEF Did, InvH, Inv, Types
    <3>7. Answers[p] = None /\ Answers' = Answers
      BY <3>1, <3>2 DEF Answers, InvH, Inv, Types
    <3>8. Contract!Appear(p)
      BY <1>0, <1>5, <2>0, <2>2, <3>1, <3>4, <3>5, <3>6, <3>7, Vocabulary
      DEF AddEntry, Contract!Appear, Contract!MayAnswer
    <3> QED BY <3>8 DEF Contract!Next
  <2> QED BY <2>1, <2>2
<1>6. CASE AddFinish(p)
  <2>1. ret'[p] = ret[p] /\ ret[p] \in {"ok", "exists"}
    BY <1>6 DEF AddFinish, InvH, Inv, CallState
  <2>2. Contract!Justified(p, ret[p])
    <3>1. CASE ret[p] = "ok"
      <4>1. p \in Did
        BY <1>0, <3>1 DEF Did
      <4> QED BY <1>0, <3>1, <4>1 DEF Contract!Justified
    <3>2. CASE ret[p] = "exists"
      <4>1. "present" \in seen[p] /\ p \notin Did
        BY <1>6, <3>2 DEF AddFinish, InvH, Witnessed, Relies, Did
      <4> QED BY <1>0, <3>2, <4>1 DEF Contract!Justified
    <3> QED BY <2>1, <3>1, <3>2
  <2> QED BY <1>0, <1>6, <1>a, <2>1, <2>2, Replies DEF AddFinish, Results
<1> QED BY <1>1, <1>2, <1>3, <1>4, <1>5, <1>6 DEF AddStep

\* The steps of Erase are steps of the contract: the entry vanishes with
\* es.LoadAndDelete, and the call is answered when the count is right.
LEMMA EraseRefines ==
  ASSUME InvH, NextH, NEW p \in Procs, EraseStep(p)
  PROVE  [Contract!Next]_Contract!vars
<1> USE DEF maps, blobs, Answer, Continue
<1>0. /\ pc[p] \in {"detach", "dec", "delete"} /\ call[p].op = "erase" /\ call[p].wellformed
      /\ Now(p) \in seen[p] /\ call[p] # None /\ ret[p] = None
      /\ K(p) = Target(call[p]) /\ (K(p) \in Present <=> es[K(p)] # None) /\ K(p) \in Keys
  <2>1. pc[p] \in {"detach", "dec", "delete"}
    BY DEF EraseStep, EraseDetach, EraseDec, EraseDelete
  <2>2. call[p] \in Calls /\ K(p) \in Keys
    BY <2>1, CallFacts DEF InvH
  <2> QED BY <2>1, <2>2, NothingAssumption, KeyOfCall DEF InvH, Staged, Witnessed
<1>a. ASSUME Contract!Reply(p) PROVE Contract!Next
  BY <1>a DEF Contract!Next
<1>b. ASSUME "absent" \in seen[p] PROVE Contract!Justified(p, "ok")
  BY <1>0, <1>b DEF Contract!Justified
<1>1. CASE EraseDetach(p)
  <2>1. CASE es[K(p)] = None
    <3>1. "absent" \in seen[p]
      BY <1>0, <2>1 DEF Now, Contract!Presence
    <3> QED BY <1>0, <1>1, <1>a, <1>b, <2>1, <3>1, Replies
        DEF EraseDetach, Results, InvH, Inv, Types
  <2>2. CASE es[K(p)] # None
    <3>1. /\ es' = [es EXCEPT ![K(p)] = None] /\ pc' = [pc EXCEPT ![p] = "dec"]
          /\ UNCHANGED <<call, ret>>
      BY <1>1, <2>2 DEF EraseDetach, Goto
    <3>2. Alone(p) /\ pc'[p] = "dec"
      BY <3>1 DEF Alone, InvH, Inv, Types
    <3>3. Present' = Present \ {K(p)}
      BY <1>0, <3>1 DEF Present, InvH, Inv, Types
    <3>4. Contract!Becomes(Present \ {Contract!Target(call[p])})
      BY <1>0, <3>1, <3>2, <3>3, Becoming, Vocabulary
    <3>5. Did' = Did
      BY <3>1 DEF Did
    <3>6. Answers[p] = None /\ Answers' = Answers
      BY <1>0, <3>1, <3>2 DEF Answers, InvH, Inv, Types
    <3>7. Contract!Vanish(p)
      BY <1>0, <2>2, <3>1, <3>4, <3>5, <3>6, Vocabulary
      DEF Contract!Vanish, Contract!MayAnswer
    <3> QED BY <3>7 DEF Contract!Next
  <2> QED BY <2>1, <2>2
<1>c. pc[p] \in {"dec", "delete"} => "absent" \in seen[p]
  BY DEF InvH, Witnessed, Relies
<1>2. CASE EraseDec(p)
  <2>1. CASE Answer(p, "ok", "done")
    BY <1>0, <1>2, <1>a, <1>b, <1>c, <2>1, Replies DEF EraseDec, Results, InvH, Inv, Types
  <2>2. CASE Continue(p, "delete")
    BY <1>0, <1>2, <2>2, Stutters DEF EraseDec, PCs
  <2> QED BY <1>2, <2>1, <2>2 DEF EraseDec
<1>3. CASE EraseDelete(p)
  BY <1>0, <1>3, <1>a, <1>b, <1>c, Replies DEF EraseDelete, Results, InvH, Inv, Types
<1> QED BY <1>1, <1>2, <1>3 DEF EraseStep

\* A read, a Label and a refusal are answers of the contract.
LEMMA LooksRefine ==
  ASSUME InvH, NextH, NEW p \in Procs, Refuse(p) \/ Load(p) \/ LabelStore(p)
  PROVE  [Contract!Next]_Contract!vars
<1> USE DEF maps, blobs, Answer, Continue
<1>0. /\ pc[p] \in {"refuse", "load", "relabel"} /\ Now(p) \in seen[p] /\ ret[p] = None
      /\ p \notin Did
  <2>1. pc[p] \in {"refuse", "load", "relabel"}
    BY DEF Refuse, Load, LabelStore
  <2> QED BY <2>1, NothingAssumption DEF InvH, Staged, Witnessed, Did, Results
<1>a. ASSUME Contract!Reply(p) PROVE Contract!Next
  BY <1>a DEF Contract!Next
<1>1. CASE Refuse(p)
  <2>1. Contract!Justified(p, Refusal(call[p].op))
    BY <1>1 DEF Refuse, InvH, Staged, Contract!Justified
  <2>2. Refusal(call[p].op) \in Results /\ (Refusal(call[p].op) = "ok" => call[p].op # "add")
    BY DEF Refusal, Results
  <2> QED BY <1>0, <1>1, <1>a, <2>1, <2>2, Replies DEF Refuse, InvH, Inv, Types
<1>2. CASE Load(p)
  <2>0. /\ call[p].op \in {"get", "open", "label"} /\ call[p].wellformed
        /\ K(p) = Target(call[p]) /\ (K(p) \in Present <=> es[K(p)] # None)
    BY <1>2, KeyOfCall DEF Load, InvH, Staged
  <2>1. CASE es[K(p)] = None
    <3>1. Contract!Justified(p, "notexist")
      BY <1>0, <2>0, <2>1 DEF Contract!Justified, Now, Contract!Presence
    <3> QED BY <1>0, <1>2, <1>a, <2>1, <3>1, Replies DEF Load, Results, InvH, Inv, Types
  <2>2. CASE es[K(p)] # None /\ Answer(p, "ok", "done")
    <3>1. Contract!Justified(p, "ok")
      BY <1>0, <2>0, <2>2 DEF Contract!Justified, Now, Contract!Presence
    <3> QED BY <1>0, <1>2, <1>a, <2>0, <2>2, <3>1, Replies DEF Load, Results, InvH, Inv, Types
  <2>3. CASE Continue(p, "relabel")
    BY <1>0, <1>2, <2>3, Stutters DEF Load, PCs
  <2> QED BY <1>2, <2>1, <2>2, <2>3 DEF Load
<1>3. CASE LabelStore(p)
  <2>1. call[p].op = "label" /\ call[p].wellformed /\ "present" \in seen[p]
    BY <1>3 DEF LabelStore, InvH, Staged, Witnessed, Relies
  <2>2. Contract!Justified(p, "ok")
    BY <2>1 DEF Contract!Justified
  <2> QED BY <1>0, <1>3, <1>a, <2>1, <2>2, Replies DEF LabelStore, Results, InvH, Inv, Types
<1> QED BY <1>1, <1>2, <1>3

\* A call begins and ends as in the contract.
LEMMA EndsRefine ==
  ASSUME InvH, NextH, NEW p \in Procs, Invoke(p) \/ Return(p)
  PROVE  Contract!Next
<1> USE DEF maps, blobs, InvH, Inv, Types
<1>0. \A q \in Procs : pc[q] # "idle" => Now(q) \in seen[q]
  BY DEF Witnessed
<1>a. Present' = Present
  BY DEF Invoke, Return, Present
<1>1. CASE Invoke(p)
  <2>1. PICK c \in Calls : /\ Sensible(c)
                           /\ call' = [call EXCEPT ![p] = c]
                           /\ Goto(p, IF c.wellformed THEN FirstStep(c.op) ELSE "refuse")
    BY <1>1 DEF Invoke
  <2>2. pc'[p] # "idle" /\ pc'[p] # "done" /\ \A q \in Procs \ {p} : pc'[q] = pc[q]
    BY <2>1 DEF Goto, FirstStep
  <2>3. seen[p] = {} /\ ret[p] = None /\ call[p] = None
    BY <1>1 DEF Invoke, Witnessed, Staged
  <2>4. seen' = [seen EXCEPT ![p] = {Contract!Presence(Contract!Target(c), Present)}]
    <3>1. seen'[p] = {Contract!Presence(Contract!Target(c), Present)}
      BY <1>a, <2>1, <2>2, <2>3, Vocabulary DEF NextH, Contract!Presence
    <3>2. \A q \in Procs \ {p} : seen'[q] = seen[q]
      BY <1>0, <1>a, <2>1, <2>2 DEF NextH, Now, Contract!Presence, Witnessed
    <3> QED BY <3>1, <3>2 DEF NextH
  <2>5. Did' = Did
    BY <1>1, <2>1, <2>3, NothingAssumption DEF Invoke, Did, Results
  <2>6. Answers' = Answers
    BY <1>1, <2>2 DEF Invoke, Answers
  <2>7. Contract!Invoke(p)
    BY <1>a, <2>1, <2>3, <2>4, <2>5, <2>6, Vocabulary DEF Contract!Invoke
  <2> QED BY <2>7 DEF Contract!Next
<1>2. CASE Return(p)
  <2>1. call[p] # None
    BY <1>2, NothingAssumption DEF Return, CallState
  <2>2. seen' = [seen EXCEPT ![p] = {}]
    <3>1. seen'[p] = {}
      BY <1>2 DEF Return, Answer, Goto, NextH
    <3>2. \A q \in Procs \ {p} : seen'[q] = seen[q]
      BY <1>0, <1>2, <1>a DEF Return, Answer, Goto, NextH, Now, Contract!Presence, Witnessed
    <3> QED BY <3>1, <3>2 DEF NextH
  <2>3. Did' = Did \ {p}
    BY <1>2 DEF Return, Answer, Did
  <2>4. Answers' = [Answers EXCEPT ![p] = None]
    BY <1>2 DEF Return, Answer, Goto, Answers
  <2>5. Contract!Leave(p)
    BY <1>2, <1>a, <2>1, <2>2, <2>3, <2>4 DEF Return, Contract!Leave
  <2> QED BY <2>5 DEF Contract!Next
<1> QED BY <1>1, <1>2

\* Every step keeps each call in its stage.
LEMMA StagedInv ==
  ASSUME InvH, NEW p \in Procs, Invoke(p) \/ Step(p)
  PROVE  \A q \in Procs : Staged(q)'
<1> USE DEF Staged, maps, blobs, Answer, Continue, Goto, InvH, Inv, Types
<1>1. CASE Invoke(p)
  <2>1. PICK c \in Calls : /\ Sensible(c)
                           /\ call' = [call EXCEPT ![p] = c]
                           /\ Goto(p, IF c.wellformed THEN FirstStep(c.op) ELSE "refuse")
    BY <1>1 DEF Invoke
  <2>2. c.op \in {"add", "get", "open", "label", "erase"}
    BY OpsAssumption DEF Calls
  <2>3. Staged(p)'
    BY <1>1, <2>1, <2>2 DEF Invoke, FirstStep
  <2> QED BY <1>1, <2>1, <2>3 DEF Invoke
<1>2. CASE AddGiven(p)
  BY <1>2 DEF AddGiven
<1>3. CASE AddRead(p)
  BY <1>3 DEF AddRead, D
<1>4. CASE AddStore(p)
  BY <1>4 DEF AddStore
<1>5. CASE AddWait(p)
  BY <1>5 DEF AddWait
<1>6. CASE AddEntry(p) \/ AddFinish(p)
  BY <1>6 DEF AddEntry, AddFinish
<1>7. CASE EraseStep(p)
  BY <1>7 DEF EraseStep, EraseDetach, EraseDec, EraseDelete
<1>8. CASE Load(p)
  BY <1>8 DEF Load
<1>9. CASE LabelStore(p) \/ Refuse(p) \/ Return(p)
  BY <1>9 DEF LabelStore, Refuse, Return
<1> QED BY <1>1, <1>2, <1>3, <1>4, <1>5, <1>6, <1>7, <1>8, <1>9 DEF Step, AddStep

\* A call comes to rely on what is the case at that moment.
LEMMA FoundFirst ==
  ASSUME InvH, NEW p \in Procs, Invoke(p) \/ Step(p), NEW w \in {"present", "absent"},
         NEW q \in Procs, Relies(q, w)'
  PROVE  (Relies(q, w) /\ pc[q] # "idle") \/ Now(q)' = w
<1> USE DEF Relies, maps, blobs, Answer, Continue, Goto, InvH, Inv, Types
<1>0. pc[q] # "idle" => D(q) \in Digests /\ K(q) \in Keys
  BY CallFacts
<1>1. CASE q # p \/ Invoke(p) \/ Refuse(p) \/ Return(p) \/ LabelStore(p)
  BY <1>1 DEF Invoke, FirstStep, Refuse, Return, LabelStore, Step, AddStep, AddGiven, AddRead,
      AddStore, AddWait, AddEntry, AddFinish, EraseStep, EraseDetach, EraseDec, EraseDelete,
      Load
<1>2. CASE q = p /\ (AddGiven(p) \/ AddRead(p) \/ AddStore(p) \/ AddWait(p) \/ AddFinish(p))
  BY <1>2 DEF AddGiven, AddRead, AddStore, AddWait, AddFinish
<1>3. CASE q = p /\ AddEntry(p)
  <2>1. w = "present" /\ es[K(p)] # None /\ UNCHANGED <<es, call>> /\ pc[p] = "entry"
    BY <1>3 DEF AddEntry
  <2>2. Target(call'[p]) \in Present' 
    BY <1>3, <2>1, KeyOfCall DEF Present
  <2> QED BY <1>3, <2>1, <2>2 DEF Now, Contract!Presence
<1>4. CASE q = p /\ Load(p)
  <2>1. w = "present" /\ es[K(p)] # None /\ UNCHANGED <<es, call>> /\ pc[p] = "load"
    BY <1>4 DEF Load
  <2>2. Target(call'[p]) \in Present' 
    BY <1>4, <2>1, KeyOfCall DEF Present
  <2> QED BY <1>4, <2>1, <2>2 DEF Now, Contract!Presence
<1>5. CASE q = p /\ EraseDetach(p)
  <2>1. w = "absent" /\ es' = [es EXCEPT ![K(p)] = None] /\ UNCHANGED call /\ pc[p] = "detach"
    BY <1>5 DEF EraseDetach
  <2>2. Target(call'[p]) \notin Present' 
    BY <1>0, <1>5, <2>1, KeyOfCall DEF Present
  <2> QED BY <1>5, <2>1, <2>2 DEF Now, Contract!Presence
<1>6. CASE q = p /\ (EraseDec(p) \/ EraseDelete(p))
  BY <1>6 DEF EraseDec, EraseDelete
<1> QED BY <1>1, <1>2, <1>3, <1>4, <1>5, <1>6 DEF Step, AddStep, EraseStep

\* The history records what the calls rely on.
LEMMA WitnessedInv ==
  ASSUME InvH, NextH
  PROVE  \A p \in Procs : Witnessed(p)'
<1> SUFFICES ASSUME NEW p \in Procs PROVE Witnessed(p)'
  OBVIOUS
<1>1. pc'[p] = "idle" => seen'[p] = {}
  BY DEF NextH
<1>2. pc'[p] # "idle" => Now(p)' \in seen'[p] /\ seen[p] \subseteq seen'[p]
  BY DEF NextH, Now, Contract!Presence
<1>3. ASSUME NEW w \in {"present", "absent"}, Relies(p, w)' PROVE w \in seen'[p]
  <2>1. Relies(p, w) \/ Now(p)' = w
    BY <1>3, FoundFirst DEF NextH, Next
  <2>2. pc'[p] # "idle"
    BY <1>3 DEF Relies
  <2> QED BY <1>2, <2>1, <2>2 DEF InvH, Witnessed
<1> QED BY <1>1, <1>2, <1>3 DEF Witnessed

\* The invariant that the refinement rests on holds in every reachable state.
THEOREM HistoryInvariance == SpecH => []InvH
<1>1. InitH => InvH
  BY InitInv DEF InitH, Init, InvH, Staged, Witnessed, Relies
<1>2. InvH /\ [NextH]_<<vars, seen>> => InvH'
  <2> SUFFICES ASSUME InvH, [NextH]_<<vars, seen>> PROVE InvH'
    OBVIOUS
  <2>1. CASE UNCHANGED <<vars, seen>>
    <3>1. Inv'
      BY <2>1, NextInv DEF InvH
    <3> QED BY <2>1, <3>1 DEF vars, maps, InvH, Staged, Witnessed, Relies, Now, Present
  <2>2. CASE NextH
    <3>1. Inv'
      BY <2>2, NextInv DEF NextH, InvH
    <3>2. seen' \in [Procs -> SUBSET {"present", "absent"}]
      BY <2>2 DEF NextH, InvH
    <3> QED BY <2>2, <3>1, <3>2, StagedInv, WitnessedInv DEF NextH, Next, InvH
  <2> QED BY <2>1, <2>2
<1> QED BY <1>1, <1>2, PTL DEF SpecH

\* KeepsContract: MemStore implements the contract of store.go, for any number of
\* stores, digests and callers.  es.LoadOrStore is the moment at which an Add takes
\* effect, es.LoadAndDelete that of an Erase; whatever the mutex of the blob and the
\* count do afterwards is no step of the contract, until the call is answered.
THEOREM Refinement == SpecH => KeepsContract
<1>1. InitH => Contract!Init
  BY NothingAssumption DEF InitH, Init, Contract!Init, Did, Answers, Present
<1>2. InvH /\ [NextH]_<<vars, seen>> => [Contract!Next]_Contract!vars
  <2> SUFFICES ASSUME InvH, [NextH]_<<vars, seen>> PROVE [Contract!Next]_Contract!vars
    OBVIOUS
  <2>1. CASE UNCHANGED <<vars, seen>>
    BY <2>1 DEF vars, maps, Contract!vars, Did, Answers, Present
  <2>2. CASE NextH
    BY <2>2, AddRefines, EraseRefines, LooksRefine, EndsRefine DEF NextH, Next, Step
  <2> QED BY <2>1, <2>2
<1> QED BY <1>1, <1>2, HistoryInvariance, PTL DEF SpecH, KeepsContract, Contract!Spec
=============================================================================
