------------------------------ MODULE MemStores ------------------------------
(***************************************************************************)
(* The in-memory store of flob (mem.go).                                   *)
(*                                                                         *)
(* All stores share the sync.Map bs of blobs; each store has a sync.Map es *)
(* of entries that point to them.  A blob carries a mutex and a count of   *)
(* the entries that refer to it, and leaves bs when the count drops to 0.  *)
(* One action is one operation on a sync.Map or one critical section of a  *)
(* blob's mutex.  An entry is represented by the blob it points to: its    *)
(* labels are an atomic pointer that no other state depends on.            *)
(***************************************************************************)
EXTENDS Store, FiniteSets

CONSTANTS
    Blobs,     \* memBlob objects; one that nothing points to can be reused
    MaxUint    \* the value that decrementing a uint 0 yields

ASSUME NoneAssumption == None \notin Digests \cup Procs \cup Blobs
ASSUME FiniteAssumption ==
    IsFiniteSet(Stores) /\ IsFiniteSet(Digests) /\ IsFiniteSet(Procs)
ASSUME MaxUintAssumption ==
    MaxUint \in Nat /\ MaxUint > Cardinality(Keys) + Cardinality(Procs)

VARIABLES
    bs,       \* bs[d]: the blob that MemStores.bs holds for d, or None
    es,       \* es[<<s, d>>]: the blob of the entry that s holds for d, or None
    data,     \* data[b]: the digest of the bytes of b (of no matter before its use)
    mu,       \* mu[b]: who holds b.mu, or None
    refs,     \* refs[b]: b.refs
    pc,       \* pc[p]: where the call of p is
    call,     \* call[p]: the arguments of the call of p, or None
    cur,      \* cur[p]: the blob p works on or reads from, or None
    ret       \* ret[p]: the outcome of the call of p, None while it is open

maps  == <<bs, es>>
blobs == <<data, mu, refs>>
vars  == <<maps, blobs, pc, call, cur, ret>>

D(p) == call[p].d
K(p) == <<call[p].s, call[p].d>>

\* Blobs that no map and no caller points to.
FreeBlobs ==
    {b \in Blobs : /\ \A d \in Digests : bs[d] # b
                   /\ \A k \in Keys : es[k] # b
                   /\ \A p \in Procs : cur[p] # b}

PCs == {"idle", "refuse", "given", "read", "store", "wait", "entry", "finish",
        "detach", "dec", "delete", "load", "relabel", "done"}

FirstStep(op) ==
    CASE op = "add"   -> "given"
      [] op = "erase" -> "detach"
      [] OTHER        -> "load"

Goto(p, l) == pc' = [pc EXCEPT ![p] = l]

\* p's call has outcome r and goes on at l.
Answer(p, r, l) == ret' = [ret EXCEPT ![p] = r] /\ Goto(p, l)

\* p's call goes on at l, its outcome still open.
Continue(p, l) == Goto(p, l) /\ UNCHANGED ret

Init ==
    /\ bs = [d \in Digests |-> None]
    /\ es = [k \in Keys |-> None]
    /\ \E d \in Digests : data = [b \in Blobs |-> d]
    /\ mu = [b \in Blobs |-> None]
    /\ refs = [b \in Blobs |-> 0]
    /\ pc = [p \in Procs |-> "idle"]
    /\ call = [p \in Procs |-> None]
    /\ cur = [p \in Procs |-> None]
    /\ ret = [p \in Procs |-> None]

\* A client calls an operation.
Invoke(p) ==
    /\ pc[p] = "idle"
    /\ \E c \in Calls :
         /\ Sensible(c)
         /\ call' = [call EXCEPT ![p] = c]
         /\ Goto(p, IF c.wellformed THEN FirstStep(c.op) ELSE "refuse")
    /\ UNCHANGED <<maps, blobs, cur, ret>>

\* A digest that Sanitize refuses: Add returns its error, the others look it up
\* among well-formed digests and miss.
Refuse(p) ==
    /\ pc[p] = "refuse"
    /\ Answer(p, Refusal(call[p].op), "done")
    /\ UNCHANGED <<maps, blobs, call, cur>>

\* The caller takes the outcome and drops the reader that Open returned.
Return(p) ==
    /\ pc[p] = "done"
    /\ Answer(p, None, "idle")
    /\ call' = [call EXCEPT ![p] = None]
    /\ cur' = [cur EXCEPT ![p] = None]
    /\ UNCHANGED <<maps, blobs>>

-----------------------------------------------------------------------------
(***************************************************************************)
(* Add.                                                                    *)
(***************************************************************************)

\* With a digest given: is there an entry for it already?
AddGiven(p) ==
    /\ pc[p] = "given"
    /\ IF call[p].given # None /\ es[<<call[p].s, call[p].given>>] # None
         THEN Answer(p, "exists", "done")
         ELSE Continue(p, "read")
    /\ UNCHANGED <<maps, blobs, call, cur>>

\* io.ReadAll, which may fail, and the digest of what was read.
AddRead(p) ==
    /\ pc[p] = "read"
    /\ \/ Answer(p, "error", "done")
       \/ call[p].given \notin {None, D(p)} /\ Answer(p, "mismatch", "done")
       \/ call[p].given \in {None, D(p)} /\ Continue(p, "store")
    /\ UNCHANGED <<maps, blobs, call, cur>>

\* Mutant: b_new is not locked before it is stored.
AddStoreUnlocked(p) ==
    /\ pc[p] = "store"
    /\ \/ /\ bs[D(p)] = None
          /\ \E b \in FreeBlobs :
               /\ bs' = [bs EXCEPT ![D(p)] = b]
               /\ data' = [data EXCEPT ![b] = D(p)]
               /\ refs' = [refs EXCEPT ![b] = 0]
               /\ cur' = [cur EXCEPT ![p] = b]
          /\ Continue(p, "entry")
       \/ /\ bs[D(p)] # None
          /\ cur' = [cur EXCEPT ![p] = bs[D(p)]]
          /\ Continue(p, "wait")
          /\ UNCHANGED <<bs, data, refs>>
    /\ UNCHANGED <<es, mu, call>>

\* bs.LoadOrStore of b_new, which is locked.  Until it is stored b_new is private
\* to the call, and locking and unlocking it in vain has no effect, so b_new is
\* represented from the moment it is stored.
AddStore(p) ==
    /\ pc[p] = "store"
    /\ \/ /\ bs[D(p)] = None
          /\ \E b \in FreeBlobs :
               /\ bs' = [bs EXCEPT ![D(p)] = b]
               /\ data' = [data EXCEPT ![b] = D(p)]
               /\ refs' = [refs EXCEPT ![b] = 0]
               /\ mu' = [mu EXCEPT ![b] = p]
               /\ cur' = [cur EXCEPT ![p] = b]
          /\ Continue(p, "entry")
       \/ /\ bs[D(p)] # None
          /\ cur' = [cur EXCEPT ![p] = bs[D(p)]]
          /\ Continue(p, "wait")
          /\ UNCHANGED <<bs, blobs>>
    /\ UNCHANGED <<es, call>>

\* Mutant: a blob that is being deleted is used all the same.
AddWaitTrusting(p) ==
    /\ pc[p] = "wait"
    /\ mu[cur[p]] = None
    /\ mu' = [mu EXCEPT ![cur[p]] = p]
    /\ Continue(p, "entry")
    /\ UNCHANGED <<maps, data, refs, call, cur>>

\* b.mu.Lock() of the blob that was there; with no references left it is being
\* deleted, and Add starts over.
AddWait(p) ==
    /\ pc[p] = "wait"
    /\ mu[cur[p]] = None
    /\ IF refs[cur[p]] = 0
         THEN /\ cur' = [cur EXCEPT ![p] = None]
              /\ Continue(p, "store")
              /\ UNCHANGED mu
         ELSE /\ mu' = [mu EXCEPT ![cur[p]] = p]
              /\ Continue(p, "entry")
              /\ UNCHANGED cur
    /\ UNCHANGED <<maps, data, refs, call>>

\* Mutant: es.Store replaces the entry of a concurrent Add.
AddEntryReplaces(p) ==
    /\ pc[p] = "entry"
    /\ es' = [es EXCEPT ![K(p)] = cur[p]]
    /\ Answer(p, "ok", "finish")
    /\ UNCHANGED <<bs, blobs, call, cur>>

\* es.LoadOrStore of the new entry.
AddEntry(p) ==
    /\ pc[p] = "entry"
    /\ IF es[K(p)] # None
         THEN Answer(p, "exists", "finish") /\ UNCHANGED es
         ELSE es' = [es EXCEPT ![K(p)] = cur[p]] /\ Answer(p, "ok", "finish")
    /\ UNCHANGED <<bs, blobs, call, cur>>

\* b.refs++ for a new entry, and the deferred b.mu.Unlock().
AddFinish(p) ==
    /\ pc[p] = "finish"
    /\ refs' = [refs EXCEPT ![cur[p]] = IF ret[p] = "ok" THEN @ + 1 ELSE @]
    /\ mu' = [mu EXCEPT ![cur[p]] = None]
    /\ cur' = [cur EXCEPT ![p] = None]
    /\ Goto(p, "done")
    /\ UNCHANGED <<maps, data, call, ret>>

-----------------------------------------------------------------------------
(***************************************************************************)
(* Erase.                                                                  *)
(***************************************************************************)

\* es.LoadAndDelete.
EraseDetach(p) ==
    /\ pc[p] = "detach"
    /\ IF es[K(p)] = None
         THEN Answer(p, "ok", "done") /\ UNCHANGED <<es, cur>>
         ELSE /\ cur' = [cur EXCEPT ![p] = es[K(p)]]
              /\ es' = [es EXCEPT ![K(p)] = None]
              /\ Continue(p, "dec")
    /\ UNCHANGED <<bs, blobs, call>>

\* A uint less one.
Decrement(n) == IF n = 0 THEN MaxUint ELSE n - 1

\* Under the mutex of the blob: refs--, and on unless references remain.
EraseDec(p) ==
    /\ pc[p] = "dec"
    /\ mu[cur[p]] = None
    /\ refs' = [refs EXCEPT ![cur[p]] = Decrement(@)]
    /\ IF Decrement(refs[cur[p]]) > 0
         THEN /\ cur' = [cur EXCEPT ![p] = None]
              /\ Answer(p, "ok", "done")
              /\ UNCHANGED mu
         ELSE /\ mu' = [mu EXCEPT ![cur[p]] = p]
              /\ Continue(p, "delete")
              /\ UNCHANGED cur
    /\ UNCHANGED <<maps, data, call>>

\* Mutant: the blob is unlocked and never taken out of bs.
EraseDeleteNot(p) ==
    /\ pc[p] = "delete"
    /\ mu' = [mu EXCEPT ![cur[p]] = None]
    /\ cur' = [cur EXCEPT ![p] = None]
    /\ Answer(p, "ok", "done")
    /\ UNCHANGED <<maps, data, refs, call>>

\* bs.Delete(d), whatever blob is there, and the deferred unlock.
EraseDelete(p) ==
    /\ pc[p] = "delete"
    /\ bs' = [bs EXCEPT ![D(p)] = None]
    /\ mu' = [mu EXCEPT ![cur[p]] = None]
    /\ cur' = [cur EXCEPT ![p] = None]
    /\ Answer(p, "ok", "done")
    /\ UNCHANGED <<es, data, refs, call>>

-----------------------------------------------------------------------------
(***************************************************************************)
(* Get, Open and Label load the entry; Label then stores into it, whether  *)
(* or not it is still the entry of that digest.                            *)
(***************************************************************************)
Load(p) ==
    /\ pc[p] = "load"
    /\ IF es[K(p)] = None
         THEN Answer(p, "notexist", "done") /\ UNCHANGED cur
         ELSE \/ /\ call[p].op = "get"
                 /\ Answer(p, "ok", "done") /\ UNCHANGED cur
              \/ /\ call[p].op = "open"
                 /\ cur' = [cur EXCEPT ![p] = es[K(p)]]
                 /\ Answer(p, "ok", "done")
              \/ /\ call[p].op = "label"
                 /\ Continue(p, "relabel") /\ UNCHANGED cur
    /\ UNCHANGED <<maps, blobs, call>>

LabelStore(p) ==
    /\ pc[p] = "relabel"
    /\ Answer(p, "ok", "done")
    /\ UNCHANGED <<maps, blobs, call, cur>>

-----------------------------------------------------------------------------
AddStep(p) ==
    \/ AddGiven(p) \/ AddRead(p) \/ AddStore(p) \/ AddWait(p) \/ AddEntry(p)
    \/ AddFinish(p)

EraseStep(p) == EraseDetach(p) \/ EraseDec(p) \/ EraseDelete(p)

\* What p does by itself once its call is under way.
Step(p) ==
    \/ AddStep(p) \/ EraseStep(p) \/ Load(p) \/ LabelStore(p)
    \/ Refuse(p) \/ Return(p)

Next == \E p \in Procs : Invoke(p) \/ Step(p)

Spec == Init /\ [][Next]_vars

-----------------------------------------------------------------------------
(***************************************************************************)
(* Properties.                                                             *)
(***************************************************************************)
BlobOrNone == Blobs \cup {None}

\* Every variable keeps its type; in particular `refs--' never wraps around to
\* the largest uint, which would keep a blob for ever.
TypeOK ==
    /\ bs \in [Digests -> BlobOrNone]
    /\ es \in [Keys -> BlobOrNone]
    /\ data \in [Blobs -> Digests]
    /\ mu \in [Blobs -> Procs \cup {None}]
    /\ refs \in [Blobs -> 0..MaxUint - 1]
    /\ pc \in [Procs -> PCs]
    /\ call \in [Procs -> Calls \cup {None}]
    /\ cur \in [Procs -> BlobOrNone]
    /\ ret \in [Procs -> Results \cup {None}]

\* Keys whose entry points to b.
Pointing(b) == {k \in Keys : es[k] = b}

\* Erases that have detached an entry of b and not yet counted it.
Owing(b) == {p \in Procs : pc[p] = "dec" /\ cur[p] = b}

\* Adds that have stored an entry of b and not yet counted it.
Uncounted(b) == {p \in Procs : pc[p] = "finish" /\ ret[p] = "ok" /\ cur[p] = b}

\* The reference count of memBlob is exact in every interleaving of Add and
\* Erase over all stores, although entries come and go outside the mutex that
\* guards the count: it is the number of entries, less those an Add has still
\* to count, plus those an Erase has detached and still has to take off.  So a
\* blob is given up with its last entry, and not before.
RefCount ==
    \A b \in Blobs :
      refs[b] + Cardinality(Uncounted(b)) =
        Cardinality(Pointing(b)) + Cardinality(Owing(b))

\* Every entry, in whatever store, points to the one blob that bs holds for its
\* digest, and that blob has the bytes of the digest: an Erase never takes out
\* of bs a blob that a concurrent Add has just given to an entry.
OneBlob ==
    \A k \in Keys :
      es[k] # None => es[k] = bs[k[2]] /\ data[es[k]] = k[2]

\* A blob in bs that nobody has locked is referred to.  So an Add that finds no
\* references left and retries has seen a deletion that is complete, and its
\* loop does not spin on a blob that stays.
NoZombie ==
    \A d \in Digests :
      bs[d] # None => mu[bs[d]] # None \/ refs[bs[d]] > 0
=============================================================================
