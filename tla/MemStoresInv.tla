---------------------------- MODULE MemStoresInv ----------------------------
(***************************************************************************)
(* The inductive invariant of MemStores.                                   *)
(***************************************************************************)
EXTENDS MemStores

\* Where a call works on a blob.
Working == {"wait", "entry", "finish", "dec", "delete"}

\* Where a call holds the mutex of its blob.
Holding == {"entry", "finish", "delete"}

Types ==
    /\ bs \in [Digests -> BlobOrNone]
    /\ es \in [Keys -> BlobOrNone]
    /\ data \in [Blobs -> Digests]
    /\ mu \in [Blobs -> Procs \cup {None}]
    /\ refs \in [Blobs -> Nat]
    /\ pc \in [Procs -> PCs]
    /\ call \in [Procs -> Calls \cup {None}]
    /\ cur \in [Procs -> BlobOrNone]
    /\ ret \in [Procs -> Results \cup {None}]

\* What the program counter says of a call.
CallState ==
    \A p \in Procs :
      /\ pc[p] # "idle" => call[p] \in Calls
      /\ pc[p] \in Working => cur[p] # None /\ data[cur[p]] = D(p)
      /\ pc[p] = "finish" => ret[p] \in {"ok", "exists"}

\* The mutex of a blob is held by the call in its critical section.
Owner ==
    \A p \in Procs, b \in Blobs :
      mu[b] = p <=> pc[p] \in Holding /\ cur[p] = b

\* A blob in bs is under the digest of its bytes.
BlobOfDigest == \A d \in Digests : bs[d] # None => data[bs[d]] = d

\* An entry points to the blob in bs.
EntryOfBlob == \A k \in Keys : es[k] # None => es[k] = bs[k[2]]

\* A blob that is locked or referred to is in bs.
Registered ==
    \A b \in Blobs : mu[b] # None \/ refs[b] > 0 => bs[data[b]] = b

\* What a critical section knows of the count: a blob is deleted at 0, and an Add
\* that found an entry is not alone.
Counts ==
    \A p \in Procs :
      /\ pc[p] = "delete" => refs[cur[p]] = 0
      /\ pc[p] = "finish" /\ ret[p] = "exists" => refs[cur[p]] > 0

Inv ==
    /\ Types /\ CallState /\ Owner /\ BlobOfDigest /\ EntryOfBlob /\ Registered
    /\ Counts /\ RefCount /\ NoZombie
=============================================================================
