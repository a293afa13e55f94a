------------------------------ MODULE S3Stores ------------------------------
(***************************************************************************)
(* The object-store backend of flob (s3.go).                               *)
(*                                                                         *)
(* A bucket holds one object blob/<digest> per content and an empty marker *)
(* refs/<digest>/<store> per entry.  S3 answers each request atomically    *)
(* and consistently, and there is no lock, so an operation is a sequence   *)
(* of requests and one action is one request.  A request can fail, and a   *)
(* write whose caller was told of a failure may still reach the bucket.    *)
(***************************************************************************)
EXTENDS Store

CONSTANT MaxFaults    \* bound on the number of failed requests

ASSUME MaxFaultsAssumption == MaxFaults \in Nat

VARIABLES
    blob,     \* the digests d with an object blob/<d>
    refs,     \* the keys <<s, d>> with a marker refs/<d>/<s>
    late,     \* writes whose caller gave up and that may still take effect
    pc,       \* pc[p]: the request p sends next
    call,     \* call[p]: the arguments of the call of p, or None
    ret,      \* ret[p]: the outcome of the call of p, None while it is open
    faults    \* requests that failed so far

bucket == <<blob, refs>>
vars   == <<bucket, late, pc, call, ret, faults>>

D(p) == call[p].d
K(p) == <<call[p].s, call[p].d>>

PCs == {"idle", "refuse", "given", "read", "headref", "headblob", "putblob", "putref",
        "head", "getblob", "lhead", "lput", "delref", "done"}

FirstStep(op) ==
    CASE op = "add"   -> "given"
      [] op = "erase" -> "delref"
      [] op = "label" -> "lhead"
      [] OTHER        -> "head"

Goto(p, l) == pc' = [pc EXCEPT ![p] = l]

Answer(p, r) == ret' = [ret EXCEPT ![p] = r] /\ Goto(p, "done")

Continue(p, l) == Goto(p, l) /\ UNCHANGED ret

Init ==
    /\ blob = {} /\ refs = {} /\ late = {}
    /\ pc = [p \in Procs |-> "idle"]
    /\ call = [p \in Procs |-> None]
    /\ ret = [p \in Procs |-> None]
    /\ faults = 0

\* A client calls an operation.
Invoke(p) ==
    /\ pc[p] = "idle"
    /\ \E c \in Calls :
         /\ Sensible(c)
         /\ call' = [call EXCEPT ![p] = c]
         /\ Goto(p, IF c.wellformed THEN FirstStep(c.op) ELSE "refuse")
    /\ UNCHANGED <<bucket, late, ret, faults>>

\* Digest.Sanitize refuses the digest: no request is sent.
Refuse(p) ==
    /\ pc[p] = "refuse"
    /\ Answer(p, Refusal(call[p].op))
    /\ UNCHANGED <<bucket, late, call, faults>>

\* The caller takes the outcome.
Return(p) ==
    /\ pc[p] = "done"
    /\ Goto(p, "idle")
    /\ call' = [call EXCEPT ![p] = None]
    /\ ret' = [ret EXCEPT ![p] = None]
    /\ UNCHANGED <<bucket, late, faults>>

-----------------------------------------------------------------------------
(***************************************************************************)
(* Add.                                                                    *)
(***************************************************************************)

\* With a digest given: HEAD of this store's marker for it.
AddGiven(p) ==
    /\ pc[p] = "given"
    /\ IF call[p].given # None /\ <<call[p].s, call[p].given>> \in refs
         THEN Answer(p, "exists") ELSE Continue(p, "read")
    /\ UNCHANGED <<bucket, late, call, faults>>

\* Mutant: the digest of the content is not compared with the one given.
AddReadTrusting(p) ==
    /\ pc[p] = "read"
    /\ Continue(p, IF call[p].given = None THEN "headref" ELSE "headblob")
    /\ UNCHANGED <<bucket, late, call, faults>>

\* The content is buffered, its digest known and compared with the one given.
AddRead(p) ==
    /\ pc[p] = "read"
    /\ CASE call[p].given = None -> Continue(p, "headref")
         [] call[p].given = D(p) -> Continue(p, "headblob")
         [] OTHER -> Answer(p, "mismatch")
    /\ UNCHANGED <<bucket, late, call, faults>>

\* With no digest given: HEAD of the marker once the digest is known.
AddHeadRef(p) ==
    /\ pc[p] = "headref"
    /\ IF K(p) \in refs THEN Answer(p, "exists") ELSE Continue(p, "headblob")
    /\ UNCHANGED <<bucket, late, call, faults>>

\* HEAD of the shared blob: present, it is not uploaded again.
AddHeadBlob(p) ==
    /\ pc[p] = "headblob"
    /\ Continue(p, IF D(p) \in blob THEN "putref" ELSE "putblob")
    /\ UNCHANGED <<bucket, late, call, faults>>

\* PUT of the shared blob.
AddPutBlob(p) ==
    /\ pc[p] = "putblob"
    /\ blob' = blob \cup {D(p)}
    /\ Continue(p, "putref")
    /\ UNCHANGED <<refs, late, call, faults>>

\* Mutant: the marker is put under the digest of the caller's Meta, which may be empty.
AddPutRefAsGiven(p) ==
    /\ pc[p] = "putref"
    /\ refs' = refs \cup {<<call[p].s, call[p].given>>}
    /\ Answer(p, "ok")
    /\ UNCHANGED <<blob, late, call, faults>>

\* PUT of the marker, over whatever marker is there.
AddPutRef(p) ==
    /\ pc[p] = "putref"
    /\ refs' = refs \cup {K(p)}
    /\ Answer(p, "ok")
    /\ UNCHANGED <<blob, late, call, faults>>

-----------------------------------------------------------------------------
(***************************************************************************)
(* Get, Open and PresignOpen begin with a HEAD of the marker; Open, or the *)
(* client that uses the presigned URL, then gets the shared blob.          *)
(***************************************************************************)
HeadRef(p) ==
    /\ pc[p] = "head"
    /\ CASE K(p) \notin refs -> Answer(p, "notexist")
         [] K(p) \in refs /\ call[p].op = "get" -> Answer(p, "ok")
         [] OTHER -> Continue(p, "getblob")
    /\ UNCHANGED <<bucket, late, call, faults>>

GetBlob(p) ==
    /\ pc[p] = "getblob"
    /\ Answer(p, IF D(p) \in blob THEN "ok" ELSE "notexist")
    /\ UNCHANGED <<bucket, late, call, faults>>

\* Label: HEAD of the marker for its size, then a PUT that replaces it.
LabelHead(p) ==
    /\ pc[p] = "lhead"
    /\ IF K(p) \in refs THEN Continue(p, "lput") ELSE Answer(p, "notexist")
    /\ UNCHANGED <<bucket, late, call, faults>>

LabelPut(p) ==
    /\ pc[p] = "lput"
    /\ refs' = refs \cup {K(p)}
    /\ Answer(p, "ok")
    /\ UNCHANGED <<blob, late, call, faults>>

\* Mutant: Erase reclaims a blob that it sees no marker for.
EraseReclaiming(p) ==
    /\ pc[p] = "delref"
    /\ refs' = refs \ {K(p)}
    /\ blob' = IF \E s \in Stores : <<s, D(p)>> \in refs' THEN blob ELSE blob \ {D(p)}
    /\ Answer(p, "ok")
    /\ UNCHANGED <<late, call, faults>>

\* Erase: DELETE of the marker, and of nothing else.
Erase(p) ==
    /\ pc[p] = "delref"
    /\ refs' = refs \ {K(p)}
    /\ Answer(p, "ok")
    /\ UNCHANGED <<blob, late, call, faults>>

-----------------------------------------------------------------------------
(***************************************************************************)
(* Failures.                                                               *)
(***************************************************************************)
Writes == {"putblob", "putref", "lput", "delref"}

\* A request fails, or reading the content does: the call ends with the error.
\* A write may be under way all the same.
Fail(p) ==
    /\ pc[p] \in PCs \ {"idle", "refuse", "done"}
    /\ faults < MaxFaults /\ faults' = faults + 1
    /\ Answer(p, "error")
    /\ \/ UNCHANGED late
       \/ pc[p] \in Writes /\ late' = late \cup {<<pc[p], K(p)>>}
    /\ UNCHANGED <<bucket, call>>

\* A write of a call that has given up takes effect, or never will.
Arrive ==
    \E w \in late :
      /\ late' = late \ {w}
      /\ LET k == w[2] IN
         \/ UNCHANGED bucket
         \/ w[1] = "putblob" /\ blob' = blob \cup {k[2]} /\ UNCHANGED refs
         \/ w[1] \in {"putref", "lput"} /\ refs' = refs \cup {k} /\ UNCHANGED blob
         \/ w[1] = "delref" /\ refs' = refs \ {k} /\ UNCHANGED blob
      /\ UNCHANGED <<pc, call, ret, faults>>

-----------------------------------------------------------------------------
AddStep(p) ==
    \/ AddGiven(p) \/ AddRead(p) \/ AddHeadRef(p) \/ AddHeadBlob(p)
    \/ AddPutBlob(p) \/ AddPutRef(p)

\* What p does by itself once its call is under way.
Step(p) ==
    \/ AddStep(p) \/ HeadRef(p) \/ GetBlob(p) \/ LabelHead(p) \/ LabelPut(p) \/ Erase(p)
    \/ Refuse(p) \/ Return(p)

Next == Arrive \/ \E p \in Procs : Invoke(p) \/ Step(p) \/ Fail(p)

Spec == Init /\ [][Next]_vars

-----------------------------------------------------------------------------
(***************************************************************************)
(* Properties.                                                             *)
(***************************************************************************)

\* Every variable has its type.
TypeOK ==
    /\ blob \subseteq Digests
    /\ refs \subseteq Keys
    /\ late \subseteq Writes \X Keys
    /\ pc \in [Procs -> PCs]
    /\ call \in [Procs -> Calls \cup {None}]
    /\ ret \in [Procs -> Results \cup {None}]
    /\ faults \in 0..MaxFaults

\* A committed reference always has readable bytes: every marker in the bucket,
\* and every Open that has passed its gate, finds the shared blob, whichever
\* requests of other calls came in between, failed or arrived late.
CommittedReadable ==
    /\ \A k \in refs : k[2] \in blob
    /\ \A p \in Procs : pc[p] = "getblob" => D(p) \in blob
=============================================================================
