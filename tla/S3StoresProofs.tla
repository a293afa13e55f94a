--------------------------- MODULE S3StoresProofs ---------------------------
(***************************************************************************)
(* Proofs of the safety properties of S3Stores, for any number of stores,  *)
(* digests, callers and failed requests.  The bucket only gains blobs, and *)
(* every marker is written by a request that its sender has seen the blob  *)
(* before: such a request keeps its right to be sent for ever, also when   *)
(* it arrives after its sender has given up.                               *)
(***************************************************************************)
EXTENDS S3StoresContract, TLAPS

\* A call under way has arguments.
InCall == \A p \in Procs : pc[p] # "idle" => call[p] \in Calls

\* A marker is about to be written, or may still arrive, only over a blob.
Backed ==
    /\ \A p \in Procs : pc[p] \in {"putref", "lput"} => D(p) \in blob
    /\ \A w \in late : w[1] \in {"putref", "lput"} => w[2][2] \in blob

Inv == TypeOK /\ InCall /\ CommittedReadable /\ Backed

\* A call under way has a digest and a key.
LEMMA CallFacts ==
  ASSUME Inv, NEW p \in Procs, pc[p] # "idle"
  PROVE  /\ call[p] \in Calls /\ D(p) \in Digests /\ K(p) \in Keys
         /\ K(p)[2] = D(p)
BY DEF Inv, InCall, Calls, D, K, Keys

\* What the steps have in common: blobs stay, other calls are left alone, and
\* whatever is new is backed by a blob.
Backs(p) ==
    /\ blob \subseteq blob'
    /\ refs' \subseteq refs \cup {k \in Keys : k[2] \in blob}
    /\ \A w \in late' \ late : w[1] \in {"putref", "lput"} => w[2][2] \in blob
    /\ \A q \in Procs \ {p} : pc'[q] = pc[q] /\ call'[q] = call[q]
    /\ pc'[p] # "idle" => call'[p] \in Calls
    /\ pc'[p] \in {"putref", "lput", "getblob"} => call'[p] = call[p] /\ D(p) \in blob'

\* Such a step keeps the invariant.
LEMMA BackedStep ==
  ASSUME Inv, NEW p \in Procs, Backs(p), TypeOK'
  PROVE  Inv'
<1>1. InCall'
  BY DEF Inv, InCall, Backs
<1>2. \A q \in Procs : call'[q] = call[q] => D(q)' = D(q)
  BY DEF D
<1>3. CommittedReadable'
  BY <1>2 DEF Inv, CommittedReadable, Backs
<1>4. Backed'
  BY <1>2 DEF Inv, Backed, Backs
<1> QED BY <1>1, <1>3, <1>4 DEF Inv

\* A step of Add keeps the invariant.
LEMMA AddInv ==
  ASSUME Inv, NEW p \in Procs, AddStep(p)
  PROVE  Inv'
<1> USE DEF bucket, Answer, Continue, Goto, Backs, Results
<1>0. TypeOK /\ call[p] \in Calls /\ D(p) \in Digests /\ K(p) \in Keys /\ K(p)[2] = D(p)
  BY CallFacts DEF Inv, AddStep, AddGiven, AddRead, AddHeadRef, AddHeadBlob, AddPutBlob,
                   AddPutRef
<1>1. CASE AddGiven(p)
  BY <1>0, <1>1, BackedStep DEF AddGiven, TypeOK, PCs
<1>2. CASE AddRead(p)
  <2>1. \/ Continue(p, "headref") \/ Continue(p, "headblob") \/ Answer(p, "mismatch")
    BY <1>2 DEF AddRead
  <2> QED BY <1>0, <1>2, <2>1, BackedStep DEF AddRead, TypeOK, PCs
<1>3. CASE AddHeadRef(p)
  BY <1>0, <1>3, BackedStep DEF AddHeadRef, TypeOK, PCs
<1>4. CASE AddHeadBlob(p)
  BY <1>0, <1>4, BackedStep DEF AddHeadBlob, TypeOK, PCs
<1>5. CASE AddPutBlob(p)
  BY <1>0, <1>5, BackedStep DEF AddPutBlob, TypeOK, PCs
<1>6. CASE AddPutRef(p)
  <2>1. D(p) \in blob
    BY <1>6 DEF AddPutRef, Inv, Backed
  <2> QED BY <1>0, <1>6, <2>1, BackedStep DEF AddPutRef, TypeOK, PCs
<1> QED BY <1>1, <1>2, <1>3, <1>4, <1>5, <1>6 DEF AddStep

\* Every other step of a caller keeps the invariant.
LEMMA OtherInv ==
  ASSUME Inv, NEW p \in Procs,
         \/ Invoke(p) \/ Refuse(p) \/ Return(p) \/ HeadRef(p) \/ GetBlob(p)
         \/ LabelHead(p) \/ LabelPut(p) \/ Erase(p) \/ Fail(p)
  PROVE  Inv'
<1> USE DEF bucket, Answer, Continue, Goto, Backs, Results
<1>0. TypeOK /\ \A k \in refs : k \in Keys /\ k[2] \in blob
  BY DEF Inv, TypeOK, CommittedReadable
<1>a. pc[p] # "idle" => /\ call[p] \in Calls /\ D(p) \in Digests /\ K(p) \in Keys
                        /\ K(p)[2] = D(p)
  BY CallFacts
<1>1. CASE Invoke(p)
  <2>1. PICK c \in Calls : call' = [call EXCEPT ![p] = c]
                           /\ Goto(p, IF c.wellformed THEN FirstStep(c.op) ELSE "refuse")
    BY <1>1 DEF Invoke
  <2>2. FirstStep(c.op) \in {"given", "delref", "lhead", "head"}
    BY DEF FirstStep
  <2> QED BY <1>0, <1>1, <2>1, <2>2, BackedStep DEF Invoke, TypeOK, PCs
<1>2. CASE Refuse(p)
  <2>1. Refusal(call[p].op) \in Results
    BY DEF Refusal
  <2> QED BY <1>0, <1>a, <1>2, <2>1, BackedStep DEF Refuse, TypeOK, PCs
<1>3. CASE Return(p)
  BY <1>0, <1>3, BackedStep DEF Return, TypeOK, PCs
<1>4. CASE HeadRef(p)
  <2>1. \/ Answer(p, "notexist") \/ Answer(p, "ok")
        \/ K(p) \in refs /\ Continue(p, "getblob")
    BY <1>4 DEF HeadRef
  <2> QED BY <1>0, <1>a, <1>4, <2>1, BackedStep DEF HeadRef, TypeOK, PCs
<1>5. CASE GetBlob(p)
  BY <1>0, <1>a, <1>5, BackedStep DEF GetBlob, TypeOK, PCs
<1>6. CASE LabelHead(p)
  BY <1>0, <1>a, <1>6, BackedStep DEF LabelHead, TypeOK, PCs
<1>7. CASE LabelPut(p)
  <2>1. D(p) \in blob
    BY <1>7 DEF LabelPut, Inv, Backed
  <2> QED BY <1>0, <1>a, <1>7, <2>1, BackedStep DEF LabelPut, TypeOK, PCs
<1>8. CASE Erase(p)
  BY <1>0, <1>a, <1>8, BackedStep DEF Erase, TypeOK, PCs
<1>9. CASE Fail(p)
  <2>1. pc[p] \in {"putref", "lput"} => D(p) \in blob
    BY DEF Inv, Backed
  <2>2. late' \subseteq late \cup {<<pc[p], K(p)>>} /\ late' \subseteq Writes \X Keys
    BY <1>0, <1>a, <1>9 DEF Fail, TypeOK
  <2>3. \A w \in late' \ late : w[1] = pc[p] /\ w[2] = K(p)
    BY <2>2
  <2>4. faults' \in 0..MaxFaults
    BY <1>0, <1>9, MaxFaultsAssumption DEF Fail, TypeOK
  <2> QED BY <1>0, <1>a, <1>9, <2>1, <2>2, <2>3, <2>4, BackedStep DEF Fail, TypeOK, PCs
<1> QED BY <1>1, <1>2, <1>3, <1>4, <1>5, <1>6, <1>7, <1>8, <1>9

\* A late write keeps the invariant: it was backed when its sender gave up.
LEMMA ArriveInv ==
  ASSUME Inv, Arrive
  PROVE  Inv'
<1>1. PICK w \in late :
        /\ late' = late \ {w}
        /\ \/ UNCHANGED bucket
           \/ w[1] = "putblob" /\ blob' = blob \cup {w[2][2]} /\ UNCHANGED refs
           \/ w[1] \in {"putref", "lput"} /\ refs' = refs \cup {w[2]} /\ UNCHANGED blob
           \/ w[1] = "delref" /\ refs' = refs \ {w[2]} /\ UNCHANGED blob
        /\ UNCHANGED <<pc, call, ret, faults>>
  BY DEF Arrive
<1>2. w[2] \in Keys /\ w[2][2] \in Digests
  BY DEF Inv, TypeOK, Keys
<1>3. TypeOK'
  BY <1>1, <1>2 DEF Inv, TypeOK, bucket
<1>4. InCall'
  BY <1>1 DEF Inv, InCall
<1>5. blob \subseteq blob' /\ \A q \in Procs : D(q)' = D(q)
  BY <1>1 DEF D, bucket
<1>6. \A k \in refs' : k \in refs \/ k[2] \in blob
  BY <1>1 DEF Inv, Backed, bucket
<1>7. CommittedReadable'
  BY <1>1, <1>5, <1>6 DEF Inv, CommittedReadable
<1>8. Backed'
  BY <1>1, <1>5 DEF Inv, Backed
<1> QED BY <1>3, <1>4, <1>7, <1>8 DEF Inv

\* The inductive invariant holds in every reachable state.
THEOREM Invariance == Spec => []Inv
<1>1. Init => Inv
  BY MaxFaultsAssumption
  DEF Init, Inv, TypeOK, PCs, InCall, CommittedReadable, Backed
<1>2. Inv /\ [Next]_vars => Inv'
  <2> SUFFICES ASSUME Inv, [Next]_vars PROVE Inv'
    OBVIOUS
  <2>1. CASE UNCHANGED vars
    BY <2>1 DEF vars, bucket, Inv, TypeOK, InCall, CommittedReadable, Backed, D
  <2>2. CASE Next
    BY <2>2, AddInv, OtherInv, ArriveInv DEF Next, Step
  <2> QED BY <2>1, <2>2
<1> QED BY <1>1, <1>2, PTL DEF Spec

\* TypeOK holds of every run of the S3 store.
THEOREM TypeCorrect == Spec => []TypeOK
<1>1. Inv => TypeOK
  BY DEF Inv
<1> QED BY <1>1, Invariance, PTL

\* CommittedReadable: no interleaving of Add, Label, Erase, failed and late
\* requests leaves a marker, or an Open past its gate, without the shared blob,
\* because Erase of s3.go deletes the marker only.
THEOREM NeverDangling == Spec => []CommittedReadable
<1>1. Inv => CommittedReadable
  BY DEF Inv
<1> QED BY <1>1, Invariance, PTL

-----------------------------------------------------------------------------
(***************************************************************************)
(* The refinement of StoreContract.                                        *)
(***************************************************************************)

\* Whether the key of p exists now.
Now(p) == Contract!Presence(Target(call[p]), refs)

\* The stage of a call goes with its arguments.
Staged(p) ==
    /\ pc[p] = "idle" => call[p] = None
    /\ pc[p] # "done" => ret[p] = None
    /\ pc[p] # "idle" => Sensible(call[p])
    /\ pc[p] = "refuse" => ~call[p].wellformed
    /\ pc[p] \notin {"idle", "refuse", "done"} => call[p].wellformed
    /\ pc[p] \in {"given", "read", "headref", "headblob", "putblob", "putref"} =>
         call[p].op = "add"
    /\ pc[p] \in {"head", "getblob"} => call[p].op \in {"get", "open"}
    /\ pc[p] \in {"lhead", "lput"} => call[p].op = "label"
    /\ pc[p] = "delref" => call[p].op = "erase"
    /\ pc[p] = "headref" => call[p].given = None
    /\ pc[p] \in {"headblob", "putblob", "putref"} => call[p].given \in {None, call[p].d}

\* The history of a call has what is the case now, and what its requests have found.
Witnessed(p) ==
    /\ pc[p] = "idle" => seen[p] = {}
    /\ pc[p] # "idle" => Now(p) \in seen[p]
    /\ pc[p] \in {"lput", "getblob"} => "present" \in seen[p]

InvH ==
    /\ Inv
    /\ seen \in [Procs -> SUBSET {"present", "absent"}]
    /\ \A p \in Procs : Staged(p) /\ Witnessed(p)

\* The vocabulary of the contract is that of the store.
LEMMA Vocabulary ==
  /\ Contract!Calls = Calls /\ Contract!Results = Results
  /\ \A c : Contract!Target(c) = Target(c) /\ (Contract!Sensible(c) <=> Sensible(c))
BY DEF Contract!Calls, Calls, Contract!Results, Results, Contract!Target, Target,
       Contract!Sensible, Sensible

\* What a step of p leaves alone: the calls of the others.
Alone(p) ==
    \A q \in Procs \ {p} : pc'[q] = pc[q] /\ call'[q] = call[q] /\ ret'[q] = ret[q]

\* What p does with its call open, and without a write, adds nothing to the history.
LEMMA NothingNew ==
  ASSUME InvH, NextH, NEW p \in Procs, Alone(p), UNCHANGED <<refs, call>>,
         pc[p] # "idle", pc'[p] # "idle"
  PROVE  seen' = seen
<1>1. \A q \in Procs : pc[q] # "idle" => Now(q) \in seen[q]
  BY DEF InvH, Witnessed
<1>2. \A q \in Procs : pc[q] = "idle" => seen[q] = {}
  BY DEF InvH, Witnessed
<1>3. \A q \in Procs : pc'[q] = "idle" <=> pc[q] = "idle"
  BY DEF Alone
<1>4. \A q \in Procs : seen'[q] = seen[q]
  BY <1>1, <1>2, <1>3 DEF NextH, Now, Contract!Presence
<1> QED BY <1>4 DEF InvH, NextH

\* A step of p that only ends its call is an answer of the contract.
LEMMA Replies ==
  ASSUME InvH, NextH, NEW p \in Procs, NEW r \in Results,
         pc[p] \notin {"idle", "done"}, Answer(p, r), UNCHANGED <<bucket, call>>,
         \/ UNCHANGED late
         \/ /\ r = "error" /\ call[p].op \in {"add", "label", "erase"}
            /\ Loose' = Loose \cup {Target(call[p])},
         Contract!Justified(p, r), r = "ok" => call[p].op # "add"
  PROVE  Contract!Reply(p)
<1> USE DEF Answer, Goto, InvH, Inv, TypeOK
<1>1. seen' = seen
  <2>1. Alone(p) /\ pc'[p] # "idle"
    BY DEF Alone
  <2> QED BY <2>1, NothingNew DEF bucket
<1>2. Did' = Did
  <2>1. ret[p] = None /\ None # "ok"
    BY NothingAssumption DEF Staged, Results
  <2>2. \A q \in Procs : q \in Did' <=> q \in Did
    BY <2>1 DEF Did
  <2> QED BY <2>2 DEF Did
<1>3. Answers[p] = None /\ Answers' = [Answers EXCEPT ![p] = r]
  BY DEF Answers
<1>4. \/ Loose' = Loose
      \/ /\ r = "error" /\ call[p].op \in {"add", "label", "erase"}
         /\ Loose' = Loose \cup {Contract!Target(call[p])}
  BY Vocabulary DEF Loose
<1>5. call[p] # None
  BY NothingAssumption DEF InCall
<1> QED
  BY <1>1, <1>2, <1>3, <1>4, <1>5, Vocabulary DEF Contract!Reply, bucket

\* A step of p that keeps its call open, and writes no marker, is none of the contract.
LEMMA Stutters ==
  ASSUME InvH, NextH, NEW p \in Procs, pc[p] \notin {"idle", "done"},
         NEW l \in PCs \ {"idle", "done"}, Continue(p, l), UNCHANGED <<refs, late, call>>
  PROVE  UNCHANGED Contract!vars
<1> USE DEF Continue, Goto, InvH, Inv, TypeOK
<1>1. seen' = seen
  <2>1. Alone(p) /\ pc'[p] # "idle"
    BY DEF Alone
  <2> QED BY <2>1, NothingNew
<1>2. Did' = Did /\ Loose' = Loose
  BY DEF Did, Loose
<1>3. Answers' = Answers
  BY DEF Answers
<1> QED BY <1>1, <1>2, <1>3 DEF Contract!vars

\* The marker of K(p) stands for the key that the contract speaks of.
LEMMA KeyOfCall ==
  ASSUME InvH, NEW p \in Procs,
         pc[p] \in {"headref", "headblob", "putblob", "putref", "head", "getblob", "lhead",
                    "lput", "delref"}
  PROVE  K(p) = Target(call[p])
BY DEF InvH, Staged, Sensible, Target, K

\* The history after a write of markers is what the contract makes of it.
LEMMA Becoming ==
  ASSUME InvH, NextH, UNCHANGED call,
         \A q \in Procs : pc'[q] = "idle" <=> pc[q] = "idle"
  PROVE  Contract!Becomes(refs')
<1>1. \A q \in Procs : pc'[q] = "idle" <=> pc[q] = "idle"
  OBVIOUS
<1>2. \A q \in Procs : (call[q] = None <=> pc[q] = "idle") /\ (pc[q] = "idle" => seen[q] = {})
  BY NothingAssumption DEF InvH, Inv, InCall, Staged, Witnessed
<1>3. seen' = [q \in Procs |-> IF call[q] = None THEN seen[q]
                ELSE seen[q] \cup {Contract!Presence(Contract!Target(call[q]), refs')}]
  BY <1>1, <1>2, Vocabulary DEF NextH, Contract!Presence
<1> QED BY <1>3 DEF Contract!Becomes

\* The steps of Add are steps of the contract.
LEMMA AddRefines ==
  ASSUME InvH, NextH, NEW p \in Procs, AddStep(p)
  PROVE  [Contract!Next]_Contract!vars
<1> USE DEF bucket
<1>0. /\ pc[p] \notin {"idle", "done", "refuse"} /\ call[p].op = "add" /\ call[p].wellformed
      /\ Now(p) \in seen[p] /\ ret[p] = None /\ p \notin Did
  <2>1. pc[p] \in {"given", "read", "headref", "headblob", "putblob", "putref"}
    BY DEF AddStep, AddGiven, AddRead, AddHeadRef, AddHeadBlob, AddPutBlob, AddPutRef
  <2> QED BY <2>1, NothingAssumption DEF InvH, Staged, Witnessed, Did, Results
<1>a. ASSUME Contract!Reply(p) PROVE Contract!Next
  BY <1>a DEF Contract!Next
<1>1. CASE AddGiven(p)
  <2>1. CASE Answer(p, "exists") /\ Target(call[p]) \in refs
    <3>1. Contract!Justified(p, "exists")
      BY <1>0, <2>1 DEF Contract!Justified, Now, Contract!Presence
    <3> QED BY <1>0, <1>1, <1>a, <2>1, <3>1, Replies DEF AddGiven, Results
  <2>2. CASE Continue(p, "read")
    BY <1>0, <1>1, <2>2, Stutters DEF AddGiven, PCs
  <2> QED BY <1>1, <2>1, <2>2 DEF AddGiven, Target
<1>2. CASE AddRead(p)
  <2>1. CASE Answer(p, "mismatch") /\ call[p].given \notin {None, call[p].d}
    <3>1. Contract!Justified(p, "mismatch")
      BY <1>0, <2>1 DEF Contract!Justified
    <3> QED BY <1>0, <1>2, <1>a, <2>1, <3>1, Replies DEF AddRead, Results
  <2>2. CASE Continue(p, "headref") \/ Continue(p, "headblob")
    BY <1>0, <1>2, <2>2, Stutters DEF AddRead, PCs
  <2> QED BY <1>2, <2>1, <2>2 DEF AddRead, D
<1>3. CASE AddHeadRef(p)
  <2>1. CASE Answer(p, "exists") /\ K(p) \in refs
    <3>1. Contract!Justified(p, "exists")
      BY <1>0, <1>3, <2>1, KeyOfCall DEF AddHeadRef, Contract!Justified, Now, Contract!Presence
    <3> QED BY <1>0, <1>3, <1>a, <2>1, <3>1, Replies DEF AddHeadRef, Results
  <2>2. CASE Continue(p, "headblob")
    BY <1>0, <1>3, <2>2, Stutters DEF AddHeadRef, PCs
  <2> QED BY <1>3, <2>1, <2>2 DEF AddHeadRef
<1>4. CASE AddHeadBlob(p)
  BY <1>0, <1>4, Stutters DEF AddHeadBlob, PCs
<1>5. CASE AddPutBlob(p)
  BY <1>0, <1>5, Stutters DEF AddPutBlob, PCs
<1>6. CASE AddPutRef(p)
  <2>1. Alone(p) /\ pc'[p] # "idle" /\ pc'[p] = "done" /\ ret' = [ret EXCEPT ![p] = "ok"]
    BY <1>6 DEF AddPutRef, Answer, Goto, Alone, InvH, Inv, TypeOK
  <2>2. Contract!Becomes(refs \cup {Contract!Target(call[p])})
    BY <1>0, <1>6, <2>1, KeyOfCall, Becoming, Vocabulary DEF AddPutRef, Alone
  <2>3. Contract!Target(call[p]) = <<call[p].s, call[p].d>>
    BY <1>6, KeyOfCall, Vocabulary DEF AddPutRef, K
  <2>4. call[p] # None
    BY <1>0, NothingAssumption DEF InvH, Inv, InCall
  <2>5. Did' = Did \cup {p}
    BY <1>0, <1>6, <2>1, <2>4 DEF AddPutRef, Did, InvH, Inv, TypeOK
  <2>6. Answers[p] = None /\ Answers' = [Answers EXCEPT ![p] = "ok"]
    BY <1>0, <1>6, <2>1 DEF AddPutRef, Answer, Goto, Answers, InvH, Inv, TypeOK
  <2>7. Contract!Appear(p)
    BY <1>0, <1>6, <2>2, <2>3, <2>4, <2>5, <2>6
    DEF AddPutRef, Contract!Appear, Contract!MayAnswer, Loose
  <2> QED BY <2>7 DEF Contract!Next
<1> QED BY <1>1, <1>2, <1>3, <1>4, <1>5, <1>6 DEF AddStep

\* A read, a Label, an Erase and a refusal are steps of the contract.
LEMMA OtherRefines ==
  ASSUME InvH, NextH, NEW p \in Procs,
         Refuse(p) \/ HeadRef(p) \/ GetBlob(p) \/ LabelHead(p) \/ LabelPut(p) \/ Erase(p)
  PROVE  [Contract!Next]_Contract!vars
<1> USE DEF bucket
<1>0. /\ pc[p] \in {"refuse", "head", "getblob", "lhead", "lput", "delref"}
      /\ Now(p) \in seen[p] /\ ret[p] = None /\ p \notin Did /\ call[p] # None
      /\ call[p].op \in Ops
  <2>1. pc[p] \in {"refuse", "head", "getblob", "lhead", "lput", "delref"}
    BY DEF Refuse, HeadRef, GetBlob, LabelHead, LabelPut, Erase
  <2>2. call[p] \in Calls
    BY <2>1 DEF InvH, Inv, InCall
  <2> QED BY <2>1, <2>2, NothingAssumption DEF InvH, Staged, Witnessed, Did, Results, Calls
<1>a. ASSUME Contract!Reply(p) PROVE Contract!Next
  BY <1>a DEF Contract!Next
<1>b. pc[p] # "refuse" => call[p].wellformed /\ K(p) = Target(call[p]) /\ call[p].op # "add"
  BY <1>0, KeyOfCall DEF InvH, Staged
<1>1. CASE Refuse(p)
  <2>1. Contract!Justified(p, Refusal(call[p].op))
    BY <1>1 DEF Refuse, InvH, Staged, Contract!Justified
  <2>3. Refusal(call[p].op) \in Results
    BY DEF Refusal, Results
  <2>2. Refusal(call[p].op) = "ok" => call[p].op # "add"
    BY DEF Refusal
  <2> QED BY <1>0, <1>1, <1>a, <2>1, <2>2, <2>3, Replies DEF Refuse
<1>2. CASE HeadRef(p)
  <2>0. call[p].op \in {"get", "open"} /\ call[p].wellformed
    BY <1>2, <1>b DEF HeadRef, InvH, Staged
  <2>1. CASE Answer(p, "notexist") /\ K(p) \notin refs
    <3>1. Contract!Justified(p, "notexist")
      BY <1>0, <1>2, <1>b, <2>0, <2>1 DEF HeadRef, Contract!Justified, Now, Contract!Presence
    <3> QED BY <1>0, <1>2, <1>a, <2>1, <3>1, Replies DEF HeadRef, Results
  <2>2. CASE Answer(p, "ok") /\ K(p) \in refs
    <3>1. Contract!Justified(p, "ok")
      BY <1>0, <1>2, <1>b, <2>0, <2>2 DEF HeadRef, Contract!Justified, Now, Contract!Presence
    <3> QED BY <1>0, <1>2, <1>a, <2>0, <2>2, <3>1, Replies DEF HeadRef, Results
  <2>3. CASE Continue(p, "getblob")
    BY <1>0, <1>2, <2>3, Stutters DEF HeadRef, PCs
  <2>4. \/ K(p) \notin refs /\ Answer(p, "notexist")
        \/ K(p) \in refs /\ (Answer(p, "ok") \/ Continue(p, "getblob"))
    BY <1>2, Zenon DEF HeadRef
  <2> QED BY <2>1, <2>2, <2>3, <2>4
<1>3. CASE GetBlob(p)
  <2>0. call[p].op \in {"get", "open"} /\ call[p].wellformed /\ "present" \in seen[p]
    BY <1>3, <1>b DEF GetBlob, InvH, Staged, Witnessed
  <2>1. Answer(p, "ok")
    BY <1>3 DEF GetBlob, InvH, Inv, CommittedReadable
  <2>2. Contract!Justified(p, "ok")
    BY <2>0 DEF Contract!Justified
  <2> QED BY <1>0, <1>3, <1>a, <2>0, <2>1, <2>2, Replies DEF GetBlob, Results
<1>4. CASE LabelHead(p)
  <2>0. call[p].op = "label" /\ call[p].wellformed
    BY <1>4, <1>b DEF LabelHead, InvH, Staged
  <2>1. CASE Answer(p, "notexist") /\ K(p) \notin refs
    <3>1. Contract!Justified(p, "notexist")
      BY <1>0, <1>4, <1>b, <2>0, <2>1 DEF LabelHead, Contract!Justified, Now, Contract!Presence
    <3> QED BY <1>0, <1>4, <1>a, <2>1, <3>1, Replies DEF LabelHead, Results
  <2>2. CASE Continue(p, "lput")
    BY <1>0, <1>4, <2>2, Stutters DEF LabelHead, PCs
  <2> QED BY <1>4, <2>1, <2>2 DEF LabelHead
<1>c. ASSUME Answer(p, "ok"), UNCHANGED call, call[p].op # "add"
      PROVE  /\ Alone(p) /\ pc'[p] = "done" /\ Did' = Did
             /\ Answers[p] = None /\ Answers' = [Answers EXCEPT ![p] = "ok"]
  BY <1>0, <1>c DEF Answer, Goto, Alone, Did, Answers, InvH, Inv, TypeOK
<1>5. CASE LabelPut(p)
  <2>0. call[p].op = "label" /\ call[p].wellformed /\ "present" \in seen[p]
    BY <1>5 DEF LabelPut, InvH, Staged, Witnessed
  <2>1. Contract!Becomes(refs \cup {Contract!Target(call[p])})
    BY <1>0, <1>5, <1>b, <1>c, <2>0, Becoming, Vocabulary DEF LabelPut, Alone
  <2>2. Contract!Rewrite(p)
    BY <1>0, <1>5, <1>c, <2>0, <2>1 DEF LabelPut, Contract!Rewrite, Contract!MayAnswer, Loose
  <2> QED BY <2>2 DEF Contract!Next
<1>6. CASE Erase(p)
  <2>0. call[p].op = "erase" /\ call[p].wellformed
    BY <1>6, <1>b DEF Erase, InvH, Staged
  <2>1. CASE K(p) \in refs
    <3>1. Contract!Becomes(refs \ {Contract!Target(call[p])})
      BY <1>0, <1>6, <1>b, <1>c, <2>0, Becoming, Vocabulary DEF Erase, Alone
    <3>2. Contract!Vanish(p)
      BY <1>0, <1>6, <1>b, <1>c, <2>0, <2>1, <3>1, Vocabulary
      DEF Erase, Contract!Vanish, Contract!MayAnswer, Loose
    <3> QED BY <3>2 DEF Contract!Next
  <2>2. CASE K(p) \notin refs
    <3>1. Contract!Justified(p, "ok")
      BY <1>0, <1>6, <1>b, <2>0, <2>2 DEF Erase, Contract!Justified, Now, Contract!Presence
    <3>2. refs' = refs
      BY <1>6, <2>2 DEF Erase
    <3> QED BY <1>0, <1>6, <1>a, <2>0, <3>1, <3>2, Replies DEF Erase, Results
  <2> QED BY <2>1, <2>2
<1> QED BY <1>1, <1>2, <1>3, <1>4, <1>5, <1>6

\* A call begins, ends or fails as in the contract.
LEMMA EndsRefine ==
  ASSUME InvH, NextH, NEW p \in Procs, Invoke(p) \/ Return(p) \/ Fail(p)
  PROVE  Contract!Next
<1> USE DEF bucket, InvH, Inv, TypeOK
<1>0. \A q \in Procs : pc[q] # "idle" => Now(q) \in seen[q]
  BY DEF Witnessed
<1>1. CASE Invoke(p)
  <2>1. PICK c \in Calls : /\ Sensible(c)
                           /\ call' = [call EXCEPT ![p] = c]
                           /\ Goto(p, IF c.wellformed THEN FirstStep(c.op) ELSE "refuse")
    BY <1>1 DEF Invoke
  <2>2. pc'[p] # "idle" /\ pc'[p] # "done" /\ \A q \in Procs \ {p} : pc'[q] = pc[q]
    BY <2>1 DEF Goto, FirstStep
  <2>3. seen[p] = {} /\ ret[p] = None /\ call[p] = None
    BY <1>1 DEF Invoke, Witnessed, Staged
  <2>4. seen' = [seen EXCEPT ![p] = {Contract!Presence(Contract!Target(c), refs)}]
    <3>1. seen'[p] = {Contract!Presence(Contract!Target(c), refs)}
      BY <1>1, <2>1, <2>2, <2>3, Vocabulary DEF Invoke, NextH, Contract!Presence
    <3>2. \A q \in Procs \ {p} : seen'[q] = seen[q]
      BY <1>0, <1>1, <2>1, <2>2 DEF Invoke, NextH, Now, Contract!Presence, Witnessed
    <3> QED BY <3>1, <3>2 DEF NextH
  <2>5. Did' = Did /\ Answers' = Answers
    <3>1. Did' = Did
      BY <1>1, <2>1, <2>3, NothingAssumption DEF Invoke, Did, Results
    <3>2. Answers' = Answers
      BY <1>1, <2>2 DEF Invoke, Answers
    <3> QED BY <3>1, <3>2
  <2>6. Contract!Invoke(p)
    BY <1>1, <2>1, <2>3, <2>4, <2>5, Vocabulary DEF Invoke, Contract!Invoke, Loose
  <2> QED BY <2>6 DEF Contract!Next
<1>2. CASE Return(p)
  <2>1. call[p] # None
    BY <1>2, NothingAssumption DEF Return, InCall
  <2>2. seen' = [seen EXCEPT ![p] = {}]
    <3>1. seen'[p] = {}
      BY <1>2 DEF Return, Goto, NextH
    <3>2. \A q \in Procs \ {p} : seen'[q] = seen[q]
      BY <1>0, <1>2 DEF Return, Goto, NextH, Now, Contract!Presence, Witnessed
    <3> QED BY <3>1, <3>2 DEF NextH
  <2>3. Did' = Did \ {p}
    BY <1>2 DEF Return, Did
  <2>4. Answers' = [Answers EXCEPT ![p] = None]
    BY <1>2 DEF Return, Goto, Answers
  <2>5. Contract!Leave(p)
    BY <1>2, <2>1, <2>2, <2>3, <2>4 DEF Return, Contract!Leave, Loose
  <2> QED BY <2>5 DEF Contract!Next
<1>3. CASE Fail(p)
  <2>1. \/ UNCHANGED late
        \/ /\ call[p].op \in {"add", "label", "erase"}
           /\ Loose' = Loose \cup {Target(call[p])}
    <3>1. ASSUME pc[p] \in Writes, late' = late \cup {<<pc[p], K(p)>>}
          PROVE  Loose' = Loose \cup {K(p)}
      <4>1. \A k : k \in Loose' <=> \E w \in late' : k = w[2]
        BY DEF Loose
      <4>2. \A k : k \in Loose <=> \E w \in late : k = w[2]
        BY DEF Loose
      <4>3. <<pc[p], K(p)>>[2] = K(p)
        OBVIOUS
      <4>4. \A k : k \in Loose' <=> k \in Loose \/ k = K(p)
        BY <3>1, <4>1, <4>2, <4>3
      <4> QED BY <4>4
    <3>2. pc[p] \in Writes => K(p) = Target(call[p])
      BY KeyOfCall DEF Writes
    <3>3. pc[p] \in Writes => call[p].op \in {"add", "label", "erase"}
      BY DEF Writes, InvH, Staged
    <3> QED BY <1>3, <3>1, <3>2, <3>3 DEF Fail
  <2>2. Contract!Justified(p, "error")
    BY <1>3 DEF Fail, Staged, Contract!Justified
  <2>3. Contract!Reply(p)
    BY <1>3, <2>1, <2>2, Replies DEF Fail, Results
  <2> QED BY <2>3 DEF Contract!Next
<1> QED BY <1>1, <1>2, <1>3

\* A late write is a drift of its key.
LEMMA ArriveRefines ==
  ASSUME InvH, NextH, Arrive
  PROVE  Contract!Next
<1>1. PICK w \in late :
        /\ late' = late \ {w}
        /\ refs' = refs \/ refs' = refs \cup {w[2]} \/ refs' = refs \ {w[2]}
        /\ UNCHANGED <<pc, call, ret, faults>>
  BY DEF Arrive, bucket
<1>2. Contract!Becomes(refs')
  <2>2. \A q \in Procs : pc'[q] = "idle" <=> pc[q] = "idle"
    BY <1>1
  <2> QED BY <1>1, <2>2, Becoming
<1>3. w[2] \in Loose /\ Loose' \in {Loose, Loose \ {w[2]}}
  BY <1>1 DEF Loose
<1>4. Did' = Did /\ Answers' = Answers
  BY <1>1 DEF Did, Answers
<1>5. Contract!Drift(w[2])
  BY <1>1, <1>2, <1>3, <1>4 DEF Contract!Drift
<1> QED BY <1>3, <1>5 DEF Contract!Next

\* Every step keeps each call in its stage.
LEMMA StagedInv ==
  ASSUME InvH, Next
  PROVE  \A p \in Procs : Staged(p)'
<1> USE DEF Staged, bucket, Answer, Continue, Goto, InvH, Inv, TypeOK
<1>1. CASE Arrive
  BY <1>1 DEF Arrive
<1>2. ASSUME NEW p \in Procs, Invoke(p) PROVE \A q \in Procs : Staged(q)'
  <2>1. PICK c \in Calls : /\ Sensible(c)
                           /\ call' = [call EXCEPT ![p] = c]
                           /\ Goto(p, IF c.wellformed THEN FirstStep(c.op) ELSE "refuse")
    BY <1>2 DEF Invoke
  <2>2. c.op \in {"add", "get", "open", "label", "erase"}
    BY OpsAssumption DEF Calls
  <2>3. Staged(p)'
    BY <1>2, <2>1, <2>2 DEF Invoke, FirstStep
  <2> QED BY <1>2, <2>1, <2>3 DEF Invoke
<1>3. ASSUME NEW p \in Procs, AddStep(p) PROVE \A q \in Procs : Staged(q)'
  <2>1. CASE AddGiven(p)
    BY <2>1 DEF AddGiven
  <2>2. CASE AddRead(p)
    <3>1. \/ call[p].given = None /\ Continue(p, "headref")
          \/ call[p].given = call[p].d /\ Continue(p, "headblob")
          \/ Answer(p, "mismatch")
      BY <2>2 DEF AddRead, D
    <3> QED BY <2>2, <3>1 DEF AddRead
  <2>3. CASE AddHeadRef(p)
    BY <2>3 DEF AddHeadRef
  <2>4. CASE AddHeadBlob(p)
    BY <2>4 DEF AddHeadBlob
  <2>5. CASE AddPutBlob(p) \/ AddPutRef(p)
    BY <2>5 DEF AddPutBlob, AddPutRef
  <2> QED BY <1>3, <2>1, <2>2, <2>3, <2>4, <2>5 DEF AddStep
<1>4. ASSUME NEW p \in Procs, HeadRef(p) PROVE \A q \in Procs : Staged(q)'
  <2>1. Answer(p, "notexist") \/ Answer(p, "ok") \/ Continue(p, "getblob")
    BY <1>4 DEF HeadRef
  <2> QED BY <1>4, <2>1 DEF HeadRef
<1>5. ASSUME NEW p \in Procs, GetBlob(p) \/ LabelHead(p) \/ LabelPut(p) \/ Erase(p)
      PROVE \A q \in Procs : Staged(q)'
  BY <1>5 DEF GetBlob, LabelHead, LabelPut, Erase
<1>6. ASSUME NEW p \in Procs, Refuse(p) \/ Return(p) \/ Fail(p)
      PROVE \A q \in Procs : Staged(q)'
  BY <1>6 DEF Refuse, Return, Fail
<1> QED BY <1>1, <1>2, <1>3, <1>4, <1>5, <1>6 DEF Next, Step

\* Only a HEAD that finds the marker leads to the stages that rely on it.
LEMMA FoundFirst ==
  ASSUME InvH, Next, NEW q \in Procs, pc'[q] \in {"lput", "getblob"}, pc[q] # pc'[q]
  PROVE  K(q) \in refs /\ refs' = refs /\ call' = call /\ pc[q] \in {"lhead", "head"}
<1> USE DEF bucket, Answer, Continue, Goto, InvH, Inv, TypeOK
<1>1. CASE Arrive
  BY <1>1 DEF Arrive
<1>2. ASSUME NEW p \in Procs, Invoke(p) PROVE FALSE
  BY <1>2 DEF Invoke, FirstStep
<1>3. ASSUME NEW p \in Procs, AddStep(p) PROVE FALSE
  BY <1>3 DEF AddStep, AddGiven, AddRead, AddHeadRef, AddHeadBlob, AddPutBlob, AddPutRef
<1>4. ASSUME NEW p \in Procs, HeadRef(p)
      PROVE  K(q) \in refs /\ refs' = refs /\ call' = call /\ pc[q] \in {"lhead", "head"}
  <2>1. \/ Answer(p, "notexist") \/ Answer(p, "ok")
        \/ K(p) \in refs /\ Continue(p, "getblob")
    BY <1>4 DEF HeadRef
  <2> QED BY <1>4, <2>1 DEF HeadRef
<1>5. ASSUME NEW p \in Procs, LabelHead(p)
      PROVE  K(q) \in refs /\ refs' = refs /\ call' = call /\ pc[q] \in {"lhead", "head"}
  BY <1>5 DEF LabelHead
<1>6. ASSUME NEW p \in Procs,
             GetBlob(p) \/ LabelPut(p) \/ Erase(p) \/ Refuse(p) \/ Return(p) \/ Fail(p)
      PROVE FALSE
  BY <1>6 DEF GetBlob, LabelPut, Erase, Refuse, Return, Fail
<1> QED BY <1>1, <1>2, <1>3, <1>4, <1>5, <1>6 DEF Next, Step

\* The history records what the calls rely on.
LEMMA WitnessedInv ==
  ASSUME InvH, NextH
  PROVE  \A p \in Procs : Witnessed(p)'
<1> SUFFICES ASSUME NEW p \in Procs PROVE Witnessed(p)'
  OBVIOUS
<1>1. pc'[p] = "idle" => seen'[p] = {}
  BY DEF NextH
<1>2. pc'[p] # "idle" => Now(p)' \in seen'[p] /\ seen[p] \subseteq seen'[p]
  BY DEF NextH, Now, Contract!Presence
<1>3. pc'[p] \in {"lput", "getblob"} => "present" \in seen'[p]
  <2>1. CASE pc[p] = pc'[p]
    BY <1>2, <2>1 DEF InvH, Witnessed
  <2>2. CASE pc[p] # pc'[p] /\ pc'[p] \in {"lput", "getblob"}
    <3>1. K(p) \in refs /\ refs' = refs /\ call' = call /\ K(p) = Target(call[p])
      BY <2>2, FoundFirst, KeyOfCall DEF NextH
    <3>2. Now(p)' = "present"
      BY <3>1 DEF Now, Contract!Presence
    <3> QED BY <1>2, <2>2, <3>2
  <2> QED BY <2>1, <2>2
<1> QED BY <1>1, <1>2, <1>3 DEF Witnessed

\* The invariant that the refinement rests on holds in every reachable state.
THEOREM HistoryInvariance == SpecH => []InvH
<1>1. InitH => InvH
  BY MaxFaultsAssumption
  DEF InitH, Init, InvH, Inv, TypeOK, PCs, InCall, CommittedReadable, Backed, Staged, Witnessed
<1>2. InvH /\ [NextH]_<<vars, seen>> => InvH'
  <2> SUFFICES ASSUME InvH, [NextH]_<<vars, seen>> PROVE InvH'
    OBVIOUS
  <2>1. CASE UNCHANGED <<vars, seen>>
    BY <2>1 DEF vars, bucket, InvH, Inv, TypeOK, InCall, CommittedReadable, Backed, D,
                Staged, Witnessed, Now
  <2>2. CASE NextH
    <3>1. Inv'
      BY <2>2, AddInv, OtherInv, ArriveInv DEF NextH, InvH, Next, Step
    <3>2. seen' \in [Procs -> SUBSET {"present", "absent"}]
      BY <2>2 DEF NextH, InvH
    <3> QED BY <2>2, <3>1, <3>2, StagedInv, WitnessedInv DEF NextH, InvH
  <2> QED BY <2>1, <2>2
<1> QED BY <1>1, <1>2, PTL DEF SpecH

\* KeepsContract: S3Store implements the contract of store.go, for any number of
\* stores, digests, callers and failed requests.  A call that writes nothing answers
\* with what its history has; the PUT of a marker is the moment an Add or a Label
\* takes effect, the DELETE that of an Erase, and a late request drifts its key.
THEOREM Refinement == SpecH => KeepsContract
<1>1. InitH => Contract!Init
  BY NothingAssumption DEF InitH, Init, Contract!Init, Did, Answers, Loose
<1>2. InvH /\ [NextH]_<<vars, seen>> => [Contract!Next]_Contract!vars
  <2> SUFFICES ASSUME InvH, [NextH]_<<vars, seen>> PROVE [Contract!Next]_Contract!vars
    OBVIOUS
  <2>1. CASE UNCHANGED <<vars, seen>>
    BY <2>1 DEF vars, bucket, Contract!vars, Did, Answers, Loose
  <2>2. CASE NextH
    BY <2>2, AddRefines, OtherRefines, EndsRefine, ArriveRefines DEF NextH, Next, Step
  <2> QED BY <2>1, <2>2
<1> QED BY <1>1, <1>2, HistoryInvariance, PTL DEF SpecH, KeepsContract, Contract!Spec
=============================================================================
