-------------------------- MODULE CacheStoreProofs --------------------------
(***************************************************************************)
(* Proofs of the safety properties of CacheStore, for any number of        *)
(* readers and chunks.  What the goroutine has read, with the chunk that a *)
(* Write waits with, is what the origin has given as long as the tap is    *)
(* on; the tap is off before anything else can happen to the position.     *)
(***************************************************************************)
EXTENDS CacheStore, TLAPS

\* A Write waits only in a Read through the tap, and a tap that is on is open.
TapState(r) ==
    /\ tap[r] => /\ rpc[r] \in {"sizing", "reading", "writing", "writinglast"}
                 /\ wend[r] = "open"
    /\ rpc[r] \in {"writing", "writinglast"} => tap[r]
    /\ offer[r] # None => rpc[r] \in {"writing", "writinglast"}
    /\ rpc[r] = "writinglast" => pos[r] = Chunks

\* An Open has one goroutine, which closes the read end when Add is over.
OneGoroutine(r) ==
    /\ apc[r] \in {"start", "read", "commit"} => ~rend[r]
    /\ rpc[r] \in {"origin", "primary"} => apc[r] = "none"

\* The goroutine has the chunks in order, and all that went through the tap.
InStep(r) ==
    /\ \A i \in 1..Len(got[r]) : got[r][i] = i
    /\ apc[r] \in {"start", "read"} /\ tap[r] =>
         IF offer[r] = None THEN pos[r] = Len(got[r])
                            ELSE offer[r] = Len(got[r]) + 1 /\ pos[r] = Len(got[r]) + 1
    /\ apc[r] \in {"start", "read"} /\ wend[r] = "eof" => Len(got[r]) = Chunks
    /\ apc[r] = "commit" => Len(got[r]) = Chunks

\* ServeContent has the tap on only until it has the size.
Unread(r) ==
    r \in served => /\ tap[r] => rpc[r] = "sizing"
                    /\ apc[r] # "none" => got[r] = <<>>

Good(r) == TapState(r) /\ OneGoroutine(r) /\ InStep(r) /\ Unread(r)

Inv == TypeOK /\ \A r \in Readers : Good(r)

\* What a step of r leaves alone.
Apart(r) ==
    \A q \in Readers \ {r} :
      /\ rpc'[q] = rpc[q] /\ pos'[q] = pos[q] /\ tap'[q] = tap[q]
      /\ offer'[q] = offer[q] /\ wend'[q] = wend[q] /\ rend'[q] = rend[q]
      /\ apc'[q] = apc[q] /\ got'[q] = got[q]
      /\ q \in served' <=> q \in served

\* A step of r that keeps its own part of the invariant keeps all of it.
LEMMA OwnPart ==
  ASSUME Inv, NEW r \in Readers, TypeOK', Good(r)', Apart(r)
  PROVE  Inv'
<1> SUFFICES ASSUME NEW q \in Readers PROVE Good(q)'
  BY DEF Inv
<1>1. CASE q = r
  BY <1>1
<1>2. CASE q # r
  BY <1>2 DEF Apart, Inv, Good, TapState, OneGoroutine, InStep, Unread
<1> QED BY <1>1, <1>2

\* Opening keeps the invariant.
LEMMA OpenInv ==
  ASSUME Inv, NEW r \in Readers, Open(r) \/ OpenOrigin(r)
  PROVE  Inv'
<1> USE NoneAssumption, ChunksAssumption DEF Inv, TypeOK, client, pipe
<1>1. CASE Open(r)
  <2>1. TypeOK'
    BY <1>1 DEF Open
  <2>2. Apart(r)
    BY <1>1 DEF Open, Apart
  <2>3. Good(r)'
    BY <1>1 DEF Open, Good, TapState, OneGoroutine, InStep, Unread
  <2> QED BY <2>1, <2>2, <2>3, OwnPart
<1>2. CASE OpenOrigin(r)
  <2>1. TypeOK'
    <3>1. CASE UNCHANGED <<pos, tap, pipe, apc, got>>
      BY <1>2, <3>1 DEF OpenOrigin
    <3>2. CASE /\ pos' = [pos EXCEPT ![r] = 0]
               /\ tap' = [tap EXCEPT ![r] = TRUE]
               /\ offer' = [offer EXCEPT ![r] = None]
               /\ wend' = [wend EXCEPT ![r] = "open"]
               /\ rend' = [rend EXCEPT ![r] = FALSE]
               /\ apc' = [apc EXCEPT ![r] = "start"]
               /\ got' = [got EXCEPT ![r] = <<>>]
      <4>1. <<>> \in Seq(1..Chunks) /\ 0 \in 0..Chunks
        OBVIOUS
      <4>2. got' \in [Readers -> Seq(1..Chunks)]
        BY <3>2, <4>1, Zenon
      <4>3. pos' \in [Readers -> 0..Chunks]
        BY <3>2, <4>1, Zenon
      <4>4. offer' \in [Readers -> 1..Chunks \cup {None}] /\ rend' \in [Readers -> BOOLEAN]
        BY <3>2
      <4> QED BY <1>2, <3>2, <4>2, <4>3, <4>4 DEF OpenOrigin
    <3> QED BY <1>2, <3>1, <3>2 DEF OpenOrigin
  <2>2. Apart(r)
    BY <1>2 DEF OpenOrigin, Apart
  <2>3. Good(r)'
    BY <1>2 DEF OpenOrigin, Good, TapState, OneGoroutine, InStep, Unread
  <2> QED BY <2>1, <2>2, <2>3, OwnPart
<1> QED BY <1>1, <1>2

\* Reading, seeking and closing keep the invariant.
LEMMA TapInv ==
  ASSUME Inv, NEW r \in Readers,
         ReadChunk(r) \/ Written(r) \/ ReadEnd(r) \/ Seek(r) \/ Size(r) \/ Close(r)
  PROVE  Inv'
<1> USE NoneAssumption, ChunksAssumption DEF Inv, TypeOK, client, pipe, stop
<1>1. CASE ReadChunk(r)
  <2>1. TypeOK'
    <3>1. pos[r] \in Nat /\ pos[r] + 1 \in 1..Chunks
      BY <1>1 DEF ReadChunk
    <3>2. pos' \in [Readers -> 0..Chunks]
      BY <1>1, <3>1 DEF ReadChunk
    <3>3. offer' \in [Readers -> 1..Chunks \cup {None}]
      BY <1>1, <3>1 DEF ReadChunk
    <3>4. rpc' \in [Readers -> {"idle", "primary", "origin", "sizing", "reading",
                                "writing", "writinglast"}]
      BY <1>1 DEF ReadChunk
    <3>5. tap' \in [Readers -> BOOLEAN] /\ wend' \in [Readers -> {"open", "eof", "error"}]
      BY <1>1 DEF ReadChunk
    <3> QED BY <1>1, <3>2, <3>3, <3>4, <3>5 DEF ReadChunk
  <2>2. Apart(r)
    BY <1>1 DEF ReadChunk, Apart
  <2>3. Good(r)'
    BY <1>1 DEF ReadChunk, Good, TapState, OneGoroutine, InStep, Unread
  <2> QED BY <2>1, <2>2, <2>3, OwnPart
<1>2. CASE Written(r)
  <2>1. TypeOK'
    BY <1>2 DEF Written
  <2>2. Apart(r)
    BY <1>2 DEF Written, Apart
  <2>3. Good(r)'
    BY <1>2 DEF Written, Good, TapState, OneGoroutine, InStep, Unread
  <2> QED BY <2>1, <2>2, <2>3, OwnPart
<1>3. CASE ReadEnd(r)
  <2>1. TypeOK'
    BY <1>3 DEF ReadEnd
  <2>2. Apart(r)
    BY <1>3 DEF ReadEnd, Apart
  <2>3. Good(r)'
    BY <1>3 DEF ReadEnd, Good, TapState, OneGoroutine, InStep, Unread
  <2> QED BY <2>1, <2>2, <2>3, OwnPart
<1>4. CASE Seek(r)
  <2>1. TypeOK'
    BY <1>4 DEF Seek, SeekTo
  <2>2. Apart(r)
    BY <1>4 DEF Seek, SeekTo, Apart
  <2>3. Good(r)'
    BY <1>4 DEF Seek, SeekTo, Good, TapState, OneGoroutine, InStep, Unread
  <2> QED BY <2>1, <2>2, <2>3, OwnPart
<1>5. CASE Size(r)
  <2>1. TypeOK'
    BY <1>5 DEF Size, SeekTo
  <2>2. Apart(r)
    BY <1>5 DEF Size, SeekTo, Apart
  <2>3. Good(r)'
    BY <1>5 DEF Size, SeekTo, Good, TapState, OneGoroutine, InStep, Unread
  <2> QED BY <2>1, <2>2, <2>3, OwnPart
<1>6. CASE Close(r)
  <2>1. TypeOK'
    BY <1>6 DEF Close
  <2>2. Apart(r)
    BY <1>6 DEF Close, Apart
  <2>3. Good(r)'
    BY <1>6 DEF Close, Good, TapState, OneGoroutine, InStep, Unread
  <2> QED BY <2>1, <2>2, <2>3, OwnPart
<1> QED BY <1>1, <1>2, <1>3, <1>4, <1>5, <1>6

\* The goroutine keeps the invariant.
LEMMA AddInv ==
  ASSUME Inv, NEW r \in Readers, AddStep(r) \/ AddFail(r)
  PROVE  Inv'
<1> USE NoneAssumption, ChunksAssumption DEF Inv, TypeOK, client, pipe, AGoto
<1>1. CASE AddStart(r)
  <2>1. TypeOK'
    BY <1>1 DEF AddStart
  <2>2. Apart(r)
    BY <1>1 DEF AddStart, Apart
  <2>3. Good(r)'
    BY <1>1 DEF AddStart, Good, TapState, OneGoroutine, InStep, Unread
  <2> QED BY <2>1, <2>2, <2>3, OwnPart
<1>2. CASE AddRead(r)
  <2>1. TypeOK'
    <3>1. got' \in [Readers -> Seq(1..Chunks)]
      <4>1. ASSUME offer[r] # None PROVE Append(got[r], offer[r]) \in Seq(1..Chunks)
        <5>1. got[r] \in Seq(1..Chunks) /\ offer[r] \in 1..Chunks
          BY <4>1
        <5> QED BY <5>1
      <4> QED BY <1>2, <4>1 DEF AddRead
    <3>2. offer' \in [Readers -> 1..Chunks \cup {None}]
      BY <1>2 DEF AddRead
    <3> QED BY <1>2, <3>1, <3>2 DEF AddRead
  <2>2. Apart(r)
    BY <1>2 DEF AddRead, Apart
  <2>3. Good(r)'
    <3>1. CASE offer[r] # None
      <4>1. got'[r] = Append(got[r], offer[r]) /\ offer[r] = Len(got[r]) + 1
        BY <1>2, <3>1 DEF AddRead, Good, TapState, InStep
      <4>2. /\ Len(got'[r]) = Len(got[r]) + 1
            /\ \A i \in 1..Len(got'[r]) : got'[r][i] = i
        BY <4>1 DEF Good, InStep
      <4>3. r \notin served
        BY <3>1 DEF Good, TapState, Unread
      <4> QED
        BY <1>2, <3>1, <4>1, <4>2, <4>3
        DEF AddRead, Good, TapState, OneGoroutine, InStep, Unread
    <3>2. CASE offer[r] = None
      BY <1>2, <3>2 DEF AddRead, Good, TapState, OneGoroutine, InStep, Unread
    <3> QED BY <3>1, <3>2
  <2> QED BY <2>1, <2>2, <2>3, OwnPart
<1>3. CASE AddCommit(r)
  <2>1. TypeOK'
    BY <1>3 DEF AddCommit
  <2>2. Apart(r)
    BY <1>3 DEF AddCommit, Apart
  <2>3. Good(r)'
    BY <1>3 DEF AddCommit, Good, TapState, OneGoroutine, InStep, Unread
  <2> QED BY <2>1, <2>2, <2>3, OwnPart
<1>4. CASE AddClose(r)
  <2>1. TypeOK'
    BY <1>4 DEF AddClose
  <2>2. Apart(r)
    BY <1>4 DEF AddClose, Apart
  <2>3. Good(r)'
    BY <1>4 DEF AddClose, Good, TapState, OneGoroutine, InStep, Unread
  <2> QED BY <2>1, <2>2, <2>3, OwnPart
<1>5. CASE AddFail(r)
  <2>1. TypeOK'
    BY <1>5 DEF AddFail
  <2>2. Apart(r)
    BY <1>5 DEF AddFail, Apart
  <2>3. Good(r)'
    BY <1>5 DEF AddFail, Good, TapState, OneGoroutine, InStep, Unread
  <2> QED BY <2>1, <2>2, <2>3, OwnPart
<1> QED BY <1>1, <1>2, <1>3, <1>4, <1>5 DEF AddStep

\* The primary store, as other clients change it, is no part of the invariant.
LEMMA OthersInv ==
  ASSUME Inv, Others \/ UNCHANGED vars
  PROVE  Inv'
BY DEF Others, vars, client, pipe, Inv, TypeOK, Good, TapState, OneGoroutine, InStep,
       Unread

\* The invariant holds in every reachable state: whatever the readers, the goroutines
\* and the other clients of the primary store do, in whatever order.
THEOREM Invariance == Spec => []Inv
<1>1. Init => Inv
  BY NoneAssumption, ChunksAssumption
  DEF Init, Inv, TypeOK, Good, TapState, OneGoroutine, InStep, Unread
<1>2. Inv /\ [Next]_vars => Inv'
  <2> SUFFICES ASSUME Inv, [Next]_vars PROVE Inv'
    OBVIOUS
  <2>1. CASE Others \/ UNCHANGED vars
    BY <2>1, OthersInv
  <2>2. ASSUME NEW r \in Readers, Open(r) \/ OpenOrigin(r) PROVE Inv'
    BY <2>2, OpenInv
  <2>3. ASSUME NEW r \in Readers,
               ReadChunk(r) \/ Written(r) \/ ReadEnd(r) \/ Seek(r) \/ Size(r) \/ Close(r)
        PROVE  Inv'
    BY <2>3, TapInv
  <2>4. ASSUME NEW r \in Readers, AddStep(r) \/ AddFail(r) PROVE Inv'
    BY <2>4, AddInv
  <2> QED BY <2>1, <2>2, <2>3, <2>4 DEF Next
<1> QED BY <1>1, <1>2, PTL DEF Spec

\* Every variable of CacheStore keeps its type: the chunk on offer is one of the blob.
THEOREM TypeCorrect == Spec => []TypeOK
BY Invariance, PTL DEF Inv

\* The end of file that the goroutine of CacheStore.Open reads comes after the whole
\* content, for any blob, any number of readers and any use of them.
THEOREM WholeContent == Spec => []TapFaithful
<1>1. Inv => TapFaithful
  <2> SUFFICES ASSUME Inv, NEW r \in Readers, apc[r] = "commit" PROVE got[r] = Content
    BY DEF TapFaithful
  <2>1. /\ got[r] \in Seq(1..Chunks) /\ Len(got[r]) = Chunks
        /\ \A i \in 1..Chunks : got[r][i] = i
    BY DEF Inv, TypeOK, Good, InStep
  <2> QED BY <2>1, ChunksAssumption DEF Content
<1> QED BY <1>1, Invariance, PTL

\* A blob that HttpHandler serves through http.ServeContent gives its goroutine no
\* byte, for any number of readers.
THEOREM ServingCachesNothing == Spec => []ServedNotCached
<1>1. Inv => ServedNotCached
  BY DEF Inv, TypeOK, Good, Unread, ServedNotCached
<1> QED BY <1>1, Invariance, PTL
=============================================================================
