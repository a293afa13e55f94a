----------------------------- MODULE CacheStore -----------------------------
(***************************************************************************)
(* The read-through cache of flob (cache.go), for one digest of one store. *)
(*                                                                         *)
(* Open of a blob that the primary store lacks returns a blobTap: what the *)
(* client reads from the origin goes through an io.Pipe to a goroutine     *)
(* that adds it to the primary.  The two stores are taken at their         *)
(* contract: the primary has the blob or not, and its Add reads the whole  *)
(* content and checks its digest; the content is a sequence of chunks.     *)
(***************************************************************************)
EXTENDS Integers, Sequences

CONSTANTS
    Readers,    \* Opens that can be under way, each with its goroutine
    Chunks,     \* number of chunks of the blob in the origin
    None        \* no chunk

ASSUME ChunksAssumption == Chunks \in Nat \ {0}
ASSUME NoneAssumption == None \notin 1..Chunks

VARIABLES
    cached,   \* does the primary have the blob?
    rpc,      \* rpc[r]: what the client of Open r is doing
    served,   \* the Opens that HttpHandler made, to serve the blob with ServeContent
    pos,      \* pos[r]: chunks that the origin's reader has gone past
    tap,      \* tap[r]: is blobTap.w the pipe (else the discardSink)?
    offer,    \* offer[r]: the chunk that a Write to the pipe waits with, or None
    wend,     \* wend[r]: how the write end was closed: "open", "eof" or "error"
    rend,     \* rend[r]: is the read end closed?
    apc,      \* apc[r]: where the goroutine is, "none" when there is none
    got       \* got[r]: the chunks that Primary.Add has read

client == <<rpc, served, pos, tap>>
pipe   == <<offer, wend, rend>>
vars   == <<cached, client, pipe, apc, got>>

Content == [i \in 1..Chunks |-> i]

Init ==
    /\ cached \in BOOLEAN
    /\ rpc = [r \in Readers |-> "idle"]
    /\ served = {}
    /\ pos = [r \in Readers |-> 0]
    /\ tap = [r \in Readers |-> FALSE]
    /\ offer = [r \in Readers |-> None]
    /\ wend = [r \in Readers |-> "open"]
    /\ rend = [r \in Readers |-> FALSE]
    /\ apc = [r \in Readers |-> "none"]
    /\ got = [r \in Readers |-> <<>>]

-----------------------------------------------------------------------------
(***************************************************************************)
(* Opening.                                                                *)
(***************************************************************************)

\* Primary.Open: its reader is returned as it is; on any error the origin is next.
Open(r) ==
    /\ rpc[r] = "idle" /\ apc[r] = "none"
    /\ \E l \in {"origin"} \cup (IF cached THEN {"primary"} ELSE {}) :
         rpc' = [rpc EXCEPT ![r] = l]
    /\ served' \in {served \cup {r}, served \ {r}}
    /\ UNCHANGED <<cached, pos, tap, pipe, apc, got>>

\* Origin.Open fails, or its reader gets a tap and a goroutine of its own.
OpenOrigin(r) ==
    /\ rpc[r] = "origin"
    /\ \/ rpc' = [rpc EXCEPT ![r] = "idle"] /\ UNCHANGED <<pos, tap, pipe, apc, got>>
       \/ /\ rpc' = [rpc EXCEPT ![r] = IF r \in served THEN "sizing" ELSE "reading"]
          /\ pos' = [pos EXCEPT ![r] = 0]
          /\ tap' = [tap EXCEPT ![r] = TRUE]
          /\ offer' = [offer EXCEPT ![r] = None]
          /\ wend' = [wend EXCEPT ![r] = "open"]
          /\ rend' = [rend EXCEPT ![r] = FALSE]
          /\ apc' = [apc EXCEPT ![r] = "start"]
          /\ got' = [got EXCEPT ![r] = <<>>]
    /\ UNCHANGED <<cached, served>>

-----------------------------------------------------------------------------
(***************************************************************************)
(* The tap.                                                                *)
(***************************************************************************)

\* t.stop(err): close the write end with e, and discard from now on.
stop(r, e) ==
    /\ wend' = [wend EXCEPT ![r] = IF tap[r] THEN e ELSE @]
    /\ tap' = [tap EXCEPT ![r] = FALSE]

\* Mutant: the whole buffer is written to the pipe, whatever part of it was read.
ReadChunkWhole(r) ==
    /\ rpc[r] = "reading" /\ tap[r] /\ ~rend[r]
    /\ offer' = [offer EXCEPT ![r] = pos[r] + 1]
    /\ pos' = [pos EXCEPT ![r] = IF @ < Chunks THEN @ + 1 ELSE @]
    /\ rpc' = [rpc EXCEPT ![r] = "writing"]
    /\ UNCHANGED <<cached, served, tap, wend, rend, apc, got>>

\* Read gets a chunk, the last one perhaps together with io.EOF, and writes it to
\* the pipe: the Write waits, or fails at once when the read end is closed.
ReadChunk(r) ==
    /\ rpc[r] = "reading" /\ pos[r] < Chunks
    /\ pos' = [pos EXCEPT ![r] = @ + 1]
    /\ \/ /\ tap[r] /\ ~rend[r]
          /\ offer' = [offer EXCEPT ![r] = pos[r] + 1]
          /\ \E l \in {"writing"} \cup (IF pos[r] + 1 = Chunks THEN {"writinglast"} ELSE {}) :
               rpc' = [rpc EXCEPT ![r] = l]
          /\ UNCHANGED <<tap, wend>>
       \/ tap[r] /\ rend[r] /\ stop(r, "error") /\ UNCHANGED <<rpc, offer>>
       \/ ~tap[r] /\ UNCHANGED <<rpc, tap, offer, wend>>
    /\ UNCHANGED <<cached, served, rend, apc, got>>

\* The Write returns: the chunk was taken, or the read end has been closed.
Written(r) ==
    /\ rpc[r] \in {"writing", "writinglast"}
    /\ offer[r] = None \/ rend[r]
    /\ rpc' = [rpc EXCEPT ![r] = "reading"]
    /\ offer' = [offer EXCEPT ![r] = None]
    /\ \/ offer[r] # None /\ stop(r, "error")
       \/ offer[r] = None /\ rpc[r] = "writinglast" /\ stop(r, "eof")
       \/ offer[r] = None /\ rpc[r] = "writing" /\ UNCHANGED <<tap, wend>>
    /\ UNCHANGED <<cached, served, pos, rend, apc, got>>

\* Read meets the end of the origin's blob, or the origin fails.
ReadEnd(r) ==
    /\ rpc[r] = "reading"
    /\ (pos[r] = Chunks /\ stop(r, "eof")) \/ stop(r, "error")
    /\ UNCHANGED <<cached, served, rpc, pos, offer, rend, apc, got>>

\* Mutant: the tap goes on after a Seek.
SeekToTapping(r, n) ==
    /\ pos' = [pos EXCEPT ![r] = n]
    /\ UNCHANGED <<tap, wend>>

\* Seek: stop tapping, wherever the client goes.
SeekTo(r, n) ==
    /\ stop(r, "error")
    /\ pos' = [pos EXCEPT ![r] = n]

Seek(r) ==
    /\ rpc[r] = "reading"
    /\ \E n \in 0..Chunks : SeekTo(r, n)
    /\ UNCHANGED <<cached, served, rpc, offer, rend, apc, got>>

\* ServeContent seeks to the end for the size, and back, before it reads.
Size(r) ==
    /\ rpc[r] = "sizing"
    /\ SeekTo(r, 0)
    /\ rpc' = [rpc EXCEPT ![r] = "reading"]
    /\ UNCHANGED <<cached, served, offer, rend, apc, got>>

\* Mutant: Close leaves the write end of the pipe open.
CloseTapping(r) ==
    /\ rpc[r] \in {"sizing", "reading", "primary"}
    /\ rpc' = [rpc EXCEPT ![r] = "idle"]
    /\ UNCHANGED <<cached, served, pos, tap, pipe, apc, got>>

\* Close: stop tapping and close the origin's reader.
Close(r) ==
    /\ rpc[r] \in {"sizing", "reading", "primary"}
    /\ rpc' = [rpc EXCEPT ![r] = "idle"]
    /\ IF rpc[r] # "primary" THEN stop(r, "error") ELSE UNCHANGED <<tap, wend>>
    /\ UNCHANGED <<cached, served, pos, offer, rend, apc, got>>

-----------------------------------------------------------------------------
(***************************************************************************)
(* The goroutine: Primary.Add, whose error is ignored, and sink.Close().   *)
(***************************************************************************)
AGoto(r, l) == apc' = [apc EXCEPT ![r] = l]

\* Add has a digest given, and first checks whether there is a blob under it.
AddStart(r) ==
    /\ apc[r] = "start"
    /\ AGoto(r, IF cached THEN "close" ELSE "read")
    /\ UNCHANGED <<cached, client, pipe, got>>

\* Add reads from the pipe: a chunk, or the way the write end was closed.
AddRead(r) ==
    /\ apc[r] = "read"
    /\ \/ /\ offer[r] # None
          /\ got' = [got EXCEPT ![r] = Append(@, offer[r])]
          /\ offer' = [offer EXCEPT ![r] = None]
          /\ UNCHANGED apc
       \/ /\ offer[r] = None /\ wend[r] # "open"
          /\ AGoto(r, IF wend[r] = "eof" THEN "commit" ELSE "close")
          /\ UNCHANGED <<offer, got>>
    /\ UNCHANGED <<cached, client, wend, rend>>

\* All is read: with the right digest it is added, unless it has been meanwhile.
AddCommit(r) ==
    /\ apc[r] = "commit"
    /\ cached' = (cached \/ got[r] = Content)
    /\ AGoto(r, "close")
    /\ UNCHANGED <<client, pipe, got>>

\* Add fails: the store's disk or lock, or the context of the request has ended.
AddFail(r) ==
    /\ apc[r] \in {"start", "read", "commit"}
    /\ AGoto(r, "failed")
    /\ UNCHANGED <<cached, client, pipe, got>>

\* Mutant: the read end is closed without waiting for Add.
AddCloseEarly(r) ==
    /\ apc[r] \in {"read", "close", "failed"}
    /\ rend' = [rend EXCEPT ![r] = TRUE]
    /\ AGoto(r, "none")
    /\ UNCHANGED <<cached, client, offer, wend, got>>

\* Mutant: the read end stays open when Add returns early.
AddCloseNot(r) ==
    /\ apc[r] \in {"close", "failed"}
    /\ AGoto(r, "none")
    /\ UNCHANGED <<cached, client, pipe, got>>

\* sink.Close() and the end of the goroutine.
AddClose(r) ==
    /\ apc[r] \in {"close", "failed"}
    /\ rend' = [rend EXCEPT ![r] = TRUE]
    /\ AGoto(r, "none")
    /\ UNCHANGED <<cached, client, offer, wend, got>>

\* Add, Label and Erase of other clients go to the primary; Get changes nothing.
Others ==
    /\ cached' \in BOOLEAN \ {cached}
    /\ UNCHANGED <<client, pipe, apc, got>>

-----------------------------------------------------------------------------
AddStep(r) == AddStart(r) \/ AddRead(r) \/ AddCommit(r) \/ AddClose(r)

Next ==
    \/ Others
    \/ \E r \in Readers :
         \/ Open(r) \/ OpenOrigin(r) \/ ReadChunk(r) \/ Written(r) \/ ReadEnd(r)
         \/ Seek(r) \/ Size(r) \/ Close(r) \/ AddStep(r) \/ AddFail(r)

(***************************************************************************)
(* The scheduler runs the goroutine and a Write that can return, and a     *)
(* client closes what it has opened.                                       *)
(***************************************************************************)
Fairness ==
    \A r \in Readers : WF_vars(AddStep(r)) /\ WF_vars(Written(r)) /\ WF_vars(Close(r))

Spec == Init /\ [][Next]_vars /\ Fairness

-----------------------------------------------------------------------------
(***************************************************************************)
(* Properties.                                                             *)
(***************************************************************************)

\* Every variable has its type.
TypeOK ==
    /\ cached \in BOOLEAN
    /\ rpc \in [Readers -> {"idle", "primary", "origin", "sizing", "reading", "writing",
                            "writinglast"}]
    /\ served \subseteq Readers
    /\ pos \in [Readers -> 0..Chunks]
    /\ tap \in [Readers -> BOOLEAN]
    /\ offer \in [Readers -> 1..Chunks \cup {None}]
    /\ wend \in [Readers -> {"open", "eof", "error"}]
    /\ rend \in [Readers -> BOOLEAN]
    /\ apc \in [Readers -> {"none", "start", "read", "commit", "close", "failed"}]
    /\ got \in [Readers -> Seq(1..Chunks)]

\* The end of file that the goroutine reads comes after the whole content, in
\* order, and after nothing else: a client that seeks, stops halfway, closes or
\* meets an error of the origin never makes the primary take what it has read
\* for the blob.
TapFaithful ==
    \A r \in Readers : apc[r] = "commit" => got[r] = Content

\* A client's Read returns although it waits for the goroutine: also when
\* Primary.Add gives up before it has read everything.
ReadReturns ==
    \A r \in Readers :
      rpc[r] \in {"writing", "writinglast"} ~> rpc[r] \notin {"writing", "writinglast"}

\* The goroutine ends: no way of using the reader that ends in Close leaves it
\* waiting at the pipe.
GoroutineEnds == \A r \in Readers : apc[r] # "none" ~> apc[r] = "none"

\* What HttpHandler serves is never cached: the goroutine of a blob that goes out
\* through http.ServeContent gets no byte of it, since the tap has stopped before the
\* first Read.  A cache behind `flob serve' fills by Adds alone.
ServedNotCached ==
    \A r \in served : apc[r] # "none" => got[r] = <<>>

\* A client that reads the blob from start to end has it cached, with no call of its
\* own and also when it closes the reader at once, unless the Add of the primary
\* fails; meanwhile the context of its Open must stay alive.
WholeReadIsCached ==
    \A r \in Readers :
      apc[r] = "read" /\ wend[r] = "eof" ~> cached \/ apc[r] = "failed"
=============================================================================
