------------------------------ MODULE S3Sweep ------------------------------
(***************************************************************************)
(* S3Stores with the sweep that s3.md leaves to the operator.  It deletes  *)
(* a blob that no marker refers to and that is older than any Add under    *)
(* way: the PUT of the blob came before every such Add began.              *)
(***************************************************************************)
EXTENDS S3Stores

VARIABLE young    \* <<p, d>>: blob d was put during the call that p is in

InitS == Init /\ young = {}

\* A step of the stores; a PUT of a blob is young for every call under way.
StoreStep ==
    /\ Next
    /\ LET put == {d \in Digests : \E p \in Procs :
                     pc[p] = "putblob" /\ pc'[p] = "putref" /\ D(p) = d}
       IN young' = {x \in young \cup (Procs \X put) : pc'[x[1]] # "idle"}

\* No markers, and older than the longest possible Add in flight.
Sweep ==
    \E d \in blob :
      /\ \A s \in Stores : <<s, d>> \notin refs
      /\ \A p \in Procs : <<p, d>> \notin young
      /\ blob' = blob \ {d}
      /\ UNCHANGED <<refs, late, pc, call, ret, faults, young>>

SpecS == InitS /\ [][StoreStep \/ Sweep]_<<vars, young>>

\* The sweep takes no blob from an Add that is still committing: s3.md, "so it
\* cannot reclaim a blob that a slow Add is still committing".
SweepSparesAdds ==
    \A p \in Procs : pc[p] = "putref" => D(p) \in blob
=============================================================================
