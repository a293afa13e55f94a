-------------------------- MODULE CommandsContract --------------------------
(***************************************************************************)
(* What the layers answer and what the commands report, against what was   *)
(* the case.  Nothing of Commands depends on the history variables.        *)
(***************************************************************************)
EXTENDS Commands

VARIABLES
    seen,    \* seen[p]: what was the case for the key of the call of p since it began
    seen2,   \* seen2[p]: the same for its digest under SecondaryId, with a fallback
    made,    \* the callers whose Add made its key appear
    broke    \* the callers of a Get or an Open one of whose backends has failed in it

history == <<seen, seen2, made, broke>>

InitH ==
    /\ Init
    /\ seen = [p \in Procs |-> {}]
    /\ seen2 = [p \in Procs |-> {}]
    /\ made = {}
    /\ broke = {}

\* What is added to the history h of p, which begins with its call or with a new digest.
Recorded(h, p, k) ==
    (IF pc[p] \in {"idle", "prepare"} THEN {} ELSE h[p])
      \cup {IF k \in has' THEN "present" ELSE "absent"}

\* The calls that a fallback may pass on to its secondary store.
LooksTwice(l, op) == op \in {"get", "open"} \/ l = "check"

NextH ==
    /\ Next
    /\ seen' = [p \in Procs |->
                  IF call'[p] = None THEN {} ELSE Recorded(seen, p, Target(call'[p]))]
    /\ seen2' = [p \in Procs |->
                  IF call'[p] # None /\ secondary # "none" /\ LooksTwice(layer'[p], call'[p].op)
                    THEN Recorded(seen2, p, <<SecondaryId, Target(call'[p])[2]>>) ELSE {}]
    /\ made' = {p \in Procs : call'[p] # None /\ (p \in made \/ p \in did')}
    /\ broke' = {p \in Procs :
                   /\ call'[p] # None /\ call'[p].op \in {"get", "open"}
                   /\ p \in broke \/ outcome'[p] = "error"}

SpecH == InitH /\ [][NextH]_<<vars, history>> /\ Fairness

-----------------------------------------------------------------------------
\* Is what was answered to p true?
Supported(p) ==
    LET c == call[p]
        r == ret[p]
        read == c.op \in {"get", "open"}
        there == "present" \in seen[p]
        there2 == secondary = "same" /\ "present" \in seen2[p] IN
    CASE r = "ok" ->
           CASE c.op = "add" -> p \in made \/ (layer[p] = "allow" /\ there)
             [] c.op = "erase" -> c.wellformed => "absent" \in seen[p]
             [] OTHER -> there \/ (read /\ there2)
      [] r = "exists" ->
           c.op = "add" /\ p \notin made /\ (there \/ (layer[p] = "check" /\ there2))
      [] r = "notexist" ->
           CASE c.op = "add" -> p \notin made
             [] c.op = "erase" -> FALSE
             [] OTHER -> c.wellformed =>
                  /\ "absent" \in seen[p] \/ (read /\ secondary # "none" /\ p \in broke)
                  /\ read /\ secondary = "same" => "absent" \in seen2[p]
      [] r = "mismatch" -> c.op = "add" /\ c.given \notin {None, c.d} /\ p \notin made
      [] OTHER -> TRUE

\* Every outcome that a layer hands out was true at some moment of its call, whatever
\* other callers did between the two or three calls that it may make, of the digest that
\* it hands on: an Add succeeds because it wrote, and through AllowDuplicates because
\* the blob was there; ErrAlreadyExists means that this call wrote nothing and that the
\* blob was there, or, through CheckExistence over a fallback, in the secondary store
\* alone; a fallback's ErrNotExist means that neither store had the blob, where the
\* primary may have failed instead and the secondary may be a MemStores of its own.
\* CommandsSays states what the repository says beyond that.
AnswersTrue == \A p \in Procs : pc[p] = "done" /\ call[p] # None => Supported(p)

\* The exit code of `flob add' is what cmd/flob/README.md says: 0 when a blob was
\* written and all are there, 3 when nothing was written and all were there; any other
\* code means that a file failed, where 4 needs one whose Add was answered with
\* ErrNotExist and 1 that no Add was; and a digest that is printed is one the store has
\* had.
ExitTells ==
    exit # None =>
      /\ exit = 0 => made \cap Workers # {} /\ Failed = {}
      /\ exit = 3 => made \cap Workers = {} /\ Failed = {} /\ files # <<>>
      /\ exit = 1 => Failed # {} \/ files = <<>>
      /\ exit = 4 => Failed # {}
      /\ exit = 4 <=> \E i \in Workers : ret[i] = "notexist"
      /\ \A i \in Printed : "present" \in seen[i]

\* Standard input goes into one blob at most: of several "-" only one can be answered
\* with a digest of content, since none reads while another does and what comes after
\* a success finds no content.
StdinOnce ==
    \A i, j \in Stdin :
      i # j /\ {ret[i], ret[j]} \subseteq {"ok", "exists"} => Empty \in {call[i].d, call[j].d}

\* `flob add' ends, whatever --parallel says, when the calls of the stores behind do.
CommandEnds == exit = None ~> exit # None

\* Every call through the layers ends, when the calls of the stores behind do: of one
\* call of its client a layer makes three of them at most.
CallEnds == \A p \in Clients : files = <<>> /\ pc[p] # "idle" ~> pc[p] = "idle"
=============================================================================
