---------------------------- MODULE StoreContract ----------------------------
(***************************************************************************)
(* What store.go promises of every Store, whatever keeps the blobs.        *)
(*                                                                         *)
(* The abstract state is the set of keys that exist.  A key appears by one *)
(* pending Add of it and vanishes by a pending Erase of it.  Calls take    *)
(* time and overlap, so an answer about existence need not be true when it *)
(* arrives; it has to have been true at some moment of the call.           *)
(*                                                                         *)
(* A store that does not serialise the writers of a key promises less: an  *)
(* Add may succeed although another has just succeeded, and a Label that   *)
(* has seen the key may bring it back after an Erase.  And when the store  *)
(* is remote, a call that reports an error may have had its effect, or may *)
(* have it later.                                                          *)
(***************************************************************************)
EXTENDS Store

CONSTANTS
    Exclusive,    \* TRUE when the writers of a key are serialised
    Remote,       \* TRUE when an error says nothing of the effect of the call
    Refuse(_)     \* what each operation answers to a malformed digest

VARIABLES
    has,    \* the keys that exist
    pend,   \* pend[p]: the call p is in, or None
    seen,   \* seen[p]: what was the case for its key since the call began
    did,    \* the callers whose Add made its key appear
    ans,    \* ans[p]: the answer to the call, or None
    loose   \* the keys that a call which reported an error may still write

vars == <<has, pend, seen, did, ans, loose>>

\* Whether key k is among the keys h.
Presence(k, h) == IF k \in h THEN "present" ELSE "absent"

Init ==
    /\ has = {}
    /\ pend = [p \in Procs |-> None]
    /\ seen = [p \in Procs |-> {}]
    /\ did = {}
    /\ ans = [p \in Procs |-> None]
    /\ loose = {}

\* The keys become h; every call under way on a key sees what becomes of it.
Becomes(h) ==
    /\ has' = h
    /\ seen' = [p \in Procs |->
                  IF pend[p] = None THEN seen[p]
                  ELSE seen[p] \cup {Presence(Target(pend[p]), h)}]

Invoke(p) ==
    /\ pend[p] = None
    /\ \E c \in Calls :
         /\ Sensible(c)
         /\ pend' = [pend EXCEPT ![p] = c]
         /\ seen' = [seen EXCEPT ![p] = {Presence(Target(c), has)}]
    /\ UNCHANGED <<has, did, ans, loose>>

\* The step that changes a key may also be the one that answers the call.
MayAnswer(p) == UNCHANGED ans \/ ans' = [ans EXCEPT ![p] = "ok"]

\* A pending Add whose digest is right makes its key exist, once.
Appear(p) ==
    /\ pend[p] # None /\ ans[p] = None /\ p \notin did
    /\ pend[p].op = "add" /\ pend[p].wellformed
    /\ Target(pend[p]) = <<pend[p].s, pend[p].d>>
    /\ Exclusive => Target(pend[p]) \notin has
    /\ Becomes(has \cup {Target(pend[p])})
    /\ did' = did \cup {p}
    /\ MayAnswer(p)
    /\ UNCHANGED <<pend, loose>>

\* A pending Label that has seen its key writes it again.
Rewrite(p) ==
    /\ ~Exclusive
    /\ pend[p] # None /\ ans[p] = None
    /\ pend[p].op = "label" /\ pend[p].wellformed /\ "present" \in seen[p]
    /\ Becomes(has \cup {Target(pend[p])})
    /\ MayAnswer(p)
    /\ UNCHANGED <<pend, did, loose>>

\* A pending Erase ends its key.
Vanish(p) ==
    /\ pend[p] # None /\ ans[p] = None
    /\ pend[p].op = "erase" /\ pend[p].wellformed
    /\ Target(pend[p]) \in has
    /\ Becomes(has \ {Target(pend[p])})
    /\ MayAnswer(p)
    /\ UNCHANGED <<pend, did, loose>>

\* Is r a right answer to the call of p?  ErrNotExist says nothing about an Add but that
\* it has written nothing: an HttpStore gets it from any server that answers 404.
Justified(p, r) ==
    LET c == pend[p] IN
    IF ~c.wellformed THEN r = Refuse(c.op) ELSE
    CASE r = "ok" -> CASE c.op = "add" -> p \in did
                       [] c.op = "erase" -> "absent" \in seen[p]
                       [] OTHER -> "present" \in seen[p]
      [] r = "exists" -> c.op = "add" /\ "present" \in seen[p] /\ p \notin did
      [] r = "notexist" -> \/ c.op \in {"get", "open", "label"} /\ "absent" \in seen[p]
                           \/ c.op = "add" /\ p \notin did
      [] r = "mismatch" -> c.op = "add" /\ c.given \notin {None, c.d}
      [] OTHER -> Remote \/ p \notin did

Reply(p) ==
    /\ pend[p] # None /\ ans[p] = None
    /\ \E r \in Results :
         /\ Justified(p, r)
         /\ ans' = [ans EXCEPT ![p] = r]
         /\ \/ UNCHANGED loose
            \/ /\ Remote /\ r = "error" /\ pend[p].op \in {"add", "label", "erase"}
               /\ loose' = loose \cup {Target(pend[p])}
    /\ UNCHANGED <<has, pend, seen, did>>

\* A write of a call that has reported an error takes effect, or never will.
Drift(k) ==
    /\ k \in loose
    /\ Becomes(has) \/ Becomes(has \cup {k}) \/ Becomes(has \ {k})
    /\ loose' \in {loose, loose \ {k}}
    /\ UNCHANGED <<pend, did, ans>>

\* The caller takes its answer, or its process dies without one.
Leave(p) ==
    /\ pend[p] # None
    /\ pend' = [pend EXCEPT ![p] = None]
    /\ seen' = [seen EXCEPT ![p] = {}]
    /\ did' = did \ {p}
    /\ ans' = [ans EXCEPT ![p] = None]
    /\ UNCHANGED <<has, loose>>

Next ==
    \/ \E p \in Procs :
         \/ Invoke(p) \/ Appear(p) \/ Rewrite(p) \/ Vanish(p) \/ Reply(p) \/ Leave(p)
    \/ \E k \in loose : Drift(k)

Spec == Init /\ [][Next]_vars
=============================================================================
