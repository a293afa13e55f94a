-------------------------------- MODULE Store --------------------------------
(***************************************************************************)
(* The vocabulary of the Store interface (store.go, error.go, digest.go):  *)
(* the calls a client can make and the outcomes they can have.             *)
(***************************************************************************)
EXTENDS Integers

CONSTANTS
    Stores,      \* ids given to Use(id)
    Digests,     \* digests of the contents that clients add
    Procs,       \* concurrent callers
    None,        \* nothing: no digest, no call, no outcome yet
    Ops          \* the operations the clients call

ASSUME OpsAssumption == Ops \subseteq {"add", "get", "open", "label", "erase"}

\* What a blob is stored under: Use(s) and a digest.
Keys == Stores \X Digests

(***************************************************************************)
(* An Add brings content of digest d; `given' is the digest the caller     *)
(* claims for it in Meta.Digest, None when it claims none.  `wellformed'   *)
(* says whether the digest the caller passes survives Digest.Sanitize.     *)
(***************************************************************************)
Calls == [op : Ops, s : Stores, d : Digests,
          given : Digests \cup {None}, wellformed : BOOLEAN]

\* Calls as a client can make them: only Add may leave the digest out.
Sensible(c) ==
    /\ c.op # "add" => c.given = c.d
    /\ c.given = None => c.wellformed

\* The key that the digest the caller named, or else the content, stands for.
Target(c) == <<c.s, IF c.given = None THEN c.d ELSE c.given>>

\* A nil error, ErrAlreadyExists, ErrNotExist, ErrDigestMismatch, any other.
Results == {"ok", "exists", "notexist", "mismatch", "error"}

ASSUME NothingAssumption == None \notin Calls \cup Results

\* What each operation answers to a digest that Sanitize refuses.
Refusal(op) ==
    CASE op = "add"   -> "error"
      [] op = "erase" -> "ok"
      [] OTHER        -> "notexist"
=============================================================================
