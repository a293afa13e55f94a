---------------------------- MODULE HttpStatus ----------------------------
(***************************************************************************)
(* The status codes of http.go: what HttpHandler makes of an outcome, and  *)
(* what HttpStore makes of a code.                                         *)
(***************************************************************************)
EXTENDS Store, TLAPS

\* Mutant: Add does not tell that the blob was there.
StatusCreated(op, r) ==
    CASE r \in {"ok", "exists"} -> IF op = "add" THEN 201
                                   ELSE IF op \in {"get", "open"} THEN 200 ELSE 204
      [] r = "mismatch" -> 422
      [] r = "notexist" -> 404
      [] OTHER -> 500

\* ServeHTTP: the code for outcome r of operation op.
Status(op, r) ==
    CASE r = "ok" -> CASE op = "add" -> 201
                       [] op \in {"get", "open"} -> 200
                       [] OTHER -> 204
      [] r = "exists" /\ op = "add" -> 200
      [] r = "mismatch" /\ op = "add" -> 422
      [] r = "notexist" /\ op # "erase" -> 404
      [] OTHER -> 500

\* HttpStore.Add: the outcome that a code stands for.
addErr(code) ==
    CASE code = 200 -> "exists"
      [] code = 201 -> "ok"
      [] code = 422 -> "mismatch"
      [] code = 404 -> "notexist"
      [] OTHER -> "error"

\* HttpStore.parseErr, for the other methods.
parseErr(code) ==
    CASE code \in {200, 201, 204, 206} -> "ok"
      [] code = 404 -> "notexist"
      [] code = 422 -> "mismatch"
      [] OTHER -> "error"

Outcome(op, code) == IF op = "add" THEN addErr(code) ELSE parseErr(code)

\* The outcomes that the contract of store.go lets an operation have.
Possible(op) ==
    {r \in Results : /\ r = "notexist" => op # "erase"
                     /\ r \in {"exists", "mismatch"} => op = "add"}

-----------------------------------------------------------------------------
\* No outcome is lost between HttpHandler and HttpStore: whatever the store behind
\* the handler may answer comes back from its code, although Add and the reads give
\* 200 different meanings.
LEMMA CodesAreFaithful ==
    \A op \in Ops : \A r \in Possible(op) : Outcome(op, Status(op, r)) = r
<1>1. SUFFICES ASSUME NEW op \in Ops, NEW r \in Possible(op)
      PROVE  Outcome(op, Status(op, r)) = r
    OBVIOUS
<1>2. op \in {"add", "get", "open", "label", "erase"}
    BY OpsAssumption
<1>3. CASE op = "add"
  <2>1. r \in {"ok", "exists", "notexist", "mismatch", "error"}
    BY <1>3 DEF Possible, Results
  <2>2. /\ Status("add", "ok") = 201
        /\ Status("add", "exists") = 200
        /\ Status("add", "mismatch") = 422
        /\ Status("add", "notexist") = 404
        /\ Status("add", "error") = 500
    BY DEF Status
  <2>3. /\ Outcome("add", 201) = "ok"
        /\ Outcome("add", 200) = "exists"
        /\ Outcome("add", 422) = "mismatch"
        /\ Outcome("add", 404) = "notexist"
        /\ Outcome("add", 500) = "error"
    BY DEF Outcome, addErr, parseErr
  <2>. QED  BY <1>3, <2>1, <2>2, <2>3
<1>4. CASE op \in {"get", "open", "label"}
  <2>1. r \in {"ok", "notexist", "error"}
    BY <1>4 DEF Possible, Results
  <2>2. /\ Status(op, "ok") \in {200, 204}
        /\ Status(op, "notexist") = 404
        /\ Status(op, "error") = 500
    BY <1>4 DEF Status
  <2>3. /\ Outcome(op, 200) = "ok"
        /\ Outcome(op, 204) = "ok"
        /\ Outcome(op, 404) = "notexist"
        /\ Outcome(op, 500) = "error"
    BY <1>4 DEF Outcome, addErr, parseErr
  <2>. QED  BY <2>1, <2>2, <2>3
<1>5. CASE op = "erase"
  <2>1. r \in {"ok", "error"}
    BY <1>5 DEF Possible, Results
  <2>2. Status("erase", "ok") = 204 /\ Status("erase", "error") = 500
    BY DEF Status
  <2>3. Outcome("erase", 204) = "ok" /\ Outcome("erase", 500) = "error"
    BY DEF Outcome, addErr, parseErr
  <2>. QED  BY <1>5, <2>1, <2>2, <2>3
<1>. QED  BY <1>2, <1>3, <1>4, <1>5
=============================================================================
