------------------------------ MODULE Commands ------------------------------
(***************************************************************************)
(* A process that uses a store: the command `flob add' (cmd/flob/cmd),     *)
(* with a goroutine for each file, or clients that call through the layers *)
(* of Decorators, the other commands among them.  An outcome leaves a      *)
(* command as the exit code of its process.                                *)
(***************************************************************************)
EXTENDS Decorators, FiniteSets, Sequences

CONSTANTS
    Clients,      \* the callers that are no goroutines of `flob add'
    Empty,        \* the digest of no content
    MaxFiles,     \* bound on the number of FILE arguments
    MaxParallel   \* bound on --parallel

ASSUME CommandsAssumption ==
    /\ MaxFiles \in Nat /\ Procs = 1..MaxFiles /\ Clients \subseteq Procs
    /\ MaxParallel \in Nat
    /\ Empty \in Contents /\ "add" \in Ops

ASSUME ExitCodesAssumption == None \notin {0, 1, 3, 4}

VARIABLES
    files,      \* the FILE arguments, each a "path" or "-"; none: no `flob add'
    parallel,   \* the flag --parallel
    next,       \* the file whose goroutine the loop of addAll starts next
    drained,    \* has standard input been read to its end?
    exit        \* the exit code of `flob add', None while it runs

command == <<files, parallel, next, drained, exit>>
vars    == <<client, inflight, secondary, store, command>>

\* Without a FILE the command fails at once.  A fallback adds to its primary alone.
Init ==
    /\ InitStores
    /\ files \in UNION {[1..n -> {"path", "-"}] : n \in 0..MaxFiles}
    /\ parallel \in IF files = <<>> THEN {0} ELSE 0..MaxParallel
    /\ next = 1
    /\ drained = FALSE
    /\ exit = IF files = <<>> THEN 1 ELSE None
    /\ files # <<>> => secondary = "none"

\* The goroutines of addAll, and the ones that hold a place in its semaphore.
Workers == 1..Len(files)
Running == {i \in 1..(next - 1) : pc[i] # "done"}

Stdin == {i \in Workers : files[i] = "-"}

\* Mutant: the flag is taken as it is.
CapacityAsGiven == parallel

\* Mutant: standard input does not make the command sequential.
CapacityForFiles == IF parallel < 1 THEN 1 ELSE parallel

\* The capacity of the semaphore: at least 1, and 1 with standard input.
Capacity == IF parallel < 1 \/ Stdin # {} THEN 1 ELSE parallel

\* The loop takes a place in the semaphore and starts the next goroutine.
Start ==
    /\ next <= Len(files) /\ Cardinality(Running) < Capacity
    /\ next' = next + 1
    /\ UNCHANGED <<client, inflight, secondary, store, files, parallel, drained, exit>>

\* The goroutine opens its file, or not, and calls Add with what can be read from
\* it: standard input has nothing more to give once it was read to its end.
Resolve(i) ==
    /\ i \in Running /\ pc[i] = "idle"
    /\ \/ /\ files[i] = "path"
          /\ Answer(i, "error") /\ UNCHANGED <<call, layer>>
       \/ /\ \E d \in Contents :
               /\ i \in Stdin /\ drained => d = Empty
               /\ call' = [call EXCEPT ![i] = [op |-> "add", s |-> StoreId, d |-> d,
                                               given |-> None, wellformed |-> TRUE]]
          /\ layer' = [layer EXCEPT ![i] = "plain"]
          /\ Goto(i, "call") /\ UNCHANGED ret
    /\ UNCHANGED <<inflight, secondary, store, command>>

\* The goroutine goes on until it has its result.  An Add that succeeds, or finds
\* the blob of the digest it has computed, has read everything.
Work(i) ==
    /\ i \in Workers /\ Proceed(i)
    /\ drained' = (drained \/ (i \in Stdin /\ ret'[i] \in {"ok", "exists"}))
    /\ UNCHANGED <<files, parallel, next, exit>>

\* The results of addAll, and the digests that are printed.
Failed  == {i \in Workers : ret[i] \notin {"ok", "exists", None}}
Existed == {i \in Workers : ret[i] = "exists"}
Printed == {i \in Workers : ret[i] \in {"ok", "exists"}}

\* An error is the set of the outcomes it wraps, as errors.Is tells them apart.
ExitCode(err) ==
    CASE err = {} -> 0
      [] "exists" \in err -> 3
      [] err # {} /\ "exists" \notin err /\ "notexist" \in err -> 4
      [] OTHER -> 1

\* One error for all files: all failures joined, ErrAlreadyExists for all, or none.
addOutcome ==
    CASE Failed # {} -> {ret[i] : i \in Failed}
      [] Failed = {} /\ Workers # {} /\ Existed = Workers -> {"exists"}
      [] OTHER -> {}

\* Mutant: the results are read without wg.Wait().
FinishEarly ==
    /\ exit = None /\ next > Len(files)
    /\ exit' = ExitCode(addOutcome)
    /\ UNCHANGED <<client, inflight, secondary, store, files, parallel, next, drained>>

\* All goroutines are done.
Finish ==
    /\ exit = None /\ next > Len(files) /\ Running = {}
    /\ exit' = ExitCode(addOutcome)
    /\ UNCHANGED <<client, inflight, secondary, store, files, parallel, next, drained>>

\* A client's call, when the process is not `flob add' with files.
Use(p) ==
    /\ files = <<>> /\ p \in Clients
    /\ Call(p) \/ Proceed(p) \/ Return(p)
    /\ UNCHANGED command

-----------------------------------------------------------------------------
Next ==
    \/ Start \/ Finish
    \/ \E p \in Procs : Resolve(p) \/ Work(p) \/ Use(p)
    \/ \E p \in Procs : (BackendReply(p) \/ BackendEffect(p)) /\ UNCHANGED command
    \/ Others /\ UNCHANGED command

(***************************************************************************)
(* The scheduler runs what can run, and a call of a backend returns, as    *)
(* OsStoresLive and MemStoresLive show of two of them.                     *)
(***************************************************************************)
Fairness ==
    /\ WF_vars(Start) /\ WF_vars(Finish)
    /\ \A p \in Procs :
         /\ WF_vars(Resolve(p)) /\ WF_vars(Work(p))
         /\ WF_vars(files = <<>> /\ p \in Clients /\ (Proceed(p) \/ Return(p)) /\ UNCHANGED command)
         /\ WF_vars(BackendReply(p) /\ UNCHANGED command)

Spec == Init /\ [][Next]_vars /\ Fairness
=============================================================================
