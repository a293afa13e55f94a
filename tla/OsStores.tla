------------------------------ MODULE OsStores ------------------------------
(***************************************************************************)
(* The filesystem store of flob (os.go, nlink_linux.go, nlink.go).         *)
(*                                                                         *)
(* Every store root holds                                                  *)
(*    share/<digest>              one name per content, shared by stores   *)
(*    repos/<store>/<digest>/     a directory with `blob' (a hard link to  *)
(*                                the shared inode) and `labels'           *)
(*    stage/                      directories being filled by an Add       *)
(*    locks/<digest>              a flock, held by Add and by the cleanup  *)
(*                                that ends an Erase                       *)
(* and calls of any number of processes run against it at the same time.   *)
(* One action is one system call that another process can observe; what a  *)
(* call does to files only it knows (its temp file, its own staged labels) *)
(* is part of the observable step next to it.                              *)
(***************************************************************************)
EXTENDS Store, FiniteSets

CONSTANTS
    Inodes,      \* inodes of blob files
    Dirs,        \* inodes of staged directories and digest directories
    Faults,      \* the faults that can hit a call
    MaxFaults,   \* bound on the number of faults in a behaviour
    CountLinks   \* TRUE on Linux, where nlink() reads the link count

ASSUME NoneAssumption == None \notin Digests \cup Procs \cup Inodes \cup Dirs
ASSUME FiniteAssumption == IsFiniteSet(Digests) /\ IsFiniteSet(Dirs)
ASSUME FaultsAssumption ==
    /\ Faults \subseteq {"crash", "cancel", "io"}
    /\ MaxFaults \in Nat
ASSUME CountLinksAssumption == CountLinks \in BOOLEAN

VARIABLES
    share,     \* share[d]: the inode named share/<d>, or None
    content,   \* content[i]: the digest of what inode i holds, None while partial
    dblob,     \* dblob[x]: the inode linked as `blob' in directory x, or None
    labelled,  \* the directories that hold a `labels' file
    repo,      \* repo[<<s, d>>]: the directory repos/<s>/<d>, or None
    orphans,   \* staged directories whose Add crashed
    lock,      \* lock[d]: the process holding locks/<d>, or None
    pc,        \* pc[p]: where the call of p is
    call,      \* call[p]: the arguments of the call of p
    ps,        \* ps[p]: the directory p has staged, or None
    fd,        \* fd[p]: the directory the RemoveAll of p has open, or None
    names,     \* names[p]: the names that RemoveAll has read and not yet unlinked
    attempt,   \* attempt[p]: renames tried by moveStageToRepo
    file,      \* file[p]: the inode that Open of p returns, or None
    ret,       \* ret[p]: the outcome of the call of p, None while it is open
    faults,    \* faults so far
    failed     \* digests some call on which failed or was cut short (history)

disk   == <<share, content, dblob, labelled, repo, orphans>>
locals == <<call, ps, fd, names, attempt, file>>
vars   == <<disk, lock, pc, locals, ret, faults, failed>>

-----------------------------------------------------------------------------
(***************************************************************************)
(* Paths, links and free inodes.                                           *)
(***************************************************************************)
D(p) == call[p].d
K(p) == <<call[p].s, call[p].d>>

\* The criterion of checkDup, open and Label: <pathToRepo(d)>/blob can be stat'ed.
Visible(k) == repo[k] # None /\ dblob[repo[k]] # None

\* Mutant: the check for an existing blob is forgotten.
checkDupNever(k) == FALSE

\* checkDup(pb), once the other errors of stat are left out.
checkDup(k) == Visible(k)

\* Mutant: the count that nlink.go gives is used on Linux too.
nlinkOne(d) == 1

\* nlink(pathToBlob(d)): the links of the shared inode; always 1 off Linux.
nlink(d) ==
    IF CountLinks
      THEN Cardinality({e \in Digests : share[e] = share[d]})
             + Cardinality({x \in Dirs : dblob[x] = share[d]})
      ELSE 1

FreeDirs ==
    {x \in Dirs : /\ x \notin orphans
                  /\ \A k \in Keys : repo[k] # x
                  /\ \A p \in Procs : ps[p] # x /\ fd[p] # x}

FreeInodes ==
    {i \in Inodes : /\ \A d \in Digests : share[d] # i
                    /\ \A x \in Dirs : dblob[x] # i
                    /\ \A p \in Procs : file[p] # i}

\* Where a call can be, each named for the step it takes next.
PCs == {"idle", "refuse", "given", "read", "lock", "dup", "share", "link", "copy",
        "publish", "rename", "stat", "cleanup", "rmtry", "rmopen", "rm",
        "rmdir", "nlink1", "elock", "nlink2", "remove", "lstat", "relabel",
        "ostat", "olabels", "oblob", "unlock", "done"}

FirstStep(op) ==
    CASE op = "add"   -> "given"
      [] op = "erase" -> "rmtry"
      [] op = "label" -> "lstat"
      [] OTHER        -> "ostat"

Goto(p, l) == pc' = [pc EXCEPT ![p] = l]

\* p's call has outcome r; it goes on at l to release what it holds.
Answer(p, r, l) ==
    /\ ret' = [ret EXCEPT ![p] = r]
    /\ Goto(p, l)
    /\ failed' = IF r = "error" THEN failed \cup {D(p)} ELSE failed

\* p's call goes on at l, its outcome still open.
Continue(p, l) == Goto(p, l) /\ UNCHANGED <<ret, failed>>

Init ==
    /\ share = [d \in Digests |-> None]
    /\ content = [i \in Inodes |-> None]
    /\ dblob = [x \in Dirs |-> None]
    /\ labelled = {}
    /\ repo = [k \in Keys |-> None]
    /\ orphans = {}
    /\ lock = [d \in Digests |-> None]
    /\ pc = [p \in Procs |-> "idle"]
    /\ call = [p \in Procs |-> None]
    /\ ps = [p \in Procs |-> None]
    /\ fd = [p \in Procs |-> None]
    /\ names = [p \in Procs |-> {}]
    /\ attempt = [p \in Procs |-> 0]
    /\ file = [p \in Procs |-> None]
    /\ ret = [p \in Procs |-> None]
    /\ faults = 0
    /\ failed = {}

\* A client calls an operation.
Invoke(p) ==
    /\ pc[p] = "idle"
    /\ \E c \in Calls :
         /\ Sensible(c)
         /\ call' = [call EXCEPT ![p] = c]
         /\ Goto(p, IF c.wellformed THEN FirstStep(c.op) ELSE "refuse")
    /\ UNCHANGED <<disk, lock, ps, fd, names, attempt, file, ret, faults, failed>>

\* Digest.Sanitize refuses the digest: the call ends before it touches anything.
Refuse(p) ==
    /\ pc[p] = "refuse"
    /\ ret' = [ret EXCEPT ![p] = Refusal(call[p].op)]
    /\ Goto(p, "done")
    /\ UNCHANGED <<disk, lock, locals, faults, failed>>

\* The caller takes the outcome; a file that Open returned is closed.
Return(p) ==
    /\ pc[p] = "done"
    /\ Goto(p, "idle")
    /\ call' = [call EXCEPT ![p] = None]
    /\ attempt' = [attempt EXCEPT ![p] = 0]
    /\ file' = [file EXCEPT ![p] = None]
    /\ ret' = [ret EXCEPT ![p] = None]
    /\ UNCHANGED <<disk, lock, ps, fd, names, faults, failed>>

-----------------------------------------------------------------------------
(***************************************************************************)
(* Add.                                                                    *)
(***************************************************************************)

\* With a digest given: is there a blob under it already?
AddGiven(p) ==
    /\ pc[p] = "given"
    /\ IF call[p].given # None /\ checkDup(<<call[p].s, call[p].given>>)
         THEN Answer(p, "exists", "done")
         ELSE Continue(p, "read")
    /\ UNCHANGED <<disk, lock, locals, faults>>

\* The content is in the temp file and its digest is known.
AddRead(p) ==
    /\ pc[p] = "read"
    /\ CASE call[p].given = None /\ checkDup(K(p)) -> Answer(p, "exists", "done")
         [] call[p].given \notin {None, D(p)} -> Answer(p, "mismatch", "done")
         [] OTHER -> Continue(p, "lock")
    /\ UNCHANGED <<disk, lock, locals, faults>>

\* lockBlob: a poll of the flock that finds it free.
AddLock(p) ==
    /\ pc[p] = "lock"
    /\ lock[D(p)] = None
    /\ lock' = [lock EXCEPT ![D(p)] = p]
    /\ Continue(p, "dup")
    /\ UNCHANGED <<disk, locals, faults>>

\* The check is repeated under the lock; then a directory is staged with its labels.
AddDup(p) ==
    /\ pc[p] = "dup"
    /\ IF checkDup(K(p))
         THEN Answer(p, "exists", "unlock") /\ UNCHANGED <<ps, labelled>>
         ELSE \E x \in FreeDirs :
                /\ ps' = [ps EXCEPT ![p] = x]
                /\ labelled' = labelled \cup {x}
                /\ Continue(p, "share")
    /\ UNCHANGED <<share, content, dblob, repo, orphans, lock,
                   call, fd, names, attempt, file, faults>>

\* os.Stat(pd): link what is shared, or create a blob file to fill.
AddShare(p) ==
    /\ pc[p] = "share"
    /\ IF share[D(p)] # None
         THEN Continue(p, "link") /\ UNCHANGED <<content, dblob>>
         ELSE \E i \in FreeInodes :
                /\ content' = [content EXCEPT ![i] = None]
                /\ dblob' = [dblob EXCEPT ![ps[p]] = i]
                /\ Continue(p, "copy")
    /\ UNCHANGED <<share, labelled, repo, orphans, lock, locals, faults>>

\* os.Link(pd, ps/blob).
AddLink(p) ==
    /\ pc[p] = "link"
    /\ IF share[D(p)] # None
         THEN dblob' = [dblob EXCEPT ![ps[p]] = share[D(p)]] /\ Continue(p, "rename")
         ELSE Answer(p, "error", "cleanup") /\ UNCHANGED dblob
    /\ UNCHANGED <<share, content, labelled, repo, orphans, lock, locals, faults>>

\* Mutant: the blob is linked before it has been filled.
AddCopyShort(p) ==
    /\ pc[p] = "copy"
    /\ Continue(p, "publish")
    /\ UNCHANGED <<disk, lock, locals, faults>>

\* io.Copy(bf, tf): the staged blob becomes whole.
AddCopy(p) ==
    /\ pc[p] = "copy"
    /\ content' = [content EXCEPT ![dblob[ps[p]]] = D(p)]
    /\ Continue(p, "publish")
    /\ UNCHANGED <<share, dblob, labelled, repo, orphans, lock, locals, faults>>

\* os.Link(ps/blob, pd).
AddPublish(p) ==
    /\ pc[p] = "publish"
    /\ IF share[D(p)] = None
         THEN share' = [share EXCEPT ![D(p)] = dblob[ps[p]]] /\ Continue(p, "rename")
         ELSE Answer(p, "error", "cleanup") /\ UNCHANGED share
    /\ UNCHANGED <<content, dblob, labelled, repo, orphans, lock, locals, faults>>

(***************************************************************************)
(* moveStageToRepo.  os.Rename refuses a target that is a directory, empty *)
(* or not.                                                                 *)
(***************************************************************************)
attempts == 5

AddRename(p) ==
    /\ pc[p] = "rename"
    /\ attempt' = [attempt EXCEPT ![p] = @ + 1]
    /\ IF repo[K(p)] = None
         THEN /\ repo' = [repo EXCEPT ![K(p)] = ps[p]]
              /\ ps' = [ps EXCEPT ![p] = None]
              /\ Answer(p, "ok", "unlock")
         ELSE Continue(p, "stat") /\ UNCHANGED <<repo, ps>>
    /\ UNCHANGED <<share, content, dblob, labelled, orphans, lock,
                   call, fd, names, file, faults>>

\* Mutant: a retry that leaves the leftover directory where it is.
AddStatKeeps(p) ==
    /\ pc[p] = "stat"
    /\ IF repo[K(p)] = None THEN Answer(p, "error", "cleanup") ELSE Continue(p, "rename")
    /\ UNCHANGED <<disk, lock, locals, faults>>

\* Mutant: a leftover directory ends the Add, as before the retries.
AddStatGivesUp(p) ==
    /\ pc[p] = "stat"
    /\ Answer(p, "error", "cleanup")
    /\ UNCHANGED <<disk, lock, locals, faults>>

\* os.Stat(pr) after a failed rename: only a leftover directory is worth a retry.
AddStat(p) ==
    /\ pc[p] = "stat"
    /\ IF repo[K(p)] = None
         THEN Answer(p, "error", "cleanup")
         ELSE Continue(p, "rmtry")
    /\ UNCHANGED <<disk, lock, locals, faults>>

\* Mutant: an Add that fails leaves its staged directory behind.
AddCleanupNot(p) ==
    /\ pc[p] = "cleanup"
    /\ ps' = [ps EXCEPT ![p] = None]
    /\ Continue(p, "unlock")
    /\ UNCHANGED <<disk, lock, call, fd, names, attempt, file, faults>>

\* The deferred os.RemoveAll(ps) of an Add that did not publish its directory.
AddCleanup(p) ==
    /\ pc[p] = "cleanup"
    /\ dblob' = [dblob EXCEPT ![ps[p]] = None]
    /\ labelled' = labelled \ {ps[p]}
    /\ ps' = [ps EXCEPT ![p] = None]
    /\ Continue(p, "unlock")
    /\ UNCHANGED <<share, content, repo, orphans, lock,
                   call, fd, names, attempt, file, faults>>

\* Mutant: an early return misses the unlock.
UnlockOnSuccess(p) ==
    /\ pc[p] = "unlock"
    /\ lock' = IF ret[p] = "ok" THEN [lock EXCEPT ![D(p)] = None] ELSE lock
    /\ Continue(p, "done")
    /\ UNCHANGED <<disk, locals, faults>>

\* The deferred unlock of Add and of tryCleanup.
Unlock(p) ==
    /\ pc[p] = "unlock"
    /\ lock' = [lock EXCEPT ![D(p)] = None]
    /\ Continue(p, "done")
    /\ UNCHANGED <<disk, locals, faults>>

-----------------------------------------------------------------------------
(***************************************************************************)
(* os.RemoveAll(pr), called by Erase without the lock and by               *)
(* moveStageToRepo.  It tries rmdir on the path; when the directory is not *)
(* empty it opens it, reads its names, unlinks each through the open       *)
(* directory, and finally calls rmdir on the path again.                   *)
(***************************************************************************)
Contents(x) ==
    (IF dblob[x] # None THEN {"blob"} ELSE {})
      \cup (IF x \in labelled THEN {"labels"} ELSE {})

\* RemoveAll returns nil: Erase goes on to tryCleanup, Add to its next attempt.
RemoveAllOk(p) ==
    CASE call[p].op = "erase" -> Answer(p, "ok", "nlink1")
      [] call[p].op = "add" /\ attempt[p] < attempts -> Continue(p, "rename")
      [] OTHER -> Answer(p, "error", "cleanup")

\* RemoveAll returns an error, which both callers hand to the client.
RemoveAllError(p) ==
    Answer(p, "error", IF call[p].op = "erase" THEN "done" ELSE "cleanup")

\* The rmdir RemoveAll starts with.
RmTry(p) ==
    /\ pc[p] = "rmtry"
    /\ IF repo[K(p)] = None \/ Contents(repo[K(p)]) = {}
         THEN repo' = [repo EXCEPT ![K(p)] = None] /\ RemoveAllOk(p)
         ELSE UNCHANGED repo /\ Continue(p, "rmopen")
    /\ UNCHANGED <<share, content, dblob, labelled, orphans, lock, locals, faults>>

\* Open the directory and read its names.
RmOpen(p) ==
    /\ pc[p] = "rmopen"
    /\ IF repo[K(p)] = None
         THEN RemoveAllOk(p) /\ UNCHANGED <<fd, names>>
         ELSE /\ fd' = [fd EXCEPT ![p] = repo[K(p)]]
              /\ names' = [names EXCEPT ![p] = Contents(repo[K(p)])]
              /\ Continue(p, "rm")
    /\ UNCHANGED <<disk, lock, call, ps, attempt, file, faults>>

\* Unlink one of the names, in whatever order the directory listed them.
RmUnlink(p) ==
    /\ pc[p] = "rm"
    /\ \E n \in names[p] :
         /\ names' = [names EXCEPT ![p] = @ \ {n}]
         /\ dblob' = IF n = "blob" THEN [dblob EXCEPT ![fd[p]] = None] ELSE dblob
         /\ labelled' = IF n = "labels" THEN labelled \ {fd[p]} ELSE labelled
    /\ UNCHANGED <<share, content, repo, orphans, lock, pc,
                   call, ps, fd, attempt, file, ret, faults, failed>>

\* Every name is gone: close the directory.
RmClose(p) ==
    /\ pc[p] = "rm"
    /\ names[p] = {}
    /\ fd' = [fd EXCEPT ![p] = None]
    /\ Continue(p, "rmdir")
    /\ UNCHANGED <<disk, lock, call, ps, names, attempt, file, faults>>

\* The final rmdir of the path, which fails on a directory that is not empty.
RmDir(p) ==
    /\ pc[p] = "rmdir"
    /\ IF repo[K(p)] = None \/ Contents(repo[K(p)]) = {}
         THEN repo' = [repo EXCEPT ![K(p)] = None] /\ RemoveAllOk(p)
         ELSE UNCHANGED repo /\ RemoveAllError(p)
    /\ UNCHANGED <<share, content, dblob, labelled, orphans, lock, locals, faults>>

-----------------------------------------------------------------------------
(***************************************************************************)
(* Erase: RemoveAll(pr), then tryCleanup, whose errors are ignored.        *)
(***************************************************************************)

\* Mutant: the shared name itself is counted as another link.
ReferencedAlways(d) == (CountLinks /\ share[d] = None) \/ nlink(d) >= 1

\* Another link to the shared blob, or (where nlink looks at the file at all) no
\* shared blob: nothing to clean up.
Referenced(d) == (CountLinks /\ share[d] = None) \/ nlink(d) > 1

\* Mutant: the cleanup goes on without the lock.
EraseCheckUnlocked(p) ==
    /\ pc[p] = "nlink1"
    /\ Continue(p, IF Referenced(D(p)) THEN "done" ELSE "nlink2")
    /\ UNCHANGED <<disk, lock, locals, faults>>

\* Mutant: the error of tryCleanup is returned.
EraseCheckStrict(p) ==
    /\ pc[p] = "nlink1"
    /\ IF share[D(p)] = None THEN Answer(p, "error", "done") ELSE Continue(p, "elock")
    /\ UNCHANGED <<disk, lock, locals, faults>>

EraseCheck(p) ==
    /\ pc[p] = "nlink1"
    /\ Continue(p, IF Referenced(D(p)) THEN "done" ELSE "elock")
    /\ UNCHANGED <<disk, lock, locals, faults>>

EraseLock(p) ==
    /\ pc[p] = "elock"
    /\ lock[D(p)] = None
    /\ lock' = [lock EXCEPT ![D(p)] = p]
    /\ Continue(p, "nlink2")
    /\ UNCHANGED <<disk, locals, faults>>

EraseRecheck(p) ==
    /\ pc[p] = "nlink2"
    /\ Continue(p, IF Referenced(D(p)) THEN "unlock" ELSE "remove")
    /\ UNCHANGED <<disk, lock, locals, faults>>

EraseRemove(p) ==
    /\ pc[p] = "remove"
    /\ share' = [share EXCEPT ![D(p)] = None]
    /\ Continue(p, "unlock")
    /\ UNCHANGED <<content, dblob, labelled, repo, orphans, lock, locals, faults>>

-----------------------------------------------------------------------------
(***************************************************************************)
(* Label: stat the blob, write a temp file, rename it onto pr/labels.      *)
(***************************************************************************)
LabelStat(p) ==
    /\ pc[p] = "lstat"
    /\ IF Visible(K(p)) THEN Continue(p, "relabel") ELSE Answer(p, "notexist", "done")
    /\ UNCHANGED <<disk, lock, locals, faults>>

LabelRename(p) ==
    /\ pc[p] = "relabel"
    /\ IF repo[K(p)] # None
         THEN labelled' = labelled \cup {repo[K(p)]} /\ Answer(p, "ok", "done")
         ELSE UNCHANGED labelled /\ Answer(p, "notexist", "done")
    /\ UNCHANGED <<share, content, dblob, repo, orphans, lock, locals, faults>>

(***************************************************************************)
(* Get and Open: stat the blob, read the labels, and for Open open it.     *)
(* open() leaves the error of a missing labels file in its named result,   *)
(* so the caller sees that error.                                          *)
(***************************************************************************)
OpenStat(p) ==
    /\ pc[p] = "ostat"
    /\ IF Visible(K(p)) THEN Continue(p, "olabels") ELSE Answer(p, "notexist", "done")
    /\ UNCHANGED <<disk, lock, locals, faults>>

OpenLabels(p) ==
    /\ pc[p] = "olabels"
    /\ CASE repo[K(p)] \notin labelled -> Answer(p, "error", "done")
         [] repo[K(p)] \in labelled /\ call[p].op = "get" -> Answer(p, "ok", "done")
         [] OTHER -> Continue(p, "oblob")
    /\ UNCHANGED <<disk, lock, locals, faults>>

OpenBlob(p) ==
    /\ pc[p] = "oblob"
    /\ IF Visible(K(p))
         THEN file' = [file EXCEPT ![p] = dblob[repo[K(p)]]] /\ Answer(p, "ok", "done")
         ELSE UNCHANGED file /\ Answer(p, "notexist", "done")
    /\ UNCHANGED <<disk, lock, call, ps, fd, names, attempt, faults>>

-----------------------------------------------------------------------------
(***************************************************************************)
(* Faults.                                                                 *)
(***************************************************************************)
Fault(f) == f \in Faults /\ faults < MaxFaults /\ faults' = faults + 1

\* The context ends while lockBlob polls: Add reports it, tryCleanup swallows it.
Cancel(p) ==
    /\ pc[p] \in {"lock", "elock"}
    /\ Fault("cancel")
    /\ Goto(p, "done")
    /\ ret' = [ret EXCEPT ![p] = IF pc[p] = "lock" THEN "error" ELSE @]
    /\ failed' = failed \cup {D(p)}
    /\ UNCHANGED <<disk, lock, locals>>

\* Mutant: the error of io.Copy is dropped.
IoErrorDropped(p) ==
    /\ pc[p] = "copy" /\ Fault("io")
    /\ Continue(p, "publish")
    /\ UNCHANGED <<disk, lock, locals>>

\* The reader fails, or the disk refuses what Add or Label asks of it.
IoError(p) ==
    /\ \/ pc[p] \in {"read", "share", "link", "copy", "publish", "relabel"}
       \/ pc[p] = "rename" /\ attempt[p] = 0
    /\ Fault("io")
    /\ Answer(p, "error", IF pc[p] \in {"read", "relabel"} THEN "done" ELSE "cleanup")
    /\ UNCHANGED <<disk, lock, locals>>

\* The process dies: its flock and its open files go, its staged directory stays.
Crash(p) ==
    /\ pc[p] \notin {"idle", "done"}
    /\ Fault("crash")
    /\ Goto(p, "idle")
    /\ lock' = [d \in Digests |-> IF lock[d] = p THEN None ELSE lock[d]]
    /\ orphans' = IF ps[p] # None THEN orphans \cup {ps[p]} ELSE orphans
    /\ ps' = [ps EXCEPT ![p] = None]
    /\ fd' = [fd EXCEPT ![p] = None]
    /\ names' = [names EXCEPT ![p] = {}]
    /\ attempt' = [attempt EXCEPT ![p] = 0]
    /\ call' = [call EXCEPT ![p] = None]
    /\ ret' = [ret EXCEPT ![p] = None]
    /\ failed' = failed \cup {D(p)}
    /\ UNCHANGED <<share, content, dblob, labelled, repo, file>>

-----------------------------------------------------------------------------
AddStep(p) ==
    \/ AddGiven(p) \/ AddRead(p) \/ AddLock(p) \/ AddDup(p) \/ AddShare(p)
    \/ AddLink(p) \/ AddCopy(p) \/ AddPublish(p) \/ AddRename(p) \/ AddStat(p)
    \/ AddCleanup(p)

RemoveAllStep(p) == RmTry(p) \/ RmOpen(p) \/ RmUnlink(p) \/ RmClose(p) \/ RmDir(p)

EraseStep(p) == EraseCheck(p) \/ EraseLock(p) \/ EraseRecheck(p) \/ EraseRemove(p)

LabelStep(p) == LabelStat(p) \/ LabelRename(p)

OpenStep(p) == OpenStat(p) \/ OpenLabels(p) \/ OpenBlob(p)

\* What p does by itself once its call is under way.
Step(p) ==
    \/ AddStep(p) \/ RemoveAllStep(p) \/ EraseStep(p) \/ LabelStep(p)
    \/ OpenStep(p) \/ Unlock(p) \/ Refuse(p) \/ Return(p)

Next == \E p \in Procs : Invoke(p) \/ Step(p) \/ Cancel(p) \/ IoError(p) \/ Crash(p)

Spec == Init /\ [][Next]_vars

-----------------------------------------------------------------------------
(***************************************************************************)
(* Properties.                                                             *)
(***************************************************************************)

\* Every variable has its type; a process inside a call has arguments for it.
TypeOK ==
    /\ share \in [Digests -> Inodes \cup {None}]
    /\ content \in [Inodes -> Digests \cup {None}]
    /\ dblob \in [Dirs -> Inodes \cup {None}]
    /\ labelled \subseteq Dirs
    /\ repo \in [Keys -> Dirs \cup {None}]
    /\ orphans \subseteq Dirs
    /\ lock \in [Digests -> Procs \cup {None}]
    /\ pc \in [Procs -> PCs]
    /\ call \in [Procs -> Calls \cup {None}]
    /\ \A p \in Procs : pc[p] # "idle" => call[p] \in Calls
    /\ ps \in [Procs -> Dirs \cup {None}]
    /\ fd \in [Procs -> Dirs \cup {None}]
    /\ names \in [Procs -> SUBSET {"blob", "labels"}]
    /\ attempt \in [Procs -> 0..attempts]
    /\ file \in [Procs -> Inodes \cup {None}]
    /\ ret \in [Procs -> Results \cup {None}]
    /\ faults \in 0..MaxFaults
    /\ failed \subseteq Digests

\* What a digest names is the whole content of that digest: under share/, in
\* every entry that Get, Open and Label see, and in every file Open returned,
\* whatever was erased, re-added or cut short meanwhile.
RightContent ==
    /\ \A d \in Digests : share[d] # None => content[share[d]] = d
    /\ \A s \in Stores, d \in Digests :
         Visible(<<s, d>>) => content[dblob[repo[<<s, d>>]]] = d
    /\ \A p \in Procs : file[p] # None => content[file[p]] = D(p)

\* On Linux all entries of a digest are links to the one inode under share/:
\* tryCleanup never takes the shared name away from an entry, also not from
\* one that is being added while the last old entry is erased.
OneCopy ==
    CountLinks =>
      \A s \in Stores, d \in Digests :
        Visible(<<s, d>>) => dblob[repo[<<s, d>>]] = share[d]

\* The two os.Link calls of Add never meet a shared name that came or went
\* after Add's os.Stat(pd): the blob lock keeps it as it was.
LinkCannotFail ==
    \A p \in Procs : /\ pc[p] = "link" => share[D(p)] # None
                     /\ pc[p] \in {"copy", "publish"} => share[D(p)] = None

\* Once moveStageToRepo has removed a leftover directory its next os.Rename
\* succeeds: under the blob lock nobody puts a directory there again.
LeftoverIsReplaced ==
    \A p \in Procs : pc[p] = "rename" /\ attempt[p] > 0 => repo[K(p)] = None

\* The shared blob outlives its last entry only while an Erase is still
\* cleaning up, or after a call on that digest failed or was cut short.
Reclaimed ==
    \A d \in Digests :
      \/ share[d] = None
      \/ d \in failed
      \/ \E x \in Dirs : dblob[x] = share[d]
      \/ \E p \in Procs : /\ pc[p] # "idle"
                          /\ call[p].op = "erase"
                          /\ D(p) = d

\* A link to a blob is in a digest directory, where an Erase finds it, in the staged
\* directory of an Add under way, or in one whose Add crashed: an Add that fails takes
\* its staged link along, and no RemoveAll takes a directory off its path with a blob
\* in it.  A forgotten link would keep the shared blob from ever being reclaimed.
NoLitter ==
    \A x \in Dirs :
      dblob[x] # None => \/ x \in orphans
                         \/ \E k \in Keys : repo[k] = x
                         \/ \E p \in Procs : ps[p] = x

\* An entry keeps its blob from the Add that made it visible to an Erase of
\* that very entry: no other call, Add's own os.RemoveAll(pr) of a leftover
\* included, hides it or replaces what it links to.
EntryStays(k) ==
    Visible(k) =>
      \/ Visible(k)' /\ dblob'[repo'[k]] = dblob[repo[k]]
      \/ \E p \in Procs : pc[p] = "rm" /\ call[p].op = "erase" /\ K(p) = k

OnlyEraseHides == [][\A k \in Keys : EntryStays(k)]_vars

\* No Add with a usable digest answers with an error of its own making: README,
\* "a user's Add/Erase request always succeeds", and moveStageToRepo, "so the
\* Add always succeeds".
AddsSucceed ==
    \A p \in Procs :
      pc[p] = "done" /\ call[p].op = "add" /\ call[p].wellformed => ret[p] # "error"

\* No Erase answers with an error of its own making, as the README says.
ErasesSucceed ==
    \A p \in Procs : pc[p] = "done" /\ call[p].op = "erase" => ret[p] # "error"

\* A user's Add or Erase request always succeeds, as the README says.
RequestsSucceed == AddsSucceed /\ ErasesSucceed

\* Get and Open answer with the entry or with ErrNotExist, as store.go says.
ReadsAnswer ==
    \A p \in Procs :
      pc[p] = "done" /\ call[p].op \in {"get", "open"} => ret[p] # "error"

\* No state contradicts both: one that does, a single Erase that races a Label and a
\* Get, refutes the README and store.go alike.
RequestsAnswered == RequestsSucceed \/ ReadsAnswer
=============================================================================
