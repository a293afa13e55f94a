--------------------------- MODULE OsStoresProofs ---------------------------
(***************************************************************************)
(* Proofs of the safety properties of OsStores, for any number of stores,  *)
(* digests and callers and any number of faults.                           *)
(*                                                                         *)
(* Most steps of a call only look at the disk.  They are instances of      *)
(* QuietStep, which states once what such a step leaves alone; the steps   *)
(* that write the disk or take and release the lock have a lemma each.     *)
(***************************************************************************)
EXTENDS OsStoresInv, OsStoresContract, FiniteSetTheorems, TLAPS

-----------------------------------------------------------------------------
(***************************************************************************)
(* Facts about keys and about the lock.                                    *)
(***************************************************************************)

\* A caller inside a call has a digest and a key of the right type, and equal
\* keys have equal digests.
LEMMA CallFacts ==
  ASSUME TypeOK
  PROVE  /\ \A q \in Procs : pc[q] # "idle" => /\ call[q] \in Calls
                                              /\ D(q) \in Digests
                                              /\ K(q) \in Keys
         /\ \A q, r \in Procs : K(q) = K(r) => D(q) = D(r)
         /\ \A q \in Procs, s \in Stores, d \in Digests :
              <<s, d>> \in Keys /\ (<<s, d>> = K(q) => d = D(q))
BY DEF TypeOK, Calls, D, K, Keys

\* Two callers that hold a blob lock work on different digests.
LEMMA Exclusion ==
  ASSUME Inv, NEW p \in Procs, NEW q \in Procs, Holds(p), Holds(q), p # q
  PROVE  D(p) # D(q) /\ K(p) # K(q)
BY CallFacts DEF Inv, LockInv

\* A caller that has staged a directory is an Add, and its directory exists.
LEMMA StagedFacts ==
  ASSUME Inv, NEW p \in Procs, Staged(p)
  PROVE  /\ Holds(p) /\ pc[p] # "idle" /\ D(p) \in Digests /\ K(p) \in Keys
         /\ ps[p] \in Dirs
         /\ \A q \in Procs : ps[q] = ps[p] => q = p
BY CallFacts DEF Inv, TypeOK, StageInv, Staged, Holds, InRemoveAll

\* Different digests have different shared blobs.
LEMMA ShareInjective ==
  ASSUME Inv, NEW d \in Digests, NEW e \in Digests, share[d] = share[e], share[d] # None
  PROVE  d = e
BY DEF Inv, RightContent

-----------------------------------------------------------------------------
(***************************************************************************)
(* Steps that leave blobs, links and directories as they are.              *)
(***************************************************************************)
Others(p) ==
    \A q \in Procs \ {p} : /\ pc'[q] = pc[q] /\ call'[q] = call[q]
                           /\ attempt'[q] = attempt[q]
                           /\ fd'[q] = fd[q] /\ file'[q] = file[q]

\* p leaves the locks alone, takes the lock of its digest, or releases it.
LockStep(p) ==
    \/ UNCHANGED lock /\ (Holds(p)' => Holds(p))
    \/ /\ lock[D(p)] = None
       /\ lock' = [lock EXCEPT ![D(p)] = p]
       /\ D(p) \in Digests /\ call'[p] = call[p]
    \/ /\ Holds(p) /\ ~Holds(p)'
       /\ lock' = [lock EXCEPT ![D(p)] = None]

Quiet(p) ==
    /\ UNCHANGED <<share, content, dblob, repo, orphans, ps>>
    /\ LockStep(p)
    /\ Others(p)
    /\ failed \subseteq failed'
    /\ call'[p] = call[p] \/ (~Holds(p) /\ ~Holds(p)')
    /\ Staged(p)' <=> Staged(p)
    /\ Linked(p)' => Linked(p)
    /\ pc'[p] \notin {"share", "link", "copy", "publish"}
    /\ pc'[p] = "remove" /\ CountLinks =>
         share[D(p)] # None /\ \A x \in Dirs : dblob[x] # share[D(p)]
    /\ pc'[p] = "rename" => attempt'[p] = 0 \/ repo[K(p)] = None
    /\ pc'[p] = "cleanup" => D(p) \in failed'
    /\ fd'[p] # None =>
         /\ pc'[p] = "rm" /\ call'[p] = call[p]
         /\ K(p) \in Keys /\ fd'[p] = repo[K(p)]
    /\ file'[p] # None =>
         /\ pc'[p] = "done" /\ call'[p] = call[p]
         /\ K(p) \in Keys /\ Visible(K(p)) /\ file'[p] = dblob[repo[K(p)]]

\* A quiet step that keeps types and the reclaim invariant keeps everything.
LEMMA QuietStep ==
  ASSUME Inv, NEW p \in Procs, Quiet(p),
         TypeOK', OpInv', AttemptInv', ReclaimInv'
  PROVE  Inv'
<1>1. \A q \in Procs \ {p} : K(q)' = K(q) /\ D(q)' = D(q)
  BY DEF Quiet, Others, K, D
<1>2. call'[p] = call[p] => K(p)' = K(p) /\ D(p)' = D(p)
  BY DEF K, D
<1>3. \A q \in Procs \ {p} : /\ Staged(q)' <=> Staged(q)
                             /\ Holds(q)' <=> Holds(q)
                             /\ Linked(q)' <=> Linked(q)
  BY DEF Quiet, Others, Staged, Holds, Linked
<1>4. \A q \in Procs : Staged(q) => Holds(q)
  BY DEF Holds
<1>5. \A q \in Procs : Linked(q) => Staged(q)
  BY DEF Linked, Staged
<1>6. \A k \in Keys : Visible(k)' <=> Visible(k)
  BY DEF Quiet, Visible
<1>7. (LockInv /\ StageInv /\ OrphanInv)'
  <2>0. \A q \in Procs : Holds(q) => D(q) \in Digests
    BY CallFacts DEF Inv, Holds, Staged, InRemoveAll
  <2>1. LockInv'
    <3>1. CASE UNCHANGED lock /\ (Holds(p)' => Holds(p))
      BY <3>1, <1>1, <1>2, <1>3 DEF Quiet, Inv, LockInv
    <3>2. CASE ~(UNCHANGED lock /\ (Holds(p)' => Holds(p)))
      BY <3>2, <2>0, <1>1, <1>2, <1>3, NoneAssumption
      DEF Quiet, LockStep, Inv, TypeOK, LockInv
    <3> QED BY <3>1, <3>2
  <2>2. StageInv'
    BY <1>3 DEF Quiet, Others, Inv, TypeOK, StageInv
  <2>3. OrphanInv'
    BY NoneAssumption DEF Quiet, Others, Inv, TypeOK, OrphanInv
  <2> QED BY <2>1, <2>2, <2>3
<1>8. (RepoInv /\ FdInv /\ NoLitter)'
  <2>1. RepoInv' /\ NoLitter'
    BY DEF Quiet, Inv, RepoInv, NoLitter
  <2>2. FdInv'
    BY <1>1, <1>2 DEF Quiet, Others, Inv, FdInv, RepoInv, TypeOK
  <2> QED BY <2>1, <2>2
<1>9. NoDupInv'
  BY <1>1, <1>2, <1>3, <1>4 DEF Quiet, Inv, NoDupInv, Visible
<1>10. FillInv'
  BY <1>1, <1>2 DEF Quiet, Others, Inv, TypeOK, FillInv, Visible, StageInv, Staged
<1>11. StagedBlobInv'
  BY <1>1, <1>2, <1>3, <1>4, <1>5 DEF Quiet, Others, Inv, StagedBlobInv
<1>12. (FileInv /\ OneCopy /\ RemoveInv /\ LinkCannotFail)'
  BY <1>1, <1>2, <1>4, <1>6, CallFacts
  DEF Quiet, Others, Inv, FileInv, OneCopy, RemoveInv, LinkCannotFail, Holds
<1>13. RightContent'
  BY <1>1, <1>2, <1>6, CallFacts DEF Quiet, Others, Inv, RightContent, Visible, K, D, Keys
<1>14. (LeftoverIsReplaced /\ CleanupInv)'
  BY <1>1, <1>2 DEF Quiet, Others, Inv, LeftoverIsReplaced, CleanupInv, Holds, Staged
<1> QED
  BY <1>7, <1>8, <1>9, <1>10, <1>11, <1>12, <1>13, <1>14 DEF Inv

\* Nothing an Erase still has to reclaim is forgotten by a step that leaves
\* links and cleaning Erases as they are.
LEMMA ReclaimKept ==
  ASSUME Inv, UNCHANGED <<share, dblob>>, failed \subseteq failed',
         \A q \in Procs : Cleaning(q) =>
            (Cleaning(q)' /\ D(q)' = D(q)) \/ D(q) \in failed'
  PROVE  ReclaimInv'
BY DEF Inv, ReclaimInv

\* A client makes a call.
LEMMA InvokeInv ==
  ASSUME Inv, NEW p \in Procs, Invoke(p)
  PROVE  Inv'
<1>1. PICK c \in Calls :
        call' = [call EXCEPT ![p] = c] /\ Goto(p, IF c.wellformed THEN FirstStep(c.op) ELSE "refuse")
  BY DEF Invoke
<1>2. pc'[p] \in {"refuse", "given", "rmtry", "lstat", "ostat"} /\ c.op \in Ops
  BY <1>1, OpsAssumption DEF Goto, FirstStep, Calls, Inv, TypeOK
<1>3. /\ pc'[p] = "given" => c.op = "add"
      /\ pc'[p] = "rmtry" => c.op = "erase"
  BY <1>1, <1>2, OpsAssumption DEF Goto, FirstStep, Inv, TypeOK
<1> USE <1>1, <1>2, <1>3 DEF Goto
<1>4. TypeOK'
  BY DEF Inv, TypeOK, Invoke, disk, PCs
<1>5. OpInv' /\ AttemptInv'
  BY DEF Inv, TypeOK, OpInv, AttemptInv, AddOnly, EraseOnly, InRemoveAll, Invoke
<1>6. Quiet(p)
  BY DEF Quiet, LockStep, Others, Inv, TypeOK, FdInv, FileInv, Holds, Staged, Linked, InRemoveAll, Invoke, disk
<1>7. ReclaimInv'
  BY ReclaimKept DEF Inv, TypeOK, Cleaning, EraseOnly, D, Invoke, disk
<1> QED BY <1>4, <1>5, <1>6, <1>7, QuietStep

\* The caller takes its answer.
LEMMA ReturnInv ==
  ASSUME Inv, NEW p \in Procs, Return(p)
  PROVE  Inv'
<1> USE DEF Return, Goto, disk
<1>1. TypeOK'
  BY DEF Inv, TypeOK, PCs, attempts
<1>2. OpInv' /\ AttemptInv'
  BY DEF Inv, TypeOK, OpInv, AttemptInv, AddOnly, EraseOnly, InRemoveAll
<1>3. Quiet(p)
  BY DEF Quiet, LockStep, Others, Inv, TypeOK, FdInv, Holds, Staged, Linked, InRemoveAll
<1>4. ReclaimInv'
  BY ReclaimKept DEF Inv, TypeOK, Cleaning, EraseOnly, D
<1> QED BY <1>1, <1>2, <1>3, <1>4, QuietStep

\* The steps that only look, and the rename of a labels file.
Looks(p) ==
    \/ Refuse(p) \/ AddGiven(p) \/ AddRead(p) \/ LabelStat(p)
    \/ LabelRename(p) \/ OpenStat(p) \/ OpenLabels(p) \/ OpenBlob(p)

\* The steps that only look at the disk (stat, open, nlink) keep the invariant.
LEMMA LooksInv ==
  ASSUME Inv, NEW p \in Procs, Looks(p)
  PROVE  Inv'
<1> USE DEF Looks, Refuse, AddGiven, AddRead, LabelStat, LabelRename, OpenStat,
            OpenLabels, OpenBlob, Answer, Continue, Goto, disk, locals
<1>1. D(p) \in Digests /\ K(p) \in Keys /\ call[p] \in Calls
  BY CallFacts DEF Inv
<1>2. TypeOK'
  BY <1>1 DEF Inv, TypeOK, PCs, Results, Refusal, Visible
<1>3. OpInv' /\ AttemptInv'
  BY DEF Inv, TypeOK, OpInv, AttemptInv, AddOnly, EraseOnly, InRemoveAll
<1>4. Quiet(p)
  BY <1>1 DEF Quiet, LockStep, Others, Inv, TypeOK, FdInv, FileInv, Holds, Staged, Linked, InRemoveAll
<1>5. ReclaimInv'
  BY ReclaimKept DEF Inv, TypeOK, Cleaning, EraseOnly, D
<1> QED BY <1>2, <1>3, <1>4, <1>5, QuietStep

\* The stat between two attempts of moveStageToRepo.
LEMMA AddStatInv ==
  ASSUME Inv, NEW p \in Procs, AddStat(p)
  PROVE  Inv'
<1> USE DEF AddStat, Answer, Continue, Goto, disk, locals
<1>1. D(p) \in Digests /\ call[p].op = "add"
  BY CallFacts DEF Inv, OpInv, AddOnly
<1>2. TypeOK'
  BY <1>1 DEF Inv, TypeOK, PCs, Results
<1>3. OpInv' /\ AttemptInv'
  BY <1>1 DEF Inv, TypeOK, OpInv, AttemptInv, AddOnly, EraseOnly, InRemoveAll
<1>4. Quiet(p)
  BY <1>1 DEF Quiet, LockStep, Others, Inv, TypeOK, FdInv, FileInv, Holds, Staged, Linked, InRemoveAll
<1>5. ReclaimInv'
  BY ReclaimKept DEF Inv, TypeOK, Cleaning, EraseOnly, D
<1> QED BY <1>2, <1>3, <1>4, <1>5, QuietStep

\* The context of a waiting call ends, or a call meets an I/O error.
LEMMA CancelInv ==
  ASSUME Inv, NEW p \in Procs, Cancel(p)
  PROVE  Inv'
<1> USE DEF Cancel, Fault, Goto, disk, locals
<1>1. D(p) \in Digests
  BY CallFacts DEF Inv
<1>2. TypeOK'
  BY <1>1, FaultsAssumption DEF Inv, TypeOK, PCs, Results
<1>3. OpInv' /\ AttemptInv'
  BY DEF Inv, TypeOK, OpInv, AttemptInv, AddOnly, EraseOnly, InRemoveAll
<1>4. Quiet(p)
  BY DEF Quiet, LockStep, Others, Inv, TypeOK, FdInv, FileInv, Holds, Staged, Linked, InRemoveAll
<1>5. ReclaimInv'
  BY ReclaimKept DEF Inv, TypeOK, Cleaning, EraseOnly, D
<1> QED BY <1>2, <1>3, <1>4, <1>5, QuietStep

\* IoError: the call ends with the error, or goes on to its cleanup.
LEMMA IoErrorInv ==
  ASSUME Inv, NEW p \in Procs, IoError(p)
  PROVE  Inv'
<1> USE DEF IoError, Fault, Answer, Goto, disk, locals
<1>1. D(p) \in Digests
  BY CallFacts DEF Inv
<1>2. TypeOK'
  BY <1>1, FaultsAssumption DEF Inv, TypeOK, PCs, Results
<1>3. OpInv' /\ AttemptInv'
  BY DEF Inv, TypeOK, OpInv, AttemptInv, AddOnly, EraseOnly, InRemoveAll
<1>4. Quiet(p)
  BY DEF Quiet, LockStep, Others, Inv, TypeOK, FdInv, FileInv, Holds, Staged, Linked, InRemoveAll
<1>5. ReclaimInv'
  BY ReclaimKept DEF Inv, TypeOK, Cleaning, EraseOnly, D
<1> QED BY <1>2, <1>3, <1>4, <1>5, QuietStep

\* RemoveAll opens a directory and reads it; RemoveAll closes it.
LEMMA RmOpenInv ==
  ASSUME Inv, NEW p \in Procs, RmOpen(p)
  PROVE  Inv'
<1> USE DEF RmOpen, RemoveAllOk, Answer, Continue, Goto, disk
<1>1. D(p) \in Digests /\ K(p) \in Keys /\ call[p].op \in {"add", "erase"}
  BY CallFacts DEF Inv, OpInv, InRemoveAll
<1>2. TypeOK'
  BY <1>1 DEF Inv, TypeOK, PCs, Results, Contents
<1>3. OpInv' /\ AttemptInv'
  BY <1>1 DEF Inv, TypeOK, OpInv, AttemptInv, AddOnly, EraseOnly, InRemoveAll, attempts
<1>4. Quiet(p)
  BY <1>1 DEF Quiet, LockStep, Others, Inv, TypeOK, FdInv, FileInv, Holds, Staged, Linked, InRemoveAll
<1>5. ReclaimInv'
  BY ReclaimKept DEF Inv, TypeOK, Cleaning, EraseOnly, D
<1> QED BY <1>2, <1>3, <1>4, <1>5, QuietStep

\* RmClose: RemoveAll has unlinked every name it read.
LEMMA RmCloseInv ==
  ASSUME Inv, NEW p \in Procs, RmClose(p)
  PROVE  Inv'
<1> USE DEF RmClose, Continue, Goto, disk
<1>1. TypeOK'
  BY DEF Inv, TypeOK, PCs
<1>2. OpInv' /\ AttemptInv'
  BY DEF Inv, TypeOK, OpInv, AttemptInv, AddOnly, EraseOnly, InRemoveAll
<1>3. Quiet(p)
  BY DEF Quiet, LockStep, Others, Inv, TypeOK, FdInv, FileInv, Holds, Staged, Linked, InRemoveAll
<1>4. ReclaimInv'
  BY ReclaimKept DEF Inv, TypeOK, Cleaning, EraseOnly, D
<1> QED BY <1>1, <1>2, <1>3, <1>4, QuietStep

-----------------------------------------------------------------------------
(***************************************************************************)
(* tryCleanup.                                                             *)
(***************************************************************************)

\* The shared blob has a second link exactly when some directory links to it.
LEMMA LinkCount ==
  ASSUME Inv, NEW d \in Digests, share[d] # None, CountLinks
  PROVE  nlink(d) > 1 <=> \E x \in Dirs : dblob[x] = share[d]
<1> DEFINE A == {e \in Digests : share[e] = share[d]}
           B == {x \in Dirs : dblob[x] = share[d]}
<1>1. A = {d}
  BY ShareInjective
<1>2. Cardinality(A) = 1
  BY <1>1, FS_Singleton
<1>3. IsFiniteSet(B)
  BY FS_Subset, FiniteAssumption
<1>4. Cardinality(B) \in Nat /\ (Cardinality(B) = 0 <=> B = {})
  BY <1>3, FS_CardinalityType, FS_EmptySet
<1>5. nlink(d) = Cardinality(A) + Cardinality(B)
  BY DEF nlink
<1> HIDE DEF A
<1>6. nlink(d) > 1 <=> B # {}
  BY <1>2, <1>4, <1>5
<1> QED BY <1>6

\* The first look at the link count, before the lock.
LEMMA EraseCheckInv ==
  ASSUME Inv, NEW p \in Procs, EraseCheck(p)
  PROVE  Inv'
<1> USE DEF EraseCheck, Continue, Goto, disk, locals
<1>1. D(p) \in Digests /\ call[p].op = "erase"
  BY CallFacts DEF Inv, OpInv, EraseOnly
<1>2. TypeOK'
  BY DEF Inv, TypeOK, PCs
<1>3. OpInv' /\ AttemptInv'
  BY <1>1 DEF Inv, TypeOK, OpInv, AttemptInv, AddOnly, EraseOnly, InRemoveAll
<1>4. Quiet(p)
  BY DEF Quiet, LockStep, Others, Inv, TypeOK, FdInv, FileInv, Holds, Staged, Linked, InRemoveAll
<1>5. ReclaimInv'
  <2>1. CASE Referenced(D(p))
    <3>1. \/ share[D(p)] = None
          \/ \E x \in Dirs : dblob[x] = share[D(p)]
      BY <2>1, <1>1, LinkCount DEF Referenced, nlink
    <3>2. \A q \in Procs \ {p} : Cleaning(q) => Cleaning(q)' /\ D(q)' = D(q)
      BY DEF Inv, TypeOK, Cleaning, D
    <3> QED BY <3>1, <3>2 DEF Inv, ReclaimInv
  <2>2. CASE ~Referenced(D(p))
    BY <2>2, <1>1, ReclaimKept DEF Inv, TypeOK, Cleaning, EraseOnly, D
  <2> QED BY <2>1, <2>2
<1> QED BY <1>2, <1>3, <1>4, <1>5, QuietStep

\* The second look, under the lock.
LEMMA EraseRecheckInv ==
  ASSUME Inv, NEW p \in Procs, EraseRecheck(p)
  PROVE  Inv'
<1> USE DEF EraseRecheck, Continue, Goto, disk, locals
<1>1. D(p) \in Digests /\ call[p].op = "erase"
  BY CallFacts DEF Inv, OpInv, EraseOnly
<1>2. TypeOK'
  BY DEF Inv, TypeOK, PCs
<1>3. OpInv' /\ AttemptInv'
  BY <1>1 DEF Inv, TypeOK, OpInv, AttemptInv, AddOnly, EraseOnly, InRemoveAll
<1>4. CountLinks =>
        /\ Referenced(D(p)) <=> \/ share[D(p)] = None
                                \/ \E x \in Dirs : dblob[x] = share[D(p)]
  BY <1>1, LinkCount DEF Referenced
<1>5. ~CountLinks => ~Referenced(D(p))
  BY DEF Referenced, nlink
<1>6. Quiet(p)
  BY <1>4 DEF Quiet, LockStep, Others, Inv, TypeOK, FdInv, FileInv, Holds, Staged,
              Linked, InRemoveAll
<1>7. ReclaimInv'
  <2>1. \A q \in Procs : q # p /\ Cleaning(q) => Cleaning(q)' /\ D(q)' = D(q)
    BY DEF Inv, TypeOK, Cleaning, D
  <2>2. ~Referenced(D(p)) => Cleaning(p)' /\ D(p)' = D(p)
    BY <1>1 DEF Inv, TypeOK, Cleaning, D, EraseOnly
  <2> QED BY <1>4, <1>5, <2>1, <2>2 DEF Inv, ReclaimInv
<1> QED BY <1>2, <1>3, <1>6, <1>7, QuietStep

-----------------------------------------------------------------------------
(***************************************************************************)
(* The blob lock.                                                          *)
(***************************************************************************)
LEMMA LockedInv ==
  ASSUME Inv, NEW p \in Procs, AddLock(p) \/ EraseLock(p) \/ Unlock(p)
  PROVE  Inv'
<1> USE DEF AddLock, EraseLock, Unlock, Continue, Goto, disk, locals
<1>1. D(p) \in Digests /\ (pc[p] = "elock" => call[p].op = "erase")
                       /\ (pc[p] = "lock" => call[p].op = "add")
  BY CallFacts DEF Inv, OpInv, EraseOnly, AddOnly
<1>2. TypeOK'
  BY <1>1 DEF Inv, TypeOK, PCs
<1>3. OpInv' /\ AttemptInv'
  BY <1>1 DEF Inv, TypeOK, OpInv, AttemptInv, AddOnly, EraseOnly, InRemoveAll
<1>4. Quiet(p)
  BY <1>1 DEF Quiet, LockStep, Others, Inv, TypeOK, FdInv, FileInv, Holds, Staged,
              Linked, InRemoveAll
<1>5. ReclaimInv'
  BY <1>1, ReclaimKept DEF Inv, TypeOK, Cleaning, EraseOnly, D
<1> QED BY <1>2, <1>3, <1>4, <1>5, QuietStep

-----------------------------------------------------------------------------
(***************************************************************************)
(* Add writes its staged directory.                                        *)
(***************************************************************************)

\* When no call changes its arguments, keys stay and so does what follows from
\* the place of a caller that does not move.
LEMMA SameCalls ==
  ASSUME UNCHANGED call, NEW p \in Procs, \A q \in Procs \ {p} : pc'[q] = pc[q]
  PROVE  /\ \A q \in Procs : K(q)' = K(q) /\ D(q)' = D(q)
         /\ \A q \in Procs \ {p} : /\ Staged(q)' <=> Staged(q)
                                   /\ Holds(q)' <=> Holds(q)
                                   /\ Linked(q)' <=> Linked(q)
                                   /\ Cleaning(q)' <=> Cleaning(q)
BY DEF K, D, Staged, Holds, Linked, Cleaning

\* checkDup under the lock, and a fresh staged directory.
LEMMA AddDupInv ==
  ASSUME Inv, NEW p \in Procs, AddDup(p)
  PROVE  Inv'
<1>1. D(p) \in Digests /\ K(p) \in Keys /\ call[p].op = "add"
  BY CallFacts DEF AddDup, Inv, OpInv, AddOnly
<1>2. CASE Visible(K(p))
  <2> USE <1>2 DEF AddDup, checkDup, Answer, Goto
  <2>1. TypeOK'
    BY DEF Inv, TypeOK, PCs, Results
  <2>2. OpInv' /\ AttemptInv'
    BY DEF Inv, TypeOK, OpInv, AttemptInv, AddOnly, EraseOnly, InRemoveAll
  <2>3. Quiet(p)
    BY DEF Quiet, LockStep, Others, Inv, TypeOK, FdInv, FileInv, Holds, Staged,
           Linked, InRemoveAll
  <2>4. ReclaimInv'
    BY ReclaimKept DEF Inv, TypeOK, Cleaning, EraseOnly, D
  <2> QED BY <2>1, <2>2, <2>3, <2>4, QuietStep
<1>3. CASE ~Visible(K(p))
  <2>1. PICK x \in FreeDirs : ps' = [ps EXCEPT ![p] = x] /\ labelled' = labelled \cup {x}
    BY <1>3 DEF AddDup, checkDup
  <2>2. /\ pc[p] = "dup" /\ pc' = [pc EXCEPT ![p] = "share"]
        /\ UNCHANGED <<share, content, dblob, repo, orphans, lock, call, fd, names,
                       attempt, file, ret, faults, failed>>
    BY <1>3 DEF AddDup, checkDup, Continue, Goto
  <2>3. /\ x \in Dirs /\ x \notin orphans /\ \A k \in Keys : repo[k] # x
        /\ \A q \in Procs : ps[q] # x /\ fd[q] # x
    BY DEF FreeDirs
  <2>4. dblob[x] = None
    BY <2>3 DEF Inv, NoLitter
  <2>5. pc'[p] = "share" /\ ps'[p] = x /\ \A q \in Procs \ {p} : pc'[q] = pc[q] /\ ps'[q] = ps[q]
    BY <2>1, <2>2 DEF Inv, TypeOK
  <2>6. TypeOK'
    BY <2>1, <2>2, <2>3 DEF Inv, TypeOK, PCs
  <2> USE <1>1, <2>2, <2>3, <2>4, <2>5, SameCalls
  <2>7. (OpInv /\ AttemptInv)'
    BY DEF Inv, TypeOK, OpInv, AttemptInv, AddOnly, EraseOnly, InRemoveAll
  <2>8. Holds(p) /\ Holds(p)' /\ Staged(p)' /\ ~Staged(p) /\ ~Linked(p)'
    BY DEF Holds, Staged, Linked, InRemoveAll
  <2>9. LockInv'
    BY <2>8 DEF Inv, LockInv
  <2>10. StageInv'
    BY <2>8, NoneAssumption DEF Inv, TypeOK, StageInv
  <2>11. (OrphanInv /\ RepoInv /\ FdInv)'
    BY DEF Inv, TypeOK, OrphanInv, RepoInv, FdInv
  <2>17. NoLitter'
    <3>1. ps[p] = None
      BY <2>8 DEF Inv, StageInv
    <3> QED BY <3>1, NoneAssumption DEF Inv, TypeOK, NoLitter
  <2>12. NoDupInv'
    BY <1>3 DEF Inv, NoDupInv, Visible
  <2>13. (FillInv /\ StagedBlobInv)'
    BY <2>8 DEF Inv, TypeOK, FillInv, StagedBlobInv
  <2>14. (FileInv /\ RightContent /\ OneCopy)'
    BY DEF Inv, TypeOK, FileInv, RightContent, OneCopy, Visible
  <2>15. (RemoveInv /\ LinkCannotFail /\ LeftoverIsReplaced /\ CleanupInv)'
    BY DEF Inv, RemoveInv, LinkCannotFail, LeftoverIsReplaced, CleanupInv
  <2>16. ReclaimInv'
    BY DEF Inv, ReclaimInv, Cleaning, EraseOnly
  <2> QED
    BY <2>6, <2>7, <2>9, <2>10, <2>11, <2>12, <2>13, <2>14, <2>15, <2>16,
       <2>17 DEF Inv
<1> QED BY <1>2, <1>3

\* The stat of the shared blob, and the blob file created when there is none.
LEMMA AddShareInv ==
  ASSUME Inv, NEW p \in Procs, AddShare(p)
  PROVE  Inv'
<1>1. /\ Staged(p) /\ call[p].op = "add" /\ pc[p] = "share" /\ UNCHANGED call
      /\ dblob[ps[p]] = None
  BY DEF AddShare, Staged, Inv, OpInv, AddOnly, StagedBlobInv, locals
<1>2. D(p) \in Digests /\ K(p) \in Keys /\ ps[p] \in Dirs
  BY <1>1, StagedFacts
<1>3. CASE share[D(p)] # None
  <2>1. /\ pc' = [pc EXCEPT ![p] = "link"]
        /\ UNCHANGED <<share, content, dblob, labelled, repo, orphans, lock,
                       locals, ret, faults, failed>>
    BY <1>3 DEF AddShare, Continue, Goto
  <2>2. TypeOK'
    BY <1>1, <2>1 DEF Inv, TypeOK, PCs, locals
  <2>3. /\ pc'[p] = "link" /\ \A q \in Procs \ {p} : pc'[q] = pc[q]
        /\ Staged(p)' /\ Holds(p)' /\ ~Linked(p)'
    BY <2>1 DEF Inv, TypeOK, Staged, Holds, Linked, InRemoveAll
  <2> USE <1>1, <1>2, <1>3, <2>1, <2>3, SameCalls, StagedFacts DEF locals
  <2>4. (OpInv /\ AttemptInv)'
    BY DEF Inv, TypeOK, OpInv, AttemptInv, AddOnly, EraseOnly, InRemoveAll
  <2>5. (LockInv /\ StageInv)'
    BY DEF Inv, LockInv, StageInv
  <2>6. (OrphanInv /\ RepoInv /\ FdInv /\ NoLitter)'
    BY DEF Inv, TypeOK, OrphanInv, RepoInv, FdInv, NoLitter
  <2>7. (NoDupInv /\ FillInv /\ StagedBlobInv)'
    BY DEF Inv, TypeOK, NoDupInv, FillInv, StagedBlobInv, Visible
  <2>8. (FileInv /\ RightContent /\ OneCopy)'
    BY DEF Inv, TypeOK, FileInv, RightContent, OneCopy, Visible
  <2>9. (RemoveInv /\ LinkCannotFail /\ LeftoverIsReplaced /\ CleanupInv)'
    BY DEF Inv, RemoveInv, LinkCannotFail, LeftoverIsReplaced, CleanupInv
  <2>10. ReclaimInv'
    BY DEF Inv, ReclaimInv, Cleaning, EraseOnly
  <2> QED BY <2>2, <2>4, <2>5, <2>6, <2>7, <2>8, <2>9, <2>10 DEF Inv
<1>4. CASE share[D(p)] = None
  <2>1. PICK i \in FreeInodes :
          /\ content' = [content EXCEPT ![i] = None]
          /\ dblob' = [dblob EXCEPT ![ps[p]] = i]
    BY <1>4 DEF AddShare
  <2>2. /\ pc' = [pc EXCEPT ![p] = "copy"]
        /\ UNCHANGED <<share, labelled, repo, orphans, lock, locals, ret, faults, failed>>
    BY <1>4 DEF AddShare, Continue, Goto
  <2>3. /\ i \in Inodes /\ i # None
        /\ \A d \in Digests : share[d] # i
        /\ \A x \in Dirs : dblob[x] # i
        /\ \A q \in Procs : file[q] # i
    BY NoneAssumption DEF FreeInodes
  <2>4. TypeOK'
    BY <1>1, <2>1, <2>2, <2>3 DEF Inv, TypeOK, PCs, locals
  <2>5. /\ pc'[p] = "copy" /\ \A q \in Procs \ {p} : pc'[q] = pc[q]
        /\ Staged(p)' /\ Holds(p)' /\ ~Linked(p)'
    BY <2>2 DEF Inv, TypeOK, Staged, Holds, Linked, InRemoveAll
  <2>6. /\ dblob'[ps[p]] = i /\ \A x \in Dirs : x # ps[p] => dblob'[x] = dblob[x]
        /\ \A j \in Inodes : j # i => content'[j] = content[j]
    BY <1>2, <2>1 DEF Inv, TypeOK
  <2>7. \A k \in Keys : repo[k] # ps[p] /\ (Visible(k)' <=> Visible(k))
    BY <1>1, <1>2, <2>2, <2>6, StagedFacts DEF Inv, TypeOK, StageInv, Visible
  <2> USE <1>1, <1>2, <1>4, <2>2, <2>3, <2>5, <2>6, SameCalls, StagedFacts DEF locals
  <2>8. (OpInv /\ AttemptInv)'
    BY DEF Inv, TypeOK, OpInv, AttemptInv, AddOnly, EraseOnly, InRemoveAll
  <2>9. (LockInv /\ StageInv)'
    BY DEF Inv, LockInv, StageInv
  <2>10. (OrphanInv /\ RepoInv /\ FdInv /\ NoLitter)'
    BY DEF Inv, TypeOK, OrphanInv, RepoInv, FdInv, NoLitter
  <2>11. NoDupInv'
    BY <2>7 DEF Inv, NoDupInv
  <2>12. FillInv'
    BY DEF Inv, TypeOK, FillInv, Staged
  <2>13. StagedBlobInv'
    BY DEF Inv, TypeOK, StagedBlobInv, Staged, Linked
  <2>14. (FileInv /\ RightContent /\ OneCopy)'
    BY <2>7, CallFacts DEF Inv, TypeOK, FileInv, RightContent, OneCopy, Visible
  <2>15. (RemoveInv /\ LinkCannotFail /\ LeftoverIsReplaced /\ CleanupInv)'
    BY CallFacts DEF Inv, TypeOK, RemoveInv, LinkCannotFail, LeftoverIsReplaced, CleanupInv
  <2>16. ReclaimInv'
    BY DEF Inv, TypeOK, ReclaimInv, Cleaning, EraseOnly
  <2> QED
    BY <2>4, <2>8, <2>9, <2>10, <2>11, <2>12, <2>13, <2>14, <2>15, <2>16 DEF Inv
<1> QED BY <1>3, <1>4

\* The staged blob becomes a link to the shared one.
LEMMA AddLinkInv ==
  ASSUME Inv, NEW p \in Procs, AddLink(p)
  PROVE  Inv'
<1>1. /\ Staged(p) /\ call[p].op = "add" /\ pc[p] = "link" /\ UNCHANGED call
      /\ dblob[ps[p]] = None /\ share[D(p)] # None /\ attempt[p] = 0
  BY DEF AddLink, Staged, Inv, OpInv, AddOnly, StagedBlobInv, LinkCannotFail,
         AttemptInv, locals
<1>2. D(p) \in Digests /\ K(p) \in Keys /\ ps[p] \in Dirs
  BY <1>1, StagedFacts
<1>3. /\ dblob' = [dblob EXCEPT ![ps[p]] = share[D(p)]]
      /\ pc' = [pc EXCEPT ![p] = "rename"]
      /\ UNCHANGED <<share, content, labelled, repo, orphans, lock, locals,
                     ret, faults, failed>>
  BY <1>1 DEF AddLink, Continue, Goto
<1>4. TypeOK'
  BY <1>1, <1>2, <1>3 DEF Inv, TypeOK, PCs, locals
<1>5. /\ pc'[p] = "rename" /\ \A q \in Procs \ {p} : pc'[q] = pc[q]
      /\ Staged(p)' /\ Holds(p)' /\ Linked(p)'
  BY <1>3 DEF Inv, TypeOK, Staged, Holds, Linked
<1>6. dblob'[ps[p]] = share[D(p)] /\ \A x \in Dirs : x # ps[p] => dblob'[x] = dblob[x]
  BY <1>2, <1>3 DEF Inv, TypeOK
<1>7. \A k \in Keys : repo[k] # ps[p] /\ (Visible(k)' <=> Visible(k))
  BY <1>1, <1>2, <1>3, <1>6, StagedFacts DEF Inv, TypeOK, StageInv, Visible
<1> USE <1>1, <1>2, <1>3, <1>5, <1>6, SameCalls DEF locals
<1>8. (OpInv /\ AttemptInv)'
  BY DEF Inv, TypeOK, OpInv, AttemptInv, AddOnly, EraseOnly, InRemoveAll, attempts
<1>9. (LockInv /\ StageInv)'
  BY DEF Inv, LockInv, StageInv, Holds
<1>10. (OrphanInv /\ RepoInv /\ FdInv /\ NoLitter)'
  BY DEF Inv, TypeOK, OrphanInv, RepoInv, FdInv, NoLitter
<1>11. NoDupInv'
  BY <1>7, StagedFacts DEF Inv, NoDupInv
<1>12. FillInv'
  BY StagedFacts DEF Inv, TypeOK, FillInv, Staged
<1>13. StagedBlobInv'
  <2>1. \A q \in Procs \ {p} : Staged(q) => ps[q] # ps[p] /\ ps[q] \in Dirs
    BY StagedFacts
  <2>2. \A q \in Procs : Linked(q) => Staged(q)
    BY DEF Linked, Staged
  <2>3. \A q \in Procs : pc[q] \in {"share", "link"} => Staged(q)
    BY DEF Staged
  <2>4. \A d \in Digests : share[d] # None /\ share[D(p)] = share[d] => d = D(p)
    BY ShareInjective
  <2> QED BY <2>1, <2>2, <2>3, <2>4 DEF Inv, StagedBlobInv
<1>14. (FileInv /\ RightContent /\ OneCopy)'
  BY <1>7, CallFacts DEF Inv, TypeOK, FileInv, RightContent, OneCopy, Visible
<1>15. RemoveInv'
  <2>1. \A q \in Procs : pc[q] = "remove" => D(q) # D(p) /\ D(q) \in Digests
    BY Exclusion, CallFacts DEF Inv, Holds
  <2>2. \A q \in Procs : pc[q] = "remove" => share[D(q)] # share[D(p)]
    BY <2>1, ShareInjective
  <2> QED BY <2>2 DEF Inv, TypeOK, RemoveInv
<1>16. (LinkCannotFail /\ LeftoverIsReplaced /\ CleanupInv)'
  BY DEF Inv, LinkCannotFail, LeftoverIsReplaced, CleanupInv
<1>17. ReclaimInv'
  BY DEF Inv, TypeOK, ReclaimInv, Cleaning, EraseOnly
<1> QED
  BY <1>4, <1>8, <1>9, <1>10, <1>11, <1>12, <1>13, <1>14, <1>15, <1>16, <1>17 DEF Inv

\* The staged blob becomes whole.
LEMMA AddCopyInv ==
  ASSUME Inv, NEW p \in Procs, AddCopy(p)
  PROVE  Inv'
<1>1. /\ Staged(p) /\ call[p].op = "add" /\ pc[p] = "copy" /\ UNCHANGED call
      /\ dblob[ps[p]] # None /\ share[D(p)] = None
  BY DEF AddCopy, Staged, Inv, OpInv, AddOnly, FillInv, LinkCannotFail, locals
<1>2. /\ D(p) \in Digests /\ K(p) \in Keys /\ ps[p] \in Dirs
      /\ dblob[ps[p]] \in Inodes
  BY <1>1, StagedFacts DEF Inv, TypeOK
<1>3. /\ content' = [content EXCEPT ![dblob[ps[p]]] = D(p)]
      /\ pc' = [pc EXCEPT ![p] = "publish"]
      /\ UNCHANGED <<share, dblob, labelled, repo, orphans, lock, locals,
                     ret, faults, failed>>
  BY DEF AddCopy, Continue, Goto
<1>4. TypeOK'
  BY <1>1, <1>2, <1>3 DEF Inv, TypeOK, PCs, locals
<1>5. /\ pc'[p] = "publish" /\ \A q \in Procs \ {p} : pc'[q] = pc[q]
      /\ Staged(p)' /\ Holds(p)' /\ ~Linked(p)'
  BY <1>3 DEF Inv, TypeOK, Staged, Holds, Linked, InRemoveAll
<1>6. /\ content'[dblob[ps[p]]] = D(p)
      /\ \A i \in Inodes : i # dblob[ps[p]] => content'[i] = content[i]
  BY <1>2, <1>3 DEF Inv, TypeOK
<1>7. /\ \A d \in Digests : share[d] # dblob[ps[p]]
      /\ \A x \in Dirs : dblob[x] = dblob[ps[p]] => x = ps[p]
      /\ \A q \in Procs : file[q] # dblob[ps[p]]
      /\ \A k \in Keys : repo[k] # ps[p]
      /\ \A k \in Keys : Visible(k)' <=> Visible(k)
  BY <1>1, <1>2, <1>3, StagedFacts, NoneAssumption
  DEF Inv, TypeOK, FillInv, StageInv, Visible
<1> USE <1>1, <1>2, <1>3, <1>5, <1>6, SameCalls DEF locals
<1>8. (OpInv /\ AttemptInv)'
  BY DEF Inv, TypeOK, OpInv, AttemptInv, AddOnly, EraseOnly, InRemoveAll
<1>9. (LockInv /\ StageInv)'
  BY DEF Inv, LockInv, StageInv, Holds
<1>10. (OrphanInv /\ RepoInv /\ FdInv /\ NoLitter)'
  BY DEF Inv, TypeOK, OrphanInv, RepoInv, FdInv, NoLitter
<1>11. NoDupInv'
  BY <1>7, StagedFacts DEF Inv, NoDupInv
<1>12. FillInv'
  <2>1. \A q \in Procs \ {p} :
          pc[q] = "publish" => ps[q] \in Dirs /\ ps[q] # ps[p]
    BY StagedFacts DEF Staged
  <2> QED BY <2>1, <1>7 DEF Inv, TypeOK, FillInv
<1>13. StagedBlobInv'
  BY DEF Inv, StagedBlobInv
<1>14. (FileInv /\ OneCopy)'
  BY <1>7 DEF Inv, TypeOK, FileInv, OneCopy, Visible
<1>15. RightContent'
  BY <1>7, CallFacts DEF Inv, TypeOK, RightContent, Visible
<1>16. (RemoveInv /\ LinkCannotFail /\ LeftoverIsReplaced /\ CleanupInv)'
  BY DEF Inv, RemoveInv, LinkCannotFail, LeftoverIsReplaced, CleanupInv
<1>17. ReclaimInv'
  BY DEF Inv, ReclaimInv, Cleaning, EraseOnly
<1> QED
  BY <1>4, <1>8, <1>9, <1>10, <1>11, <1>12, <1>13, <1>14, <1>15, <1>16, <1>17 DEF Inv

\* The staged blob gets the shared name.
LEMMA AddPublishInv ==
  ASSUME Inv, NEW p \in Procs, AddPublish(p)
  PROVE  Inv'
<1>1. /\ Staged(p) /\ call[p].op = "add" /\ pc[p] = "publish" /\ UNCHANGED call
      /\ share[D(p)] = None /\ attempt[p] = 0
  BY DEF AddPublish, Staged, Inv, OpInv, AddOnly, LinkCannotFail, AttemptInv, locals
<1>2. /\ D(p) \in Digests /\ K(p) \in Keys /\ ps[p] \in Dirs
  BY <1>1, StagedFacts
<1>3. /\ dblob[ps[p]] \in Inodes /\ dblob[ps[p]] # None
      /\ content[dblob[ps[p]]] = D(p)
      /\ \A d \in Digests : share[d] # dblob[ps[p]]
      /\ \A x \in Dirs : dblob[x] = dblob[ps[p]] => x = ps[p]
      /\ \A k \in Keys : repo[k] # ps[p]
  BY <1>1, <1>2, NoneAssumption DEF Inv, TypeOK, FillInv, StageInv
<1>4. /\ share' = [share EXCEPT ![D(p)] = dblob[ps[p]]]
      /\ pc' = [pc EXCEPT ![p] = "rename"]
      /\ UNCHANGED <<content, dblob, labelled, repo, orphans, lock, locals,
                     ret, faults, failed>>
  BY <1>1 DEF AddPublish, Continue, Goto
<1>5. TypeOK'
  BY <1>1, <1>2, <1>3, <1>4 DEF Inv, TypeOK, PCs, locals
<1>6. /\ pc'[p] = "rename" /\ \A q \in Procs \ {p} : pc'[q] = pc[q]
      /\ Staged(p)' /\ Holds(p)' /\ Linked(p)'
      /\ share'[D(p)] = dblob[ps[p]]
      /\ \A d \in Digests : d # D(p) => share'[d] = share[d]
  BY <1>2, <1>4 DEF Inv, TypeOK, Staged, Holds, Linked
<1>7. \A k \in Keys : Visible(k)' <=> Visible(k)
  BY <1>4 DEF Visible
<1>8. \A q \in Procs \ {p} : Holds(q) => D(q) # D(p) /\ D(q) \in Digests
  BY <1>1, Exclusion, CallFacts DEF Inv, Holds, Staged, InRemoveAll
<1>9. \A q \in Procs \ {p} : Staged(q) => ps[q] # ps[p] /\ ps[q] \in Dirs
  BY <1>1, StagedFacts
<1> USE <1>1, <1>2, <1>3, <1>4, <1>6, SameCalls DEF locals
<1>10. (OpInv /\ AttemptInv)'
  BY DEF Inv, TypeOK, OpInv, AttemptInv, AddOnly, EraseOnly, InRemoveAll, attempts
<1>11. (LockInv /\ StageInv)'
  BY DEF Inv, LockInv, StageInv, Holds
<1>12. (OrphanInv /\ RepoInv /\ FdInv /\ NoLitter)'
  BY DEF Inv, TypeOK, OrphanInv, RepoInv, FdInv, NoLitter
<1>13. NoDupInv'
  BY <1>7, StagedFacts DEF Inv, NoDupInv
<1>14. FillInv'
  BY <1>9 DEF Inv, TypeOK, FillInv, Staged
<1>15. StagedBlobInv'
  <2>1. \A q \in Procs : Linked(q) => Staged(q)
    BY DEF Linked, Staged
  <2>2. \A q \in Procs : Staged(q) => Holds(q)
    BY DEF Holds
  <2> QED BY <2>1, <2>2, <1>8, <1>9 DEF Inv, StagedBlobInv
<1>16. FileInv' /\ RightContent'
  BY <1>7, CallFacts DEF Inv, TypeOK, FileInv, RightContent, Visible
<1>17. OneCopy'
  BY <1>7, CallFacts DEF Inv, TypeOK, OneCopy, Visible
<1>18. RemoveInv' /\ LinkCannotFail'
  BY <1>8 DEF Inv, TypeOK, RemoveInv, LinkCannotFail, Holds, Staged
<1>19. LeftoverIsReplaced' /\ CleanupInv'
  BY DEF Inv, LeftoverIsReplaced, CleanupInv
<1>20. ReclaimInv'
  BY DEF Inv, TypeOK, ReclaimInv, Cleaning, EraseOnly
<1> QED
  BY <1>5, <1>10, <1>11, <1>12, <1>13, <1>14, <1>15, <1>16, <1>17, <1>18, <1>19,
     <1>20 DEF Inv

\* One attempt to move the staged directory into the repo.
LEMMA AddRenameInv ==
  ASSUME Inv, NEW p \in Procs, AddRename(p)
  PROVE  Inv'
<1>1. /\ Staged(p) /\ Linked(p) /\ call[p].op = "add" /\ pc[p] = "rename"
      /\ UNCHANGED call /\ attempt[p] \in 0..(attempts - 1)
  BY DEF AddRename, Staged, Linked, Inv, TypeOK, OpInv, AddOnly, AttemptInv, attempts
<1>2. /\ D(p) \in Digests /\ K(p) \in Keys /\ ps[p] \in Dirs /\ ps[p] # None
      /\ share[D(p)] # None /\ dblob[ps[p]] = share[D(p)] /\ Holds(p)
  BY <1>1, StagedFacts, NoneAssumption DEF Inv, StagedBlobInv
<1>3. attempt' = [attempt EXCEPT ![p] = @ + 1]
  BY DEF AddRename
<1>4. CASE repo[K(p)] # None
  <2>1. /\ pc' = [pc EXCEPT ![p] = "stat"]
        /\ UNCHANGED <<share, content, dblob, labelled, repo, orphans, lock, ps,
                       call, fd, names, file, ret, faults, failed>>
    BY <1>4 DEF AddRename, Continue, Goto
  <2>2. TypeOK'
    BY <1>1, <1>3, <2>1 DEF Inv, TypeOK, PCs, attempts
  <2>3. OpInv' /\ AttemptInv'
    BY <1>1, <1>3, <2>1 DEF Inv, TypeOK, OpInv, AttemptInv, AddOnly, EraseOnly, InRemoveAll
  <2>4. Quiet(p)
    BY <1>1, <1>3, <2>1 DEF Quiet, LockStep, Others, Inv, TypeOK, FdInv, FileInv,
                            Holds, Staged, Linked, InRemoveAll
  <2>5. ReclaimInv'
    BY <1>1, <2>1, ReclaimKept DEF Inv, TypeOK, Cleaning, EraseOnly, D
  <2> QED BY <2>2, <2>3, <2>4, <2>5, QuietStep
<1>5. CASE repo[K(p)] = None
  <2>1. /\ repo' = [repo EXCEPT ![K(p)] = ps[p]]
        /\ ps' = [ps EXCEPT ![p] = None]
        /\ pc' = [pc EXCEPT ![p] = "unlock"]
        /\ ret' = [ret EXCEPT ![p] = "ok"]
        /\ UNCHANGED <<share, content, dblob, labelled, orphans, lock,
                       call, fd, names, file, faults, failed>>
    BY <1>5 DEF AddRename, Answer, Goto
  <2>2. TypeOK'
    BY <1>1, <1>2, <1>3, <2>1 DEF Inv, TypeOK, PCs, Results, attempts
  <2>3. /\ pc'[p] = "unlock" /\ \A q \in Procs \ {p} : pc'[q] = pc[q]
        /\ ps'[p] = None /\ \A q \in Procs \ {p} : ps'[q] = ps[q]
        /\ repo'[K(p)] = ps[p] /\ \A k \in Keys : k # K(p) => repo'[k] = repo[k]
        /\ \A q \in Procs \ {p} : attempt'[q] = attempt[q]
        /\ ~Staged(p)' /\ Holds(p)' /\ ~Linked(p)'
    BY <1>2, <1>3, <2>1 DEF Inv, TypeOK, Staged, Holds, Linked, InRemoveAll
  <2>4. /\ \A k \in Keys : k # K(p) => (Visible(k)' <=> Visible(k))
        /\ ~Visible(K(p))
    BY <2>1, <2>3, <1>5 DEF Visible
  <2>5. /\ ps[p] \notin orphans
        /\ \A k \in Keys : repo[k] # ps[p]
        /\ \A q \in Procs : fd[q] # ps[p] /\ (ps[q] = ps[p] => q = p)
    BY <1>2 DEF Inv, StageInv
  <2>6. \A q \in Procs \ {p} : Holds(q) => K(q) # K(p)
    BY <1>2, Exclusion
  <2>7. \A q \in Procs : Staged(q) => Holds(q) /\ K(q) \in Keys
    BY StagedFacts
  <2> USE <1>1, <1>2, <1>5, <2>1, <2>3, SameCalls
  <2>8. OpInv' /\ AttemptInv'
    BY DEF Inv, TypeOK, OpInv, AttemptInv, AddOnly, EraseOnly, InRemoveAll
  <2>9. LockInv' /\ StageInv'
    BY <2>5 DEF Inv, LockInv, StageInv
  <2>10. OrphanInv' /\ RepoInv'
    BY <2>5 DEF Inv, TypeOK, OrphanInv, RepoInv
  <2>11. FdInv' /\ NoLitter'
    BY <2>5 DEF Inv, TypeOK, FdInv, NoLitter
  <2>12. NoDupInv'
    BY <2>4, <2>6, <2>7 DEF Inv, NoDupInv
  <2>13. FillInv' /\ FileInv'
    BY DEF Inv, FillInv, FileInv
  <2>14. StagedBlobInv'
    BY DEF Inv, StagedBlobInv, Staged, Linked, InRemoveAll
  <2>15. RightContent'
    BY <2>4, CallFacts DEF Inv, TypeOK, RightContent, Visible
  <2>16. OneCopy'
    BY <2>4, CallFacts DEF Inv, TypeOK, OneCopy, Visible
  <2>17. RemoveInv' /\ LinkCannotFail' /\ CleanupInv'
    BY DEF Inv, RemoveInv, LinkCannotFail, CleanupInv
  <2>18. LeftoverIsReplaced'
    BY <2>6, <2>7, CallFacts DEF Inv, LeftoverIsReplaced, Staged
  <2>19. ReclaimInv'
    BY DEF Inv, ReclaimInv, Cleaning, EraseOnly
  <2> QED
    BY <2>2, <2>8, <2>9, <2>10, <2>11, <2>12, <2>13, <2>14, <2>15, <2>16, <2>17,
       <2>18, <2>19 DEF Inv
<1> QED BY <1>4, <1>5

\* A failed Add removes what it staged.
LEMMA AddCleanupInv ==
  ASSUME Inv, NEW p \in Procs, AddCleanup(p)
  PROVE  Inv'
<1>1. /\ Staged(p) /\ pc[p] = "cleanup" /\ UNCHANGED call /\ D(p) \in failed
  BY DEF AddCleanup, Staged, Inv, CleanupInv
<1>2. /\ D(p) \in Digests /\ K(p) \in Keys /\ ps[p] \in Dirs /\ ps[p] # None
      /\ Holds(p)
  BY <1>1, StagedFacts, NoneAssumption
<1>3. /\ dblob' = [dblob EXCEPT ![ps[p]] = None]
      /\ labelled' = labelled \ {ps[p]}
      /\ ps' = [ps EXCEPT ![p] = None]
      /\ pc' = [pc EXCEPT ![p] = "unlock"]
      /\ UNCHANGED <<share, content, repo, orphans, lock, call, fd, names,
                     attempt, file, ret, faults, failed>>
  BY DEF AddCleanup, Continue, Goto
<1>4. TypeOK'
  BY <1>1, <1>2, <1>3 DEF Inv, TypeOK, PCs
<1>5. /\ pc'[p] = "unlock" /\ \A q \in Procs \ {p} : pc'[q] = pc[q]
      /\ ps'[p] = None /\ \A q \in Procs \ {p} : ps'[q] = ps[q]
      /\ dblob'[ps[p]] = None /\ \A x \in Dirs : x # ps[p] => dblob'[x] = dblob[x]
      /\ ~Staged(p)' /\ Holds(p)' /\ ~Linked(p)'
  BY <1>2, <1>3 DEF Inv, TypeOK, Staged, Holds, Linked, InRemoveAll
<1>6. \A k \in Keys : repo[k] # ps[p] /\ (Visible(k)' <=> Visible(k))
  BY <1>2, <1>3, <1>5 DEF Inv, TypeOK, StageInv, Visible
<1>7. \A q \in Procs \ {p} : Staged(q) => ps[q] # ps[p] /\ ps[q] \in Dirs /\ K(q) \in Keys
  BY <1>1, StagedFacts
<1> USE <1>1, <1>2, <1>3, <1>5, SameCalls
<1>8. OpInv' /\ AttemptInv'
  BY DEF Inv, TypeOK, OpInv, AttemptInv, AddOnly, EraseOnly, InRemoveAll
<1>9. LockInv' /\ StageInv'
  BY DEF Inv, LockInv, StageInv
<1>10. OrphanInv' /\ RepoInv' /\ FdInv'
  BY DEF Inv, TypeOK, OrphanInv, RepoInv, FdInv
<1>11. NoLitter'
  BY DEF Inv, TypeOK, NoLitter
<1>12. NoDupInv'
  BY <1>6, <1>7 DEF Inv, NoDupInv
<1>13. FillInv' /\ FileInv'
  BY <1>7 DEF Inv, TypeOK, FillInv, FileInv, Staged
<1>14. StagedBlobInv'
  <2>1. \A q \in Procs : Linked(q) => Staged(q)
    BY DEF Linked, Staged
  <2> QED BY <2>1, <1>7 DEF Inv, StagedBlobInv, Staged
<1>15. RightContent' /\ OneCopy'
  BY <1>6, CallFacts DEF Inv, TypeOK, RightContent, OneCopy, Visible
<1>16. RemoveInv' /\ LinkCannotFail' /\ LeftoverIsReplaced' /\ CleanupInv'
  BY DEF Inv, TypeOK, RemoveInv, LinkCannotFail, LeftoverIsReplaced, CleanupInv
<1>17. ReclaimInv'
  BY DEF Inv, TypeOK, ReclaimInv, StagedBlobInv, Cleaning, EraseOnly
<1> QED
  BY <1>4, <1>8, <1>9, <1>10, <1>11, <1>12, <1>13, <1>14, <1>15, <1>16, <1>17 DEF Inv

-----------------------------------------------------------------------------
(***************************************************************************)
(* os.RemoveAll.                                                           *)
(***************************************************************************)

\* An rmdir of the path that succeeds, because nothing or an empty directory
\* is there.
LEMMA RmdirOk ==
  ASSUME Inv, NEW p \in Procs, pc[p] \in {"rmtry", "rmdir"},
         repo[K(p)] = None \/ Contents(repo[K(p)]) = {},
         repo' = [repo EXCEPT ![K(p)] = None], RemoveAllOk(p),
         UNCHANGED <<share, content, dblob, labelled, orphans, lock, locals, faults>>
  PROVE  Inv'
<1>1. /\ D(p) \in Digests /\ K(p) \in Keys /\ call[p].op \in {"add", "erase"}
      /\ UNCHANGED call /\ call[p] \in Calls
  BY CallFacts DEF Inv, OpInv, InRemoveAll, locals
<1>2. /\ pc' = [pc EXCEPT ![p] = pc'[p]]
      /\ call[p].op = "erase" => pc'[p] = "nlink1"
      /\ call[p].op = "add" => pc'[p] \in {"rename", "cleanup"}
      /\ pc'[p] = "rename" => attempt[p] < attempts
      /\ pc'[p] = "cleanup" => D(p) \in failed'
      /\ failed \subseteq failed' /\ failed' \subseteq Digests
  BY <1>1 DEF RemoveAllOk, Answer, Continue, Goto, Inv, TypeOK, attempts
<1>3. ret' \in [Procs -> Results \cup {None}]
  BY DEF RemoveAllOk, Answer, Continue, Goto, Inv, TypeOK, Results
<1>4. TypeOK'
  <2>1. pc'[p] \in PCs /\ pc'[p] # "idle"
    BY <1>1, <1>2 DEF PCs
  <2>2. pc' \in [Procs -> PCs] /\ repo' \in [Keys -> Dirs \cup {None}]
    BY <1>1, <1>2, <2>1 DEF Inv, TypeOK
  <2>3. \A q \in Procs : pc'[q] # "idle" => call'[q] \in Calls
    BY <1>1, <1>2 DEF Inv, TypeOK
  <2> QED BY <1>1, <1>2, <1>3, <2>2, <2>3 DEF Inv, TypeOK, locals
<1>5. \A k \in Keys : Visible(k)' <=> Visible(k)
  BY <1>1 DEF Inv, TypeOK, Visible, Contents
<1>6. \A q \in Procs \ {p} : pc'[q] = pc[q]
  BY <1>2 DEF Inv, TypeOK
<1>7. /\ Staged(p)' <=> Staged(p)
      /\ Linked(p)' => Linked(p)
      /\ Holds(p)' => Holds(p)
  BY <1>1, <1>2 DEF Staged, Linked, Holds, InRemoveAll
<1>8. repo'[K(p)] = None /\ \A k \in Keys : k # K(p) => repo'[k] = repo[k]
  BY <1>1 DEF Inv, TypeOK
<1> USE <1>1, <1>2, <1>6, <1>7, <1>8, SameCalls DEF locals
<1>9. OpInv' /\ AttemptInv'
  BY DEF Inv, TypeOK, OpInv, AttemptInv, AddOnly, EraseOnly, InRemoveAll
<1>10. LockInv'
  BY DEF Inv, LockInv
<1>11. StageInv' /\ OrphanInv' /\ RepoInv'
  BY NoneAssumption DEF Inv, TypeOK, StageInv, OrphanInv, RepoInv
<1>12. FdInv'
  BY DEF Inv, TypeOK, FdInv
<1>13. NoLitter'
  BY DEF Inv, TypeOK, NoLitter, Contents
<1>14. NoDupInv'
  BY <1>5, StagedFacts DEF Inv, NoDupInv
<1>15. FillInv' /\ FileInv' /\ StagedBlobInv'
  BY DEF Inv, FillInv, FileInv, StagedBlobInv
<1>16. RightContent' /\ OneCopy'
  BY <1>5, CallFacts DEF Inv, TypeOK, RightContent, OneCopy, Visible
<1>17. RemoveInv' /\ LinkCannotFail' /\ CleanupInv'
  BY DEF Inv, RemoveInv, LinkCannotFail, CleanupInv
<1>18. LeftoverIsReplaced'
  BY CallFacts DEF Inv, LeftoverIsReplaced
<1>19. ReclaimInv'
  BY ReclaimKept DEF Cleaning, EraseOnly
<1> QED
  BY <1>4, <1>9, <1>10, <1>11, <1>12, <1>13, <1>14, <1>15, <1>16, <1>17, <1>18,
     <1>19 DEF Inv

\* The rmdir that RemoveAll tries first and the one it ends with.
LEMMA RmdirInv ==
  ASSUME Inv, NEW p \in Procs, RmTry(p) \/ RmDir(p)
  PROVE  Inv'
<1>1. CASE repo[K(p)] = None \/ Contents(repo[K(p)]) = {}
  BY <1>1, RmdirOk DEF RmTry, RmDir
<1>2. CASE ~(repo[K(p)] = None \/ Contents(repo[K(p)]) = {})
  <2> USE <1>2 DEF RmTry, RmDir, RemoveAllError, Answer, Continue, Goto, locals
  <2>1. D(p) \in Digests /\ call[p].op \in {"add", "erase"}
    BY CallFacts DEF Inv, OpInv, InRemoveAll
  <2>2. TypeOK'
    BY <2>1 DEF Inv, TypeOK, PCs, Results
  <2>3. OpInv' /\ AttemptInv'
    BY <2>1 DEF Inv, TypeOK, OpInv, AttemptInv, AddOnly, EraseOnly, InRemoveAll
  <2>4. Quiet(p)
    BY <2>1 DEF Quiet, LockStep, Others, Inv, TypeOK, FdInv, FileInv, Holds, Staged,
                Linked, InRemoveAll
  <2>5. ReclaimInv'
    BY <2>1, ReclaimKept DEF Inv, TypeOK, Cleaning, EraseOnly, D
  <2> QED BY <2>2, <2>3, <2>4, <2>5, QuietStep
<1> QED BY <1>1, <1>2

\* A name that an Add's own RemoveAll unlinks is never the name of a blob.
LEMMA AddUnlinksNoBlob ==
  ASSUME Inv, NEW p \in Procs, pc[p] = "rm", call[p].op = "add", fd[p] # None
  PROVE  dblob[fd[p]] = None
<1>1. Staged(p) /\ K(p) \in Keys /\ ~Visible(K(p)) /\ fd[p] \in Dirs
  BY StagedFacts DEF Staged, InRemoveAll, Inv, NoDupInv, TypeOK
<1>2. fd[p] \notin orphans /\ \A q \in Procs : ps[q] # fd[p]
  BY DEF Inv, OrphanInv, StageInv
<1>3. \A k \in Keys : repo[k] = fd[p] => k = K(p)
  BY DEF Inv, FdInv
<1> QED BY <1>1, <1>2, <1>3 DEF Inv, NoLitter, Visible

\* RemoveAll unlinks one name.
LEMMA RmUnlinkInv ==
  ASSUME Inv, NEW p \in Procs, RmUnlink(p)
  PROVE  Inv'
<1>1. /\ pc[p] = "rm" /\ D(p) \in Digests /\ K(p) \in Keys
      /\ call[p].op \in {"add", "erase"}
  BY CallFacts DEF RmUnlink, Inv, OpInv, InRemoveAll
<1>2. /\ UNCHANGED <<share, content, repo, orphans, lock, pc, call, ps, fd,
                     attempt, file, ret, faults, failed>>
      /\ dblob' = dblob \/ dblob' = [dblob EXCEPT ![fd[p]] = None]
  BY DEF RmUnlink
<1>3. TypeOK'
  <2>1. PICK n \in names[p] :
          /\ names' = [names EXCEPT ![p] = @ \ {n}]
          /\ labelled' = IF n = "labels" THEN labelled \ {fd[p]} ELSE labelled
    BY DEF RmUnlink
  <2>2. names' \in [Procs -> SUBSET {"blob", "labels"}] /\ labelled' \subseteq Dirs
    BY <2>1 DEF Inv, TypeOK
  <2>3. dblob' \in [Dirs -> Inodes \cup {None}]
    BY <1>2 DEF Inv, TypeOK
  <2> QED BY <1>2, <2>2, <2>3 DEF Inv, TypeOK
<1>4. /\ \A x \in Dirs : dblob'[x] = dblob[x] \/ (dblob'[x] = None /\ x = fd[p])
      /\ \A q \in Procs : Staged(q) => dblob'[ps[q]] = dblob[ps[q]]
  BY <1>2, StagedFacts, NoneAssumption DEF Inv, TypeOK, StageInv
<1>5. \A k \in Keys : Visible(k)' => Visible(k) /\ dblob'[repo[k]] = dblob[repo[k]]
  BY <1>2, <1>4 DEF Inv, TypeOK, Visible
<1>6. \A q \in Procs : Linked(q) => Staged(q)
  BY DEF Linked, Staged
<1>7. \A q \in Procs : /\ K(q)' = K(q) /\ D(q)' = D(q) /\ (Staged(q)' <=> Staged(q))
                      /\ (Holds(q)' <=> Holds(q)) /\ (Linked(q)' <=> Linked(q))
                      /\ (Cleaning(q)' <=> Cleaning(q))
  BY <1>2 DEF K, D, Staged, Holds, Linked, Cleaning
<1> USE <1>2, <1>4, <1>7
<1>8. OpInv' /\ AttemptInv' /\ LockInv' /\ StageInv' /\ OrphanInv' /\ RepoInv' /\ FdInv'
  BY DEF Inv, OpInv, AttemptInv, LockInv, StageInv, OrphanInv, RepoInv, FdInv
<1>9. NoLitter'
  BY DEF Inv, TypeOK, NoLitter
<1>10. NoDupInv'
  BY <1>5, StagedFacts DEF Inv, NoDupInv
<1>11. FillInv'
  BY StagedFacts DEF Inv, TypeOK, FillInv, Staged
<1>12. StagedBlobInv'
  BY <1>6 DEF Inv, StagedBlobInv, Staged
<1>13. FileInv' /\ RightContent' /\ OneCopy'
  BY <1>5, CallFacts DEF Inv, FileInv, RightContent, OneCopy, Visible
<1>14. RemoveInv' /\ LinkCannotFail' /\ LeftoverIsReplaced' /\ CleanupInv'
  BY DEF Inv, TypeOK, RemoveInv, LinkCannotFail, LeftoverIsReplaced, CleanupInv
<1>15. ReclaimInv'
  <2>1. CASE dblob' = dblob
    BY <2>1 DEF Inv, ReclaimInv
  <2>2. CASE dblob' # dblob
    <3>1. fd[p] \in Dirs /\ dblob[fd[p]] # None /\ call[p].op = "erase"
      BY <2>2, <1>1, AddUnlinksNoBlob, NoneAssumption DEF Inv, TypeOK
    <3>2. fd[p] # None /\ fd[p] \notin orphans /\ \A q \in Procs : ps[q] # fd[p]
      BY <3>1, NoneAssumption DEF Inv, OrphanInv, StageInv
    <3>3. repo[K(p)] = fd[p]
      BY <3>1, <3>2 DEF Inv, NoLitter, FdInv
    <3>4. Visible(K(p)) /\ content[dblob[fd[p]]] = D(p)
      BY <3>1, <3>2, <3>3, <1>1, CallFacts
      DEF Inv, RightContent, Visible, K, D, Keys
    <3>5. \A d \in Digests : dblob[fd[p]] = share[d] => d = D(p)
      BY <3>1, <3>4 DEF Inv, RightContent
    <3>6. Cleaning(p)
      BY <1>1, <3>1 DEF Cleaning
    <3> QED BY <3>5, <3>6 DEF Inv, TypeOK, ReclaimInv
  <2> QED BY <2>1, <2>2
<1> QED
  BY <1>3, <1>8, <1>9, <1>10, <1>11, <1>12, <1>13, <1>14, <1>15 DEF Inv

\* tryCleanup removes the shared name.
LEMMA EraseRemoveInv ==
  ASSUME Inv, NEW p \in Procs, EraseRemove(p)
  PROVE  Inv'
<1>1. pc[p] = "remove" /\ D(p) \in Digests /\ UNCHANGED call /\ Holds(p) /\ ~Staged(p)
  BY CallFacts DEF EraseRemove, Inv, locals, Holds, Staged, InRemoveAll
<1>2. /\ share' = [share EXCEPT ![D(p)] = None]
      /\ pc' = [pc EXCEPT ![p] = "unlock"]
      /\ UNCHANGED <<content, dblob, labelled, repo, orphans, lock, locals,
                     ret, faults, failed>>
  BY DEF EraseRemove, Continue, Goto
<1>3. TypeOK'
  BY <1>1, <1>2 DEF Inv, TypeOK, PCs, locals
<1>4. /\ pc'[p] = "unlock" /\ \A q \in Procs \ {p} : pc'[q] = pc[q]
      /\ ~Staged(p)' /\ Holds(p)' /\ ~Linked(p)'
      /\ share'[D(p)] = None /\ \A d \in Digests : d # D(p) => share'[d] = share[d]
  BY <1>1, <1>2 DEF Inv, TypeOK, Staged, Holds, Linked, InRemoveAll
<1>5. \A k \in Keys : Visible(k)' <=> Visible(k)
  BY <1>2 DEF Visible
<1>6. \A q \in Procs \ {p} : Holds(q) => D(q) # D(p) /\ D(q) \in Digests
  BY <1>1, Exclusion, CallFacts DEF Inv, Holds, Staged, InRemoveAll
<1>7. \A q \in Procs : (Linked(q) => Staged(q)) /\ (Staged(q) => Holds(q))
  BY DEF Linked, Staged, Holds
<1> USE <1>1, <1>2, <1>4, SameCalls DEF locals
<1>8. OpInv' /\ AttemptInv'
  BY DEF Inv, TypeOK, OpInv, AttemptInv, AddOnly, EraseOnly, InRemoveAll
<1>9. LockInv' /\ StageInv' /\ OrphanInv' /\ RepoInv' /\ FdInv' /\ NoLitter'
  BY DEF Inv, LockInv, StageInv, OrphanInv, RepoInv, FdInv, NoLitter
<1>10. NoDupInv'
  BY <1>5, StagedFacts DEF Inv, NoDupInv
<1>11. FillInv' /\ FileInv'
  BY DEF Inv, FillInv, FileInv
<1>12. StagedBlobInv'
  BY <1>6, <1>7 DEF Inv, StagedBlobInv
<1>13. RightContent'
  BY <1>5, CallFacts DEF Inv, RightContent, Visible
<1>14. OneCopy'
  BY <1>5, CallFacts DEF Inv, TypeOK, OneCopy, RemoveInv, Visible
<1>15. RemoveInv' /\ LinkCannotFail'
  BY <1>6 DEF Inv, RemoveInv, LinkCannotFail, Holds, Staged
<1>16. LeftoverIsReplaced' /\ CleanupInv'
  BY DEF Inv, LeftoverIsReplaced, CleanupInv
<1>17. ReclaimInv'
  BY DEF Inv, ReclaimInv, Cleaning
<1> QED
  BY <1>3, <1>8, <1>9, <1>10, <1>11, <1>12, <1>13, <1>14, <1>15, <1>16, <1>17 DEF Inv

-----------------------------------------------------------------------------
(***************************************************************************)
(* The process of a call dies.                                             *)
(***************************************************************************)
LEMMA CrashInv ==
  ASSUME Inv, NEW p \in Procs, Crash(p)
  PROVE  Inv'
<1>1. pc[p] \notin {"idle", "done"} /\ D(p) \in Digests
  BY CallFacts DEF Crash, Inv
<1>2. TypeOK'
  BY <1>1, FaultsAssumption DEF Crash, Fault, Goto, Inv, TypeOK, PCs, attempts
<1>3. /\ pc'[p] = "idle" /\ ps'[p] = None /\ fd'[p] = None /\ attempt'[p] = 0
      /\ \A q \in Procs \ {p} : /\ pc'[q] = pc[q] /\ ps'[q] = ps[q] /\ fd'[q] = fd[q]
                                /\ attempt'[q] = attempt[q] /\ call'[q] = call[q]
      /\ lock' = [d \in Digests |-> IF lock[d] = p THEN None ELSE lock[d]]
      /\ orphans' = IF ps[p] # None THEN orphans \cup {ps[p]} ELSE orphans
      /\ failed' = failed \cup {D(p)}
      /\ UNCHANGED <<share, content, dblob, repo, file>>
  BY DEF Crash, Goto, Inv, TypeOK
<1>4. \A q \in Procs \ {p} :
        /\ K(q)' = K(q) /\ D(q)' = D(q)
        /\ Staged(q)' <=> Staged(q)
        /\ Holds(q)' <=> Holds(q)
        /\ Linked(q)' <=> Linked(q)
        /\ Cleaning(q)' <=> Cleaning(q)
  BY <1>3 DEF K, D, Staged, Holds, Linked, Cleaning
<1>5. ~Staged(p)' /\ ~Holds(p)' /\ ~Linked(p)' /\ ~Cleaning(p)'
  BY <1>3 DEF Staged, Holds, Linked, Cleaning, InRemoveAll, EraseOnly
<1>6. \A k \in Keys : Visible(k)' <=> Visible(k)
  BY <1>3 DEF Visible
<1>7. \A q \in Procs : Holds(q) => D(q) \in Digests
  BY CallFacts DEF Inv, Holds, Staged, InRemoveAll
<1>8. file[p] = None
  BY <1>1 DEF Inv, FileInv
<1> USE <1>3, <1>4, <1>5
<1>9. OpInv' /\ AttemptInv'
  BY DEF Inv, OpInv, AttemptInv, AddOnly, EraseOnly, InRemoveAll
<1>10. LockInv'
  BY <1>7 DEF Inv, LockInv
<1>11. StageInv'
  BY NoneAssumption DEF Inv, TypeOK, StageInv
<1>12. OrphanInv'
  BY NoneAssumption DEF Inv, TypeOK, OrphanInv, StageInv
<1>13. RepoInv' /\ FdInv'
  BY DEF Inv, RepoInv, FdInv
<1>14. NoLitter'
  BY NoneAssumption DEF Inv, TypeOK, NoLitter
<1>15. NoDupInv'
  BY <1>6, StagedFacts DEF Inv, NoDupInv
<1>16. FillInv' /\ FileInv' /\ StagedBlobInv'
  BY <1>8 DEF Inv, FillInv, FileInv, StagedBlobInv
<1>17. RightContent' /\ OneCopy'
  BY <1>6, <1>8, CallFacts DEF Inv, RightContent, OneCopy, Visible
<1>18. RemoveInv' /\ LinkCannotFail' /\ LeftoverIsReplaced' /\ CleanupInv'
  BY DEF Inv, RemoveInv, LinkCannotFail, LeftoverIsReplaced, CleanupInv
<1>19. ReclaimInv'
  BY DEF Inv, ReclaimInv
<1> QED
  BY <1>2, <1>9, <1>10, <1>11, <1>12, <1>13, <1>14, <1>15, <1>16, <1>17, <1>18,
     <1>19 DEF Inv

-----------------------------------------------------------------------------
(***************************************************************************)
(* The invariant, and what follows from it.                                *)
(***************************************************************************)
LEMMA InitInv == Init => Inv
<1> SUFFICES ASSUME Init PROVE Inv
  OBVIOUS
<1> USE DEF Init
<1>1. TypeOK
  BY FaultsAssumption DEF TypeOK, PCs, attempts
<1>2. \A p \in Procs : ~Staged(p) /\ ~Holds(p) /\ ~Linked(p)
  BY DEF Staged, Holds, Linked, InRemoveAll
<1>3. OpInv /\ AttemptInv /\ LockInv /\ StageInv /\ OrphanInv /\ RepoInv /\ FdInv
  BY <1>2 DEF OpInv, AttemptInv, LockInv, StageInv, OrphanInv, RepoInv, FdInv,
              AddOnly, EraseOnly, InRemoveAll
<1>4. NoLitter /\ NoDupInv /\ FillInv /\ StagedBlobInv /\ FileInv
  BY <1>2 DEF NoLitter, NoDupInv, FillInv, StagedBlobInv, FileInv
<1>5. RightContent /\ OneCopy
  BY DEF RightContent, OneCopy, Visible, Keys
<1>6. RemoveInv /\ LinkCannotFail /\ LeftoverIsReplaced /\ CleanupInv /\ ReclaimInv
  BY DEF RemoveInv, LinkCannotFail, LeftoverIsReplaced, CleanupInv, ReclaimInv
<1> QED BY <1>1, <1>3, <1>4, <1>5, <1>6 DEF Inv

\* A stuttering step keeps the invariant.
LEMMA StutterInv ==
  ASSUME Inv, UNCHANGED vars
  PROVE  Inv'
<1> USE DEF vars, disk, locals
<1>1. (TypeOK /\ OpInv /\ AttemptInv /\ LockInv /\ StageInv /\ OrphanInv)'
  BY DEF Inv, TypeOK, OpInv, AttemptInv, LockInv, StageInv, OrphanInv, Holds, Staged, D
<1>2. (RepoInv /\ FdInv /\ NoLitter /\ NoDupInv /\ FillInv /\ StagedBlobInv)'
  BY DEF Inv, RepoInv, FdInv, NoLitter, NoDupInv, FillInv, StagedBlobInv, Linked,
         Staged, Visible, K, D
<1>3. (FileInv /\ RightContent /\ OneCopy /\ RemoveInv)'
  BY DEF Inv, FileInv, RightContent, OneCopy, RemoveInv, Visible, D
<1>4. (LinkCannotFail /\ LeftoverIsReplaced /\ CleanupInv /\ ReclaimInv)'
  BY DEF Inv, LinkCannotFail, LeftoverIsReplaced, CleanupInv, ReclaimInv, Cleaning, K, D
<1> QED BY <1>1, <1>2, <1>3, <1>4 DEF Inv

\* Every step keeps the invariant.
LEMMA NextInv == Inv /\ [Next]_vars => Inv'
<1> SUFFICES ASSUME Inv, [Next]_vars PROVE Inv'
  OBVIOUS
<1>1. CASE UNCHANGED vars
  BY <1>1, StutterInv
<1>2. ASSUME NEW p \in Procs, Invoke(p) \/ Return(p) PROVE Inv'
  BY <1>2, InvokeInv, ReturnInv
<1>3. ASSUME NEW p \in Procs, AddStep(p) PROVE Inv'
  BY <1>3, LooksInv, LockedInv, AddDupInv, AddShareInv, AddLinkInv, AddCopyInv,
     AddPublishInv, AddRenameInv, AddStatInv, AddCleanupInv DEF AddStep, Looks
<1>4. ASSUME NEW p \in Procs, RemoveAllStep(p) PROVE Inv'
  BY <1>4, RmdirInv, RmOpenInv, RmUnlinkInv, RmCloseInv DEF RemoveAllStep
<1>5. ASSUME NEW p \in Procs, EraseStep(p) PROVE Inv'
  BY <1>5, EraseCheckInv, LockedInv, EraseRecheckInv, EraseRemoveInv DEF EraseStep
<1>6. ASSUME NEW p \in Procs, LabelStep(p) \/ OpenStep(p) \/ Refuse(p) PROVE Inv'
  BY <1>6, LooksInv DEF LabelStep, OpenStep, Looks
<1>7. ASSUME NEW p \in Procs, Unlock(p) PROVE Inv'
  BY <1>7, LockedInv
<1>8. ASSUME NEW p \in Procs, Cancel(p) \/ IoError(p) \/ Crash(p) PROVE Inv'
  BY <1>8, CancelInv, IoErrorInv, CrashInv
<1> QED BY <1>1, <1>2, <1>3, <1>4, <1>5, <1>6, <1>7, <1>8 DEF Next, Step

\* The inductive invariant holds in every reachable state of OsStores.
THEOREM Invariance == Spec => []Inv
<1>1. Init => Inv
  BY InitInv
<1>2. Inv /\ [Next]_vars => Inv'
  BY NextInv
<1> QED BY <1>1, <1>2, PTL DEF Spec

\* Type correctness of OsStores.
THEOREM TypeCorrect == Spec => []TypeOK
<1>1. Inv => TypeOK
  BY DEF Inv
<1> QED BY <1>1, Invariance, PTL

\* For any number of stores, digests, callers and faults, what a digest names
\* is the whole content of that digest.
THEOREM ContentSafe == Spec => []RightContent
<1>1. Inv => RightContent
  BY DEF Inv
<1> QED BY <1>1, Invariance, PTL

\* On Linux no interleaving of Adds and Erases separates an entry from the
\* shared blob: the recheck of nlink under the lock is enough.
THEOREM DedupSafe == Spec => []OneCopy
<1>1. Inv => OneCopy
  BY DEF Inv
<1> QED BY <1>1, Invariance, PTL

\* The two os.Link calls of Add cannot fail for a race: the blob lock keeps the
\* shared name as os.Stat(pd) found it.
THEOREM LinksSucceed == Spec => []LinkCannotFail
<1>1. Inv => LinkCannotFail
  BY DEF Inv
<1> QED BY <1>1, Invariance, PTL

\* The os.Rename that follows the removal of a leftover directory succeeds, whatever
\* Erases and Labels of the entry, which hold no lock, do at that time.
THEOREM LeftoversGo == Spec => []LeftoverIsReplaced
<1>1. Inv => LeftoverIsReplaced
  BY DEF Inv
<1> QED BY <1>1, Invariance, PTL

\* A shared blob without entries is always accounted for by an Erase that is
\* still running or by a call that failed.
THEOREM SpaceReclaimed == Spec => []Reclaimed
<1>1. Inv => Reclaimed
  BY DEF Inv, ReclaimInv, Reclaimed, Cleaning, EraseOnly
<1> QED BY <1>1, Invariance, PTL

\* For any number of stores, digests, callers and faults, no link to a blob is left
\* where neither an Erase nor an Add under way would remove it, but by a crash.
THEOREM LinksTidy == Spec => []NoLitter
<1>1. Inv => NoLitter
  BY DEF Inv
<1> QED BY <1>1, Invariance, PTL

-----------------------------------------------------------------------------
(***************************************************************************)
(* Entries stay until they are erased.                                     *)
(***************************************************************************)

\* A step that leaves blob links and digest directories alone.
LEMMA SameEntries ==
  ASSUME UNCHANGED <<dblob, repo>>, NEW k \in Keys
  PROVE  EntryStays(k)
BY DEF EntryStays, Visible

\* Writing the staged directory of p touches no entry.
LEMMA StagingKeepsEntries ==
  ASSUME Inv, NEW p \in Procs, NEW k \in Keys, Staged(p), UNCHANGED repo,
         dblob' = dblob \/ \E i \in Inodes \cup {None} : dblob' = [dblob EXCEPT ![ps[p]] = i]
  PROVE  EntryStays(k)
<1>1. repo[k] # ps[p]
  BY StagedFacts, NoneAssumption DEF Inv, StageInv
<1> QED BY <1>1 DEF Inv, TypeOK, EntryStays, Visible

\* Every step keeps the visible entries, but for the unlinks of an Erase of the entry.
LEMMA NextKeepsEntries ==
  ASSUME Inv, [Next]_vars, NEW k \in Keys
  PROVE  EntryStays(k)
<1> USE DEF disk, locals
<1>1. CASE UNCHANGED vars
  BY <1>1, SameEntries DEF vars
<1>2. ASSUME NEW p \in Procs, AddShare(p) \/ AddLink(p) \/ AddCleanup(p)
      PROVE  EntryStays(k)
  <2>1. Staged(p) /\ UNCHANGED repo
    BY <1>2 DEF AddShare, AddLink, AddCleanup, Staged
  <2>2. share[D(p)] \in Inodes \cup {None}
    BY <2>1, StagedFacts DEF Inv, TypeOK
  <2>3. dblob' = dblob \/ \E i \in Inodes \cup {None} : dblob' = [dblob EXCEPT ![ps[p]] = i]
    BY <1>2, <2>2 DEF AddShare, AddLink, AddCleanup, FreeInodes
  <2> QED BY <2>1, <2>3, StagingKeepsEntries
<1>3. ASSUME NEW p \in Procs, AddRename(p)
      PROVE  EntryStays(k)
  <2>1. UNCHANGED dblob /\ (UNCHANGED repo \/ repo[K(p)] = None)
    BY <1>3 DEF AddRename
  <2>2. Visible(k) => repo'[k] = repo[k]
    BY <1>3, <2>1 DEF AddRename, Inv, TypeOK, Visible
  <2> QED BY <2>1, <2>2 DEF EntryStays, Visible
<1>4. ASSUME NEW p \in Procs, RmTry(p) \/ RmDir(p)
      PROVE  EntryStays(k)
  <2>1. UNCHANGED dblob
    BY <1>4 DEF RmTry, RmDir
  <2>2. Visible(k) => repo'[k] = repo[k]
    BY <1>4 DEF RmTry, RmDir, Inv, TypeOK, Visible, Contents
  <2> QED BY <2>1, <2>2 DEF EntryStays, Visible
<1>5. ASSUME NEW p \in Procs, RmUnlink(p)
      PROVE  EntryStays(k)
  <2>1. /\ pc[p] = "rm" /\ UNCHANGED repo
        /\ dblob' = dblob \/ dblob' = [dblob EXCEPT ![fd[p]] = None]
    BY <1>5 DEF RmUnlink
  <2>2. call[p].op \in {"add", "erase"}
    BY <2>1 DEF Inv, OpInv, InRemoveAll
  <2>3. CASE repo[k] = fd[p] /\ Visible(k)
    <3>1. K(p) = k /\ call[p].op = "erase"
      BY <2>1, <2>2, <2>3, AddUnlinksNoBlob DEF Inv, FdInv, Visible
    <3> QED BY <2>1, <3>1 DEF EntryStays
  <2>4. CASE repo[k] # fd[p] \/ ~Visible(k)
    BY <2>1, <2>4 DEF Inv, TypeOK, EntryStays, Visible
  <2> QED BY <2>3, <2>4
<1>6. ASSUME NEW p \in Procs,
             \/ Invoke(p) \/ Return(p) \/ Refuse(p) \/ AddGiven(p) \/ AddRead(p)
             \/ AddLock(p) \/ AddDup(p) \/ AddCopy(p) \/ AddPublish(p) \/ AddStat(p)
             \/ RmOpen(p) \/ RmClose(p) \/ EraseStep(p) \/ LabelStep(p) \/ OpenStep(p)
             \/ Unlock(p) \/ Cancel(p) \/ IoError(p) \/ Crash(p)
      PROVE  EntryStays(k)
  <2>1. UNCHANGED <<dblob, repo>>
    BY <1>6 DEF Invoke, Return, Refuse, AddGiven, AddRead, AddLock, AddDup, AddCopy,
       AddPublish, AddStat, RmOpen, RmClose, EraseStep, EraseCheck, EraseLock,
       EraseRecheck, EraseRemove, LabelStep, LabelStat, LabelRename, OpenStep,
       OpenStat, OpenLabels, OpenBlob, Unlock, Cancel, IoError, Crash
  <2> QED BY <2>1, SameEntries
<1> QED
  BY <1>1, <1>2, <1>3, <1>4, <1>5, <1>6 DEF Next, Step, AddStep, RemoveAllStep

\* An entry keeps its blob until an Erase of that entry unlinks it.
THEOREM EntriesStay == Spec => OnlyEraseHides
<1>1. Inv /\ [Next]_vars => [\A k \in Keys : EntryStays(k)]_vars
  BY NextKeepsEntries
<1> QED BY <1>1, Invariance, PTL DEF Spec, OnlyEraseHides

-----------------------------------------------------------------------------
(***************************************************************************)
(* The refinement of StoreContract.                                        *)
(***************************************************************************)

\* Whether the key of p exists now.
Now(p) == Contract!Presence(Target(call[p]), Present)

\* Where the outcome of a call can be known before its end.
Settled == EraseOnly \cup {"cleanup", "unlock", "done"}

\* The stage of a call goes with its arguments and with its outcome.
InStage(p) ==
    /\ pc[p] = "idle" => call[p] = None
    /\ pc[p] # "idle" => Sensible(call[p])
    /\ pc[p] = "refuse" => ~call[p].wellformed
    /\ pc[p] \notin {"idle", "refuse", "done"} => call[p].wellformed
    /\ pc[p] \notin {"idle", "refuse", "given", "read", "done"} =>
         call[p].given \in {None, call[p].d}
    /\ pc[p] \in {"lstat", "relabel"} => call[p].op = "label"
    /\ pc[p] \in {"ostat", "olabels", "oblob"} => call[p].op \in {"get", "open"}
    /\ pc[p] \notin Settled => ret[p] = None
    /\ pc[p] \in EraseOnly => ret[p] = "ok"
    /\ pc[p] = "cleanup" => ret[p] = "error"
    /\ pc[p] = "unlock" => \/ call[p].op = "erase" /\ ret[p] = "ok"
                           \/ call[p].op = "add" /\ ret[p] \in {"ok", "exists", "error"}

\* What a call under way relies on having found, and will answer with.
Relies(p, w) ==
    CASE w = "present" -> \/ pc[p] \in {"relabel", "olabels"}
                          \/ pc[p] = "unlock" /\ ret[p] = "exists"
      [] w = "absent"  -> \/ pc[p] \in EraseOnly
                          \/ pc[p] = "unlock" /\ call[p].op = "erase"

\* The history of a call has what is the case now, and what the call relies on.
Witnessed(p) ==
    /\ pc[p] = "idle" => seen[p] = {}
    /\ pc[p] # "idle" => Now(p) \in seen[p]
    /\ \A w \in {"present", "absent"} : Relies(p, w) => w \in seen[p]

InvH ==
    /\ Inv
    /\ seen \in [Procs -> SUBSET {"present", "absent"}]
    /\ \A p \in Procs : InStage(p) /\ Witnessed(p)

\* The vocabulary of the contract is that of the store.
LEMMA Vocabulary ==
  /\ Contract!Calls = Calls /\ Contract!Results = Results
  /\ \A c : Contract!Target(c) = Target(c) /\ (Contract!Sensible(c) <=> Sensible(c))
BY DEF Contract!Calls, Calls, Contract!Results, Results, Contract!Target, Target,
       Contract!Sensible, Sensible

\* Past its first look the digest of a call is that of its content, and the entry of
\* K(p) is the key that the contract speaks of.
LEMMA KeyOfCall ==
  ASSUME InvH, NEW p \in Procs, pc[p] \notin {"idle", "refuse", "given", "read", "done"}
  PROVE  /\ K(p) = Target(call[p]) /\ K(p) \in Keys
         /\ K(p) \in Present <=> Visible(K(p))
         /\ call[p].wellformed /\ call[p] \in Calls
BY CallFacts DEF InvH, Inv, InStage, Target, K, Present

\* What a call finds of its key is in its history.
LEMMA Finds ==
  ASSUME InvH, NEW p \in Procs, pc[p] # "idle"
  PROVE  IF Target(call[p]) \in Present THEN "present" \in seen[p] ELSE "absent" \in seen[p]
BY DEF InvH, Witnessed, Now, Contract!Presence

\* What a step of p leaves alone: the calls of the others.
Alone(p) == \A q \in Procs \ {p} : pc'[q] = pc[q]

\* The history after a step within the calls is what the contract makes of it.
LEMMA Becoming ==
  ASSUME InvH, NextH, NEW p \in Procs, Alone(p), UNCHANGED call,
         pc[p] # "idle", pc'[p] # "idle"
  PROVE  Contract!Becomes(Present') /\ (Present' = Present => seen' = seen)
<1>1. \A q \in Procs : pc'[q] = "idle" <=> pc[q] = "idle"
  BY DEF Alone
<1>2. \A q \in Procs : (call[q] = None <=> pc[q] = "idle") /\ (pc[q] = "idle" => seen[q] = {})
  BY NothingAssumption DEF InvH, Inv, TypeOK, InStage, Witnessed
<1>3. seen' = [q \in Procs |-> IF call[q] = None THEN seen[q]
                ELSE seen[q] \cup {Contract!Presence(Contract!Target(call[q]), Present')}]
  BY <1>1, <1>2, Vocabulary DEF NextH, Contract!Presence
<1>4. ASSUME Present' = Present PROVE seen' = seen
  <2>1. \A q \in Procs : pc[q] # "idle" => Now(q) \in seen[q]
    BY DEF InvH, Witnessed
  <2>2. \A q \in Procs : seen'[q] = seen[q]
    BY <1>1, <1>2, <1>4, <2>1 DEF NextH, Now, Contract!Presence
  <2> QED BY <2>2 DEF InvH, NextH
<1> QED BY <1>3, <1>4 DEF Contract!Becomes

\* The outcome of p stays as it is, or becomes known and is not the success of an Add.
Settles(p) ==
    \/ UNCHANGED ret
    \/ \E r \in Results : /\ ret' = [ret EXCEPT ![p] = r] /\ ret[p] = None
                          /\ r = "ok" => call[p].op # "add"

\* Such a step makes no caller one whose Add has taken effect.
LEMMA NoneDid ==
  ASSUME InvH, NEW p \in Procs, UNCHANGED call, Settles(p)
  PROVE  Did' = Did
<1>1. \A q \in Procs : q \in Did' <=> q \in Did
  BY NothingAssumption DEF Did, Results, Settles, InvH, Inv, TypeOK
<1> QED BY <1>1 DEF Did

\* A step of p that changes no key and does not end its call is none of the contract.
LEMMA Stutters ==
  ASSUME InvH, NextH, NEW p \in Procs, pc[p] \notin {"idle", "done"}, UNCHANGED call,
         Present' = Present, NEW l \in PCs \ {"idle", "done"}, Goto(p, l), Settles(p)
  PROVE  UNCHANGED Contract!vars
<1> USE DEF Goto, InvH, Inv, TypeOK
<1>1. Alone(p) /\ pc'[p] = l
  BY DEF Alone
<1>2. seen' = seen /\ Did' = Did
  BY <1>1, Becoming, NoneDid
<1>3. Answers' = Answers
  BY DEF Answers, Settles
<1> QED BY <1>2, <1>3 DEF Contract!vars

\* A step of p that changes no key and ends its call is an answer of the contract.
LEMMA Replies ==
  ASSUME InvH, NextH, NEW p \in Procs, pc[p] \notin {"idle", "done"}, UNCHANGED call,
         Present' = Present, Goto(p, "done"), Settles(p),
         ret'[p] \in Results, Contract!Justified(p, ret'[p])
  PROVE  Contract!Next
<1> USE DEF Goto, InvH, Inv, TypeOK
<1>1. Alone(p) /\ pc'[p] = "done"
  BY DEF Alone
<1>2. seen' = seen /\ Did' = Did
  BY <1>1, Becoming, NoneDid
<1>3. Answers[p] = None /\ Answers' = [Answers EXCEPT ![p] = ret'[p]]
  BY DEF Answers, Settles
<1>4. call[p] # None
  BY NothingAssumption
<1>5. Contract!Reply(p)
  BY <1>2, <1>3, <1>4, Vocabulary DEF Contract!Reply
<1> QED BY <1>5 DEF Contract!Next

\* The steps that write no digest directory, and those that write only a staged one,
\* an empty one or one that is off every path, change no key.
LEMMA Hidden ==
  ASSUME Inv, NEW p \in Procs,
         \/ UNCHANGED <<dblob, repo>>
         \/ Staged(p) /\ UNCHANGED repo /\ \E i : dblob' = [dblob EXCEPT ![ps[p]] = i]
         \/ /\ repo' = [repo EXCEPT ![K(p)] = None] /\ UNCHANGED dblob
            /\ pc[p] # "idle" /\ ~Visible(K(p))
         \/ /\ UNCHANGED repo /\ dblob' = [dblob EXCEPT ![fd[p]] = None]
            /\ pc[p] = "rm" /\ (fd[p] = None \/ dblob[fd[p]] = None)
  PROVE  Present' = Present
<1>1. ASSUME NEW k \in Keys PROVE Visible(k)' <=> Visible(k)
  <2>1. CASE UNCHANGED <<dblob, repo>>
    BY <2>1 DEF Visible
  <2>2. CASE Staged(p) /\ UNCHANGED repo /\ \E i : dblob' = [dblob EXCEPT ![ps[p]] = i]
    <3>1. repo[k] # ps[p]
      BY <2>2, StagedFacts, NoneAssumption DEF Inv, StageInv
    <3> QED BY <2>2, <3>1 DEF Visible, Inv, TypeOK
  <2>3. CASE /\ repo' = [repo EXCEPT ![K(p)] = None] /\ UNCHANGED dblob
             /\ pc[p] # "idle" /\ ~Visible(K(p))
    BY <2>3 DEF Visible, Inv, TypeOK
  <2>4. CASE /\ UNCHANGED repo /\ dblob' = [dblob EXCEPT ![fd[p]] = None]
             /\ pc[p] = "rm" /\ (fd[p] = None \/ dblob[fd[p]] = None)
    BY <2>4, NoneAssumption DEF Visible, Inv, TypeOK
  <2> QED BY <2>1, <2>2, <2>3, <2>4
<1> QED BY <1>1 DEF Present

\* The first steps of Add, before it has the lock, are steps of the contract.
LEMMA AddLooksRefine ==
  ASSUME InvH, NextH, NEW p \in Procs, AddGiven(p) \/ AddRead(p)
  PROVE  [Contract!Next]_Contract!vars
<1> USE DEF disk, locals, Answer, Continue
<1>0. /\ pc[p] \in {"given", "read"} /\ call[p].op = "add" /\ call[p].wellformed
      /\ call[p] \in Calls /\ ret[p] = None /\ p \notin Did
  <2>1. pc[p] \in {"given", "read"}
    BY DEF AddGiven, AddRead
  <2> QED BY <2>1, NothingAssumption, CallFacts
      DEF InvH, Inv, OpInv, AddOnly, InStage, Settled, EraseOnly, Did, Results
<1>1. Present' = Present /\ UNCHANGED call
  BY Hidden DEF AddGiven, AddRead, InvH
<1>2. ASSUME NEW r \in {"exists", "mismatch"}, Answer(p, r, "done"), Contract!Justified(p, r)
      PROVE  Contract!Next
  <2>1. ret' = [ret EXCEPT ![p] = r] /\ ret'[p] = r
    BY <1>2 DEF InvH, Inv, TypeOK
  <2>2. Settles(p)
    BY <1>0, <2>1 DEF Settles, Results
  <2> QED BY <1>0, <1>1, <1>2, <2>1, <2>2, Replies DEF Results
<1>3. ASSUME Continue(p, "read") \/ Continue(p, "lock")
      PROVE  UNCHANGED Contract!vars
  BY <1>0, <1>1, <1>3, Stutters DEF PCs, Settles
<1>4. ASSUME Target(call[p]) \in Present PROVE Contract!Justified(p, "exists")
  BY <1>0, <1>4, Finds DEF Contract!Justified
<1>5. CASE AddGiven(p)
  <2>1. CASE call[p].given # None /\ checkDup(<<call[p].s, call[p].given>>)
    <3>1. Target(call[p]) \in Present
      BY <1>0, <2>1 DEF checkDup, Target, Present, Keys, Calls
    <3> QED BY <1>2, <1>4, <1>5, <2>1, <3>1 DEF AddGiven
  <2>2. CASE ~(call[p].given # None /\ checkDup(<<call[p].s, call[p].given>>))
    BY <1>3, <1>5, <2>2 DEF AddGiven
  <2> QED BY <2>1, <2>2
<1>6. CASE AddRead(p)
  <2>1. CASE call[p].given = None /\ checkDup(K(p))
    <3>1. Target(call[p]) \in Present
      BY <1>0, <2>1 DEF checkDup, K, Target, Present, Keys, Calls
    <3> QED BY <1>2, <1>4, <1>6, <2>1, <3>1 DEF AddRead
  <2>2. CASE call[p].given \notin {None, D(p)}
    <3>1. Contract!Justified(p, "mismatch")
      BY <1>0, <2>2 DEF Contract!Justified, D
    <3>2. Answer(p, "mismatch", "done")
      BY <1>6, <2>2 DEF AddRead
    <3> QED BY <1>2, <3>1, <3>2
  <2>3. CASE ~(call[p].given = None /\ checkDup(K(p))) /\ ~(call[p].given \notin {None, D(p)})
    BY <1>3, <1>6, <2>3 DEF AddRead
  <2> QED BY <2>1, <2>2, <2>3
<1> QED BY <1>5, <1>6

\* Nothing that Add does under the lock is seen outside, but for the rename that
\* publishes its directory.
LEMMA AddHidden ==
  ASSUME InvH, NextH, NEW p \in Procs,
         \/ AddLock(p) \/ AddDup(p) \/ AddShare(p) \/ AddLink(p) \/ AddCopy(p)
         \/ AddPublish(p) \/ AddStat(p) \/ AddCleanup(p)
         \/ AddRename(p) /\ repo[K(p)] # None
  PROVE  UNCHANGED Contract!vars
<1> USE DEF disk, locals, Answer, Continue
<1>1. pc[p] \in {"lock", "dup", "share", "link", "copy", "publish", "rename", "stat", "cleanup"}
      /\ UNCHANGED call
  BY DEF AddLock, AddDup, AddShare, AddLink, AddCopy, AddPublish, AddStat, AddCleanup, AddRename
<1>2. Present' = Present
  <2>1. CASE AddShare(p) \/ AddLink(p) \/ AddCleanup(p)
    <3>1. Staged(p)
      BY <2>1 DEF AddShare, AddLink, AddCleanup, Staged
    <3> QED BY <2>1, <3>1, Hidden DEF AddShare, AddLink, AddCleanup, InvH
  <2>2. CASE ~(AddShare(p) \/ AddLink(p) \/ AddCleanup(p))
    BY <2>2, Hidden DEF AddLock, AddDup, AddCopy, AddPublish, AddStat, AddRename, InvH
  <2> QED BY <2>1, <2>2
<1>3. ret[p] = None \/ AddCleanup(p)
  BY <1>1 DEF InvH, InStage, Settled, EraseOnly, AddLock, AddDup, AddShare, AddLink, AddCopy,
     AddPublish, AddStat, AddRename
<1>4. Settles(p)
  BY <1>3 DEF Settles, Results, AddLock, AddDup, AddShare, AddLink, AddCopy, AddPublish,
     AddStat, AddCleanup, AddRename
<1>5. \E l \in PCs \ {"idle", "done"} : Goto(p, l)
  BY DEF PCs, AddLock, AddDup, AddShare, AddLink, AddCopy, AddPublish, AddStat, AddCleanup,
     AddRename
<1> QED BY <1>1, <1>2, <1>4, <1>5, Stutters

\* The rename that finds no directory in its way is the moment an Add takes effect.
LEMMA AddAppears ==
  ASSUME InvH, NextH, NEW p \in Procs, AddRename(p), repo[K(p)] = None
  PROVE  Contract!Next
<1>1. /\ pc[p] = "rename" /\ UNCHANGED <<call, dblob>>
      /\ repo' = [repo EXCEPT ![K(p)] = ps[p]] /\ ret' = [ret EXCEPT ![p] = "ok"]
      /\ pc' = [pc EXCEPT ![p] = "unlock"]
  BY DEF AddRename, Answer, Goto
<1>2. /\ K(p) = Target(call[p]) /\ K(p) \in Keys /\ call[p].wellformed /\ call[p] # None
      /\ call[p].op = "add" /\ ret[p] = None /\ K(p) \notin Present
  BY <1>1, KeyOfCall, NothingAssumption
  DEF InvH, Inv, OpInv, AddOnly, InStage, Settled, EraseOnly, Visible
<1>3. Staged(p) /\ Linked(p)
  BY <1>1 DEF Staged, Linked
<1>4. ps[p] \in Dirs /\ ps[p] # None /\ dblob[ps[p]] # None
  BY <1>3, StagedFacts, NoneAssumption DEF InvH, Inv, StagedBlobInv
<1>5. Present' = Present \cup {K(p)}
  BY <1>1, <1>2, <1>4 DEF Present, Visible, InvH, Inv, TypeOK
<1>6. Alone(p) /\ pc'[p] = "unlock"
  BY <1>1 DEF Alone, InvH, Inv, TypeOK
<1>7. Contract!Becomes(Present \cup {Contract!Target(call[p])})
  BY <1>1, <1>2, <1>5, <1>6, Becoming, Vocabulary
<1>8. Contract!Target(call[p]) = <<call[p].s, call[p].d>>
  BY <1>2, Vocabulary DEF K
<1>9. Did' = Did \cup {p} /\ p \notin Did
  BY <1>1, <1>2, NothingAssumption DEF Did, Results, InvH, Inv, TypeOK
<1>10. Answers[p] = None /\ Answers' = Answers
  BY <1>1, <1>6 DEF Answers, InvH, Inv, TypeOK
<1>11. Contract!Appear(p)
  BY <1>1, <1>2, <1>7, <1>8, <1>9, <1>10, Vocabulary
  DEF Contract!Appear, Contract!MayAnswer
<1> QED BY <1>11 DEF Contract!Next

\* RemoveAll: the moment at which an Erase takes effect is the unlink of the blob
\* of its entry.  Whatever else it removes, and whatever an Add removes, is seen by
\* nobody; an Erase that has gone through finds its key absent.
LEMMA RemoveAllRefines ==
  ASSUME InvH, NextH, NEW p \in Procs, RemoveAllStep(p)
  PROVE  [Contract!Next]_Contract!vars
<1> USE DEF disk, locals, Answer, Continue
<1>0. /\ pc[p] \in InRemoveAll /\ call[p].op \in {"add", "erase"} /\ call[p].wellformed
      /\ K(p) = Target(call[p]) /\ K(p) \in Keys /\ (K(p) \in Present <=> Visible(K(p)))
      /\ ret[p] = None /\ call[p] # None /\ UNCHANGED call
  <2>1. pc[p] \in InRemoveAll /\ UNCHANGED call
    BY DEF RemoveAllStep, RmTry, RmOpen, RmUnlink, RmClose, RmDir, InRemoveAll
  <2> QED BY <2>1, KeyOfCall, NothingAssumption
      DEF InvH, Inv, OpInv, InStage, Settled, EraseOnly, InRemoveAll
<1>1. ASSUME Present' = Present, RemoveAllOk(p) \/ Continue(p, "rmopen") \/ Continue(p, "rm")
                                   \/ Continue(p, "rmdir")
      PROVE  UNCHANGED Contract!vars
  <2>1. Settles(p)
    BY <1>0, <1>1 DEF RemoveAllOk, Settles, Results
  <2>2. \E l \in PCs \ {"idle", "done"} : Goto(p, l)
    BY <1>0, <1>1 DEF RemoveAllOk, PCs
  <2> QED BY <1>0, <1>1, <2>1, <2>2, Stutters DEF InRemoveAll
<1>2. CASE RmTry(p) \/ RmDir(p)
  <2>1. Present' = Present
    BY <1>0, <1>2, Hidden DEF RmTry, RmDir, Contents, Visible, InvH, InRemoveAll
  <2>2. CASE RemoveAllError(p)
    <3>1. Settles(p)
      BY <1>0, <2>2 DEF RemoveAllError, Settles, Results
    <3>2. CASE call[p].op = "erase"
      <4>1. ret'[p] = "error" /\ Goto(p, "done") /\ p \notin Did
        BY <1>0, <2>2, <3>2 DEF RemoveAllError, InvH, Inv, TypeOK, Did
      <4>2. Contract!Justified(p, "error")
        BY <1>0, <4>1 DEF Contract!Justified
      <4> QED BY <1>0, <2>1, <3>1, <4>1, <4>2, Replies DEF Results, InRemoveAll
    <3>3. CASE call[p].op = "add"
      BY <1>0, <2>1, <2>2, <3>1, <3>3, Stutters DEF RemoveAllError, PCs, InRemoveAll
    <3> QED BY <1>0, <3>2, <3>3
  <2>3. CASE ~RemoveAllError(p)
    BY <1>1, <1>2, <2>1, <2>3 DEF RmTry, RmDir
  <2> QED BY <2>2, <2>3
<1>3. CASE RmOpen(p) \/ RmClose(p)
  <2>1. Present' = Present
    BY <1>3, Hidden DEF RmOpen, RmClose, InvH
  <2> QED BY <1>1, <1>3, <2>1 DEF RmOpen, RmClose
<1>4. CASE RmUnlink(p)
  <2>0. pc[p] = "rm" /\ UNCHANGED <<repo, pc, call, ret>>
    BY <1>4 DEF RmUnlink
  <2>1. CASE \/ UNCHANGED dblob
             \/ /\ dblob' = [dblob EXCEPT ![fd[p]] = None]
                /\ (fd[p] = None \/ dblob[fd[p]] = None)
    <3>1. Present' = Present
      BY <2>0, <2>1, Hidden DEF InvH
    <3>2. Goto(p, "rm") /\ Settles(p)
      BY <2>0 DEF Goto, Settles, InvH, Inv, TypeOK
    <3> QED BY <1>0, <2>0, <3>1, <3>2, Stutters DEF PCs
  <2>2. CASE /\ dblob' = [dblob EXCEPT ![fd[p]] = None]
             /\ fd[p] # None /\ dblob[fd[p]] # None
    <3>1. fd[p] \in Dirs /\ call[p].op = "erase"
      BY <1>0, <2>0, <2>2, AddUnlinksNoBlob DEF InvH, Inv, TypeOK
    <3>2. repo[K(p)] = fd[p]
      <4>1. fd[p] \notin orphans /\ \A q \in Procs : ps[q] # fd[p]
        BY <2>2 DEF InvH, Inv, OrphanInv, StageInv
      <4> QED BY <2>2, <3>1, <4>1 DEF InvH, Inv, NoLitter, FdInv
    <3>3. Present' = Present \ {K(p)} /\ K(p) \in Present
      <4>1. ASSUME NEW k \in Keys PROVE Visible(k)' <=> Visible(k) /\ k # K(p)
        BY <1>0, <2>0, <2>2, <3>1, <3>2 DEF Visible, InvH, Inv, TypeOK, RepoInv
      <4> QED BY <1>0, <2>2, <3>2, <4>1 DEF Present, Visible
    <3>4. Contract!Becomes(Present \ {Contract!Target(call[p])})
      BY <1>0, <2>0, <3>3, Becoming, Vocabulary DEF Alone
    <3>5. Did' = Did /\ Answers' = Answers /\ Answers[p] = None
      BY <2>0 DEF Did, Answers
    <3>6. Contract!Vanish(p)
      BY <1>0, <2>0, <3>1, <3>3, <3>4, <3>5, Vocabulary DEF Contract!Vanish, Contract!MayAnswer
    <3> QED BY <3>6 DEF Contract!Next
  <2> QED BY <1>4, <2>1, <2>2 DEF RmUnlink
<1> QED BY <1>2, <1>3, <1>4 DEF RemoveAllStep

\* tryCleanup changes no key, and what it finds or fails at changes no answer; the
\* unlock that ends it, or an Add, answers what is settled.
LEMMA EndingRefines ==
  ASSUME InvH, NextH, NEW p \in Procs, EraseStep(p) \/ Unlock(p) \/ Cancel(p)
  PROVE  [Contract!Next]_Contract!vars
<1> USE DEF disk, locals, Answer, Continue
<1>1. /\ pc[p] \in EraseOnly \cup {"unlock", "lock"} /\ UNCHANGED <<call, dblob, repo>>
      /\ IF pc[p] = "lock" THEN ret' = [ret EXCEPT ![p] = "error"] ELSE UNCHANGED ret
  BY DEF EraseStep, EraseCheck, EraseLock, EraseRecheck, EraseRemove, Unlock, Cancel, EraseOnly,
     InvH, Inv, TypeOK
<1>2. Present' = Present /\ call[p].wellformed
  BY <1>1, Hidden DEF InvH, InStage, EraseOnly
<1>3. Settles(p)
  BY <1>1 DEF Settles, Results, InvH, InStage, Settled, EraseOnly
<1>4. ret'[p] \in {"ok", "exists", "error"}
  BY <1>1 DEF InvH, InStage, Inv, TypeOK
<1>5. Contract!Justified(p, ret'[p])
  <2>1. CASE ret'[p] = "error"
    <3>1. p \notin Did
      BY <1>1, <2>1, NothingAssumption
      DEF Did, InvH, InStage, Settled, EraseOnly, Results, Inv, TypeOK
    <3> QED BY <1>2, <2>1, <3>1 DEF Contract!Justified
  <2>2. CASE ret'[p] # "error" /\ (pc[p] \in EraseOnly \/ call[p].op = "erase")
    <3>1. call[p].op = "erase" /\ "absent" \in seen[p] /\ ret'[p] = "ok"
      BY <1>1, <2>2
      DEF InvH, InStage, Witnessed, Relies, Inv, OpInv, AddOnly, EraseOnly, TypeOK
    <3> QED BY <1>2, <3>1 DEF Contract!Justified
  <2>3. CASE ret'[p] # "error" /\ pc[p] \notin EraseOnly /\ call[p].op # "erase"
    <3>1. pc[p] = "unlock" /\ call[p].op = "add" /\ ret'[p] = ret[p]
      BY <1>1, <2>3 DEF InvH, InStage, Inv, TypeOK
    <3>2. CASE ret[p] = "ok"
      <4>1. p \in Did
        BY <3>1, <3>2, NothingAssumption, CallFacts DEF Did, InvH, Inv
      <4> QED BY <1>2, <3>1, <3>2, <4>1 DEF Contract!Justified
    <3>3. CASE ret[p] = "exists"
      <4>1. "present" \in seen[p] /\ p \notin Did
        BY <3>1, <3>3 DEF InvH, Witnessed, Relies, Did
      <4> QED BY <1>2, <3>1, <3>3, <4>1 DEF Contract!Justified
    <3> QED BY <1>4, <2>3, <3>1, <3>2, <3>3
  <2> QED BY <2>1, <2>2, <2>3
<1>6. \E l \in PCs \ {"idle"} : Goto(p, l)
  BY DEF PCs, EraseStep, EraseCheck, EraseLock, EraseRecheck, EraseRemove, Unlock, Cancel
<1>7. CASE Goto(p, "done")
  BY <1>1, <1>2, <1>3, <1>4, <1>5, <1>7, Replies DEF Results, EraseOnly
<1>8. CASE ~Goto(p, "done")
  BY <1>1, <1>2, <1>3, <1>6, <1>8, Stutters DEF EraseOnly
<1> QED BY <1>7, <1>8

\* Label, Get, Open and a refusal change no key: each answers what it found, now or
\* at its first look.
LEMMA LooksRefine ==
  ASSUME InvH, NextH, NEW p \in Procs, LabelStep(p) \/ OpenStep(p) \/ Refuse(p)
  PROVE  [Contract!Next]_Contract!vars
<1> USE DEF disk, locals, Answer, Continue
<1>0. /\ pc[p] \in {"refuse", "lstat", "relabel", "ostat", "olabels", "oblob"}
      /\ UNCHANGED <<call, dblob, repo>> /\ ret[p] = None /\ p \notin Did
  <2>1. /\ pc[p] \in {"refuse", "lstat", "relabel", "ostat", "olabels", "oblob"}
        /\ UNCHANGED <<call, dblob, repo>>
    BY DEF LabelStep, LabelStat, LabelRename, OpenStep, OpenStat, OpenLabels, OpenBlob, Refuse
  <2> QED BY <2>1, NothingAssumption DEF InvH, InStage, Settled, EraseOnly, Did, Results
<1>1. Present' = Present
  BY <1>0, Hidden DEF InvH
<1>2. ASSUME NEW r \in Results, ret' = [ret EXCEPT ![p] = r], Goto(p, "done"),
             r = "ok" => call[p].op # "add", Contract!Justified(p, r)
      PROVE  Contract!Next
  <2>1. ret'[p] = r /\ Settles(p)
    BY <1>0, <1>2 DEF Settles, InvH, Inv, TypeOK
  <2> QED BY <1>0, <1>1, <1>2, <2>1, Replies
<1>3. ASSUME Continue(p, "relabel") \/ Continue(p, "olabels") \/ Continue(p, "oblob")
      PROVE  UNCHANGED Contract!vars
  BY <1>0, <1>1, <1>3, Stutters DEF PCs, Settles
<1>4. CASE Refuse(p)
  <2>1. Contract!Justified(p, Refusal(call[p].op))
    BY <1>4 DEF Refuse, InvH, InStage, Contract!Justified
  <2>2. Refusal(call[p].op) \in Results /\ (Refusal(call[p].op) = "ok" => call[p].op # "add")
    BY DEF Refusal, Results
  <2> QED BY <1>2, <1>4, <2>1, <2>2 DEF Refuse
<1>5. CASE LabelStep(p) \/ OpenStep(p)
  <2>0. /\ call[p].op \in {"get", "open", "label"} /\ call[p].wellformed
        /\ Visible(K(p)) => "present" \in seen[p]
        /\ ~Visible(K(p)) => "absent" \in seen[p]
        /\ pc[p] \in {"relabel", "olabels"} => "present" \in seen[p]
    <3>1. pc[p] \in {"lstat", "relabel", "ostat", "olabels", "oblob"}
      BY <1>5 DEF LabelStep, LabelStat, LabelRename, OpenStep, OpenStat, OpenLabels, OpenBlob
    <3> QED BY <3>1, KeyOfCall, Finds DEF InvH, InStage, Witnessed, Relies
  <2>1. ASSUME ~Visible(K(p)), Answer(p, "notexist", "done") PROVE Contract!Next
    <3>1. Contract!Justified(p, "notexist")
      BY <2>0, <2>1 DEF Contract!Justified
    <3> QED BY <1>2, <2>1, <3>1 DEF Results
  <2>2. ASSUME "present" \in seen[p], Answer(p, "ok", "done") PROVE Contract!Next
    <3>1. Contract!Justified(p, "ok")
      BY <2>0, <2>2 DEF Contract!Justified
    <3> QED BY <1>2, <2>0, <2>2, <3>1 DEF Results
  <2>3. ASSUME Answer(p, "error", "done") PROVE Contract!Next
    <3>1. Contract!Justified(p, "error")
      BY <1>0, <2>0 DEF Contract!Justified
    <3> QED BY <1>2, <2>3, <3>1 DEF Results
  <2>4. CASE LabelStat(p) \/ OpenStat(p)
    BY <1>3, <2>1, <2>4 DEF LabelStat, OpenStat
  <2>5. CASE LabelRename(p)
    BY <2>0, <2>1, <2>2, <2>5 DEF LabelRename, Visible
  <2>6. CASE OpenLabels(p)
    BY <1>3, <2>0, <2>2, <2>3, <2>6 DEF OpenLabels
  <2>7. CASE OpenBlob(p)
    BY <2>0, <2>1, <2>2, <2>7 DEF OpenBlob
  <2> QED BY <1>5, <2>4, <2>5, <2>6, <2>7 DEF LabelStep, OpenStep
<1> QED BY <1>4, <1>5

\* A failing disk ends a call that has had no effect.
LEMMA IoErrorRefines ==
  ASSUME InvH, NextH, NEW p \in Procs, IoError(p)
  PROVE  [Contract!Next]_Contract!vars
<1> USE DEF disk, locals, Answer
<1>1. /\ pc[p] \in {"read", "share", "link", "copy", "publish", "relabel", "rename"}
      /\ UNCHANGED <<call, dblob, repo>> /\ ret' = [ret EXCEPT ![p] = "error"]
  BY DEF IoError
<1>2. Present' = Present /\ call[p].wellformed /\ ret[p] = None /\ p \notin Did /\ ret'[p] = "error"
  BY <1>1, Hidden, NothingAssumption
  DEF InvH, InStage, Settled, EraseOnly, Did, Results, Inv, TypeOK
<1>3. Settles(p)
  BY <1>1, <1>2 DEF Settles, Results
<1>4. CASE Goto(p, "done")
  <2>1. Contract!Justified(p, "error")
    BY <1>2 DEF Contract!Justified
  <2> QED BY <1>1, <1>2, <1>3, <1>4, <2>1, Replies DEF Results
<1>5. CASE Goto(p, "cleanup")
  BY <1>1, <1>2, <1>3, <1>5, Stutters DEF PCs
<1> QED BY <1>4, <1>5 DEF IoError

\* A call begins and ends as in the contract, also when its process dies.
LEMMA EndsRefine ==
  ASSUME InvH, NextH, NEW p \in Procs, Invoke(p) \/ Return(p) \/ Crash(p)
  PROVE  Contract!Next
<1> USE DEF disk, InvH, Inv, TypeOK
<1>0. \A q \in Procs : pc[q] # "idle" => Now(q) \in seen[q]
  BY DEF Witnessed
<1>a. Present' = Present
  BY DEF Invoke, Return, Crash, Present, Visible
<1>1. CASE Invoke(p)
  <2>1. PICK c \in Calls : /\ Sensible(c)
                           /\ call' = [call EXCEPT ![p] = c]
                           /\ Goto(p, IF c.wellformed THEN FirstStep(c.op) ELSE "refuse")
    BY <1>1 DEF Invoke
  <2>2. pc'[p] # "idle" /\ pc'[p] # "done" /\ \A q \in Procs \ {p} : pc'[q] = pc[q]
    BY <2>1 DEF Goto, FirstStep
  <2>3. seen[p] = {} /\ ret[p] = None /\ call[p] = None
    BY <1>1 DEF Invoke, Witnessed, InStage, Settled, EraseOnly
  <2>4. seen' = [seen EXCEPT ![p] = {Contract!Presence(Contract!Target(c), Present)}]
    <3>1. seen'[p] = {Contract!Presence(Contract!Target(c), Present)}
      BY <1>a, <2>1, <2>2, <2>3, Vocabulary DEF NextH, Contract!Presence
    <3>2. \A q \in Procs \ {p} : seen'[q] = seen[q]
      BY <1>0, <1>a, <2>1, <2>2 DEF NextH, Now, Contract!Presence, Witnessed
    <3> QED BY <3>1, <3>2 DEF NextH
  <2>5. Did' = Did
    BY <1>1, <2>1, <2>3, NothingAssumption DEF Invoke, Did, Results
  <2>6. Answers' = Answers
    BY <1>1, <2>2 DEF Invoke, Answers
  <2>7. Contract!Invoke(p)
    BY <1>a, <2>1, <2>3, <2>4, <2>5, <2>6, Vocabulary DEF Contract!Invoke
  <2> QED BY <2>7 DEF Contract!Next
<1>2. CASE Return(p) \/ Crash(p)
  <2>0. /\ pc[p] # "idle" /\ pc' = [pc EXCEPT ![p] = "idle"]
        /\ call' = [call EXCEPT ![p] = None] /\ ret' = [ret EXCEPT ![p] = None]
    BY <1>2 DEF Return, Crash, Goto
  <2>1. call[p] # None
    BY <2>0, NothingAssumption
  <2>2. seen' = [seen EXCEPT ![p] = {}]
    <3>1. seen'[p] = {}
      BY <2>0 DEF NextH
    <3>2. \A q \in Procs \ {p} : seen'[q] = seen[q]
      BY <1>0, <2>0, <1>a DEF NextH, Now, Contract!Presence, Witnessed
    <3> QED BY <3>1, <3>2 DEF NextH
  <2>3. Did' = Did \ {p}
    BY <2>0 DEF Did
  <2>4. Answers' = [Answers EXCEPT ![p] = None]
    BY <2>0 DEF Answers
  <2>5. Contract!Leave(p)
    BY <1>a, <2>0, <2>1, <2>2, <2>3, <2>4 DEF Contract!Leave
  <2> QED BY <2>5 DEF Contract!Next
<1> QED BY <1>1, <1>2

\* A step of p concerns no other call.
LEMMA OthersStay ==
  ASSUME Inv, NEW p \in Procs, Invoke(p) \/ Step(p) \/ Cancel(p) \/ IoError(p) \/ Crash(p),
         NEW q \in Procs, q # p
  PROVE  pc'[q] = pc[q] /\ call'[q] = call[q] /\ ret'[q] = ret[q]
<1> USE DEF locals, Answer, Continue, Goto, Inv, TypeOK
<1>1. CASE Invoke(p) \/ Return(p) \/ Crash(p) \/ Refuse(p) \/ Unlock(p)
  BY <1>1 DEF Invoke, Return, Crash, Refuse, Unlock
<1>2. CASE AddStep(p)
  BY <1>2 DEF AddStep, AddGiven, AddRead, AddLock, AddDup, AddShare, AddLink, AddCopy,
     AddPublish, AddRename, AddStat, AddCleanup
<1>3. CASE RemoveAllStep(p)
  BY <1>3 DEF RemoveAllStep, RmTry, RmOpen, RmUnlink, RmClose, RmDir, RemoveAllOk,
     RemoveAllError
<1>4. CASE EraseStep(p) \/ LabelStep(p) \/ OpenStep(p)
  BY <1>4 DEF EraseStep, EraseCheck, EraseLock, EraseRecheck, EraseRemove, LabelStep,
     LabelStat, LabelRename, OpenStep, OpenStat, OpenLabels, OpenBlob
<1>5. CASE Cancel(p) \/ IoError(p)
  BY <1>5 DEF Cancel, IoError
<1> QED BY <1>1, <1>2, <1>3, <1>4, <1>5 DEF Step

\* Every step keeps each call in its stage.
LEMMA InStageInv ==
  ASSUME InvH, NEW p \in Procs, Invoke(p) \/ Step(p) \/ Cancel(p) \/ IoError(p) \/ Crash(p)
  PROVE  \A q \in Procs : InStage(q)'
<1>0. ASSUME NEW q \in Procs, q # p PROVE InStage(q)'
  <2>1. pc'[q] = pc[q] /\ call'[q] = call[q] /\ ret'[q] = ret[q]
    BY <1>0, OthersStay DEF InvH
  <2> QED BY <2>1 DEF InvH, InStage
<1>1. InStage(p)
  BY DEF InvH
<1>2. OpInv
  BY DEF InvH, Inv
<1>3. pc \in [Procs -> PCs] /\ call \in [Procs -> Calls \cup {None}]
      /\ ret \in [Procs -> Results \cup {None}]
  BY DEF InvH, Inv, TypeOK
<1> SUFFICES InStage(p)'
  BY <1>0
<1> USE <1>1, <1>2, <1>3
        DEF locals, Answer, Continue, Goto, InStage, Settled, EraseOnly
<1>4. CASE Invoke(p)
  <2>1. PICK c \in Calls : /\ Sensible(c)
                           /\ call' = [call EXCEPT ![p] = c]
                           /\ Goto(p, IF c.wellformed THEN FirstStep(c.op) ELSE "refuse")
    BY <1>4 DEF Invoke
  <2>2. c.op \in {"add", "get", "open", "label", "erase"}
    BY OpsAssumption DEF Calls
  <2>3. c.op # "add" => c.given = c.d
    BY <2>1 DEF Sensible
  <2> QED BY <1>4, <2>1, <2>2, <2>3 DEF Invoke, FirstStep
<1>5. CASE Return(p) \/ Crash(p) \/ Refuse(p)
  BY <1>5 DEF Return, Crash, Refuse
<1>6. CASE AddGiven(p) \/ AddRead(p) \/ AddLock(p) \/ AddDup(p)
  BY <1>6 DEF AddGiven, AddRead, AddLock, AddDup, D, OpInv, AddOnly
<1>7. CASE AddShare(p) \/ AddLink(p) \/ AddCopy(p) \/ AddPublish(p) \/ AddStat(p)
  BY <1>7 DEF AddShare, AddLink, AddCopy, AddPublish, AddStat
<1>8. CASE AddRename(p) \/ AddCleanup(p) \/ Unlock(p)
  BY <1>8 DEF AddRename, AddCleanup, Unlock, OpInv, AddOnly
<1>9. CASE RemoveAllStep(p)
  BY <1>9 DEF RemoveAllStep, RmTry, RmOpen, RmUnlink, RmClose, RmDir, RemoveAllOk,
     RemoveAllError
<1>10. CASE EraseStep(p)
  BY <1>10 DEF EraseStep, EraseCheck, EraseLock, EraseRecheck, EraseRemove, OpInv
<1>11. CASE LabelStep(p) \/ OpenStep(p)
  BY <1>11 DEF LabelStep, LabelStat, LabelRename, OpenStep, OpenStat, OpenLabels, OpenBlob
<1>12. CASE Cancel(p) \/ IoError(p)
  BY <1>12 DEF Cancel, IoError
<1> QED
  BY <1>4, <1>5, <1>6, <1>7, <1>8, <1>9, <1>10, <1>11, <1>12 DEF Step, AddStep

\* A call comes to rely on what is the case at that moment.
LEMMA FoundFirst ==
  ASSUME InvH, NEW p \in Procs, Invoke(p) \/ Step(p) \/ Cancel(p) \/ IoError(p) \/ Crash(p),
         NEW w \in {"present", "absent"}, NEW q \in Procs, Relies(q, w)'
  PROVE  (Relies(q, w) /\ pc[q] # "idle") \/ Now(q)' = w
<1> USE DEF disk, locals, Answer, Continue, Goto
<1>0. CASE q # p
  <2>1. pc'[q] = pc[q] /\ call'[q] = call[q] /\ ret'[q] = ret[q]
    BY <1>0, OthersStay DEF InvH
  <2> QED BY <2>1 DEF Relies, EraseOnly
<1>1. pc \in [Procs -> PCs] /\ call \in [Procs -> Calls \cup {None}]
      /\ ret \in [Procs -> Results \cup {None}] /\ repo \in [Keys -> Dirs \cup {None}]
      /\ InStage(p) /\ OpInv
  BY DEF InvH, Inv, TypeOK
<1>2. ASSUME pc[p] \notin {"idle", "refuse", "given", "read", "done"}, UNCHANGED call
      PROVE  (IF Visible(K(p))' THEN "present" ELSE "absent") = Now(p)'
  <2>1. K(p)' = K(p) /\ K(p) \in Keys /\ K(p)' = Target(call'[p])
    BY <1>2, KeyOfCall DEF K
  <2> QED BY <2>1 DEF Now, Contract!Presence, Present
<1>3. CASE q = p /\ (Invoke(p) \/ Return(p) \/ Crash(p) \/ Refuse(p) \/ AddGiven(p)
                       \/ AddRead(p) \/ AddLock(p) \/ Cancel(p) \/ IoError(p))
  BY <1>1, <1>3 DEF Relies, EraseOnly, Invoke, FirstStep, Return, Crash, Refuse, AddGiven,
     AddRead, AddLock, Cancel, IoError
<1>4. CASE q = p /\ (AddShare(p) \/ AddLink(p) \/ AddCopy(p) \/ AddPublish(p) \/ AddRename(p)
                       \/ AddStat(p) \/ AddCleanup(p))
  BY <1>1, <1>4 DEF Relies, EraseOnly, InStage, OpInv, AddOnly, AddShare, AddLink, AddCopy,
     AddPublish, AddRename, AddStat, AddCleanup
<1>5. CASE q = p /\ AddDup(p)
  <2>1. /\ pc[p] = "dup" /\ UNCHANGED <<call, repo, dblob>>
        /\ w = "present" /\ Visible(K(p))
    BY <1>1, <1>5 DEF AddDup, checkDup, Relies, EraseOnly, OpInv, AddOnly
  <2>2. Visible(K(p))'
    BY <2>1 DEF Visible, K
  <2> QED BY <1>2, <1>5, <2>1, <2>2
<1>6. CASE q = p /\ (LabelStep(p) \/ OpenStep(p))
  <2>1. CASE Visible(K(p)) /\ (LabelStat(p) \/ OpenStat(p))
    <3>1. w = "present" /\ UNCHANGED <<call, repo, dblob>> /\ pc[p] \in {"lstat", "ostat"}
      BY <1>1, <1>6, <2>1 DEF LabelStat, OpenStat, Relies, EraseOnly
    <3>2. Visible(K(p))'
      BY <2>1, <3>1 DEF Visible, K
    <3> QED BY <1>2, <1>6, <3>1, <3>2
  <2>2. CASE ~(Visible(K(p)) /\ (LabelStat(p) \/ OpenStat(p)))
    BY <1>1, <1>6, <2>2 DEF Relies, EraseOnly, LabelStep, LabelStat, LabelRename, OpenStep,
       OpenStat, OpenLabels, OpenBlob
  <2> QED BY <2>1, <2>2
<1>7. CASE q = p /\ RemoveAllStep(p)
  <2>0. /\ pc[p] \in InRemoveAll /\ UNCHANGED call /\ K(p) \in Keys
    BY <1>7, CallFacts
    DEF RemoveAllStep, RmTry, RmOpen, RmUnlink, RmClose, RmDir, InRemoveAll, InvH, Inv
  <2>1. RemoveAllOk(p) /\ call[p].op = "erase" /\ w = "absent"
    BY <1>1, <1>7 DEF RemoveAllStep, RmTry, RmOpen, RmUnlink, RmClose, RmDir, RemoveAllOk,
       RemoveAllError, Relies, EraseOnly
  <2>2. pc'[p] = "nlink1"
    BY <1>1, <2>1 DEF RemoveAllOk
  <2>3. repo'[K(p)] = None
    BY <1>1, <1>7, <2>0, <2>2 DEF RemoveAllStep, RmTry, RmOpen, RmUnlink, RmClose, RmDir,
       RemoveAllError
  <2>4. ~Visible(K(p))'
    BY <2>0, <2>3 DEF Visible, K
  <2> QED BY <1>2, <1>7, <2>0, <2>1, <2>4 DEF InRemoveAll
<1>8. CASE q = p /\ (EraseStep(p) \/ Unlock(p))
  BY <1>1, <1>8 DEF Relies, EraseOnly, InStage, OpInv, EraseStep, EraseCheck, EraseLock,
     EraseRecheck, EraseRemove, Unlock
<1> QED
  BY <1>0, <1>3, <1>4, <1>5, <1>6, <1>7, <1>8 DEF Step, AddStep

\* The history records what the calls rely on.
LEMMA WitnessedInv ==
  ASSUME InvH, NextH
  PROVE  \A p \in Procs : Witnessed(p)'
<1> SUFFICES ASSUME NEW p \in Procs PROVE Witnessed(p)'
  OBVIOUS
<1>1. pc'[p] = "idle" => seen'[p] = {}
  BY DEF NextH
<1>2. pc'[p] # "idle" => Now(p)' \in seen'[p] /\ seen[p] \subseteq seen'[p]
  BY DEF NextH, Now, Contract!Presence
<1>3. ASSUME NEW w \in {"present", "absent"}, Relies(p, w)' PROVE w \in seen'[p]
  <2>1. Relies(p, w) \/ Now(p)' = w
    BY <1>3, FoundFirst DEF NextH, Next
  <2>2. pc'[p] # "idle"
    BY <1>3 DEF Relies, EraseOnly
  <2> QED BY <1>2, <2>1, <2>2 DEF InvH, Witnessed
<1> QED BY <1>1, <1>2, <1>3 DEF Witnessed

\* The invariant that the refinement rests on holds in every reachable state.
THEOREM HistoryInvariance == SpecH => []InvH
<1>1. InitH => InvH
  BY InitInv DEF InitH, Init, InvH, InStage, Witnessed, Relies, Settled, EraseOnly
<1>2. InvH /\ [NextH]_<<vars, seen>> => InvH'
  <2> SUFFICES ASSUME InvH, [NextH]_<<vars, seen>> PROVE InvH'
    OBVIOUS
  <2>1. CASE UNCHANGED <<vars, seen>>
    <3>1. Inv'
      BY <2>1, NextInv DEF InvH
    <3>2. ASSUME NEW p \in Procs PROVE InStage(p)' /\ Witnessed(p)'
      BY <2>1 DEF vars, disk, locals, InvH, InStage, Witnessed, Relies, Now, Present, Visible
    <3> QED BY <2>1, <3>1, <3>2 DEF InvH
  <2>2. CASE NextH
    <3>1. Inv'
      BY <2>2, NextInv DEF NextH, InvH
    <3>2. seen' \in [Procs -> SUBSET {"present", "absent"}]
      BY <2>2 DEF NextH, InvH
    <3>3. \A p \in Procs : InStage(p)'
      BY <2>2, InStageInv DEF NextH, Next
    <3> QED BY <2>2, <3>1, <3>2, <3>3, WitnessedInv DEF InvH
  <2> QED BY <2>1, <2>2
<1> QED BY <1>1, <1>2, PTL DEF SpecH

\* KeepsContract: OsStore implements the contract of store.go, for any number of
\* stores, digests and callers, any faults and with or without link counts.  The
\* rename of the staged directory is the moment at which an Add takes effect, the
\* unlink of the entry's blob that of an Erase; every other system call, those that
\* clean up after a crash or behind an Erase included, is seen by no caller.
THEOREM Refinement == SpecH => KeepsContract
<1>1. InitH => Contract!Init
  BY NothingAssumption DEF InitH, Init, Contract!Init, Did, Answers, Present, Visible
<1>2. InvH /\ [NextH]_<<vars, seen>> => [Contract!Next]_Contract!vars
  <2> SUFFICES ASSUME InvH, [NextH]_<<vars, seen>> PROVE [Contract!Next]_Contract!vars
    OBVIOUS
  <2>1. CASE UNCHANGED <<vars, seen>>
    BY <2>1 DEF vars, disk, locals, Contract!vars, Did, Answers, Present, Visible
  <2>2. CASE NextH
    <3>1. ASSUME NEW p \in Procs, AddStep(p) PROVE [Contract!Next]_Contract!vars
      BY <2>2, <3>1, AddLooksRefine, AddHidden, AddAppears DEF AddStep
    <3>2. ASSUME NEW p \in Procs, Step(p) PROVE [Contract!Next]_Contract!vars
      BY <2>2, <3>1, <3>2, RemoveAllRefines, EndingRefines, LooksRefine, EndsRefine DEF Step
    <3> QED BY <2>2, <3>2, EndingRefines, IoErrorRefines, EndsRefine DEF NextH, Next
  <2> QED BY <2>1, <2>2
<1> QED BY <1>1, <1>2, HistoryInvariance, PTL DEF SpecH, KeepsContract, Contract!Spec

-----------------------------------------------------------------------------
(***************************************************************************)
(* Recovery from crashes.                                                  *)
(***************************************************************************)

\* No two calls are on the same entry at the same time.
Apart ==
    \A p, q \in Procs : pc[p] # "idle" /\ pc[q] # "idle" /\ K(p) = K(q) => p = q

\* Nothing stands in the way of an Add or an Erase that is alone on its entry: what
\* its RemoveAll has open is the entry itself, and holds what it has listed.
Clear(p) ==
    /\ pc[p] = "idle" => ret[p] = None
    /\ pc[p] = "refuse" => ~call[p].wellformed
    /\ pc[p] # "cleanup"
    /\ pc[p] = "stat" => repo[K(p)] # None
    /\ pc[p] \in InRemoveAll \cup {"stat"} /\ call[p].op = "add" => attempt[p] = 1
    /\ pc[p] = "rm" => /\ fd[p] # None /\ fd[p] = repo[K(p)]
                       /\ Contents(fd[p]) \subseteq names[p]
    /\ pc[p] = "rmdir" => repo[K(p)] # None /\ Contents(repo[K(p)]) = {}
    /\ pc[p] \in {"ostat", "olabels"} => call[p].op \in {"get", "open"}
    /\ ret[p] = "error" /\ call[p].op = "add" => ~call[p].wellformed
    /\ ret[p] = "error" => call[p].op # "erase"

\* A step of p leaves alone what another call has before it, when both are apart.
LEMMA ApartStep ==
  ASSUME Inv, Apart, NEW p \in Procs, NEW q \in Procs, q # p, pc[q] # "idle",
         Invoke(p) \/ Step(p) \/ Crash(p)
  PROVE  /\ repo'[K(q)] = repo[K(q)]
         /\ fd'[q] = fd[q] /\ names'[q] = names[q] /\ attempt'[q] = attempt[q]
         /\ repo[K(q)] # None => Contents(repo[K(q)])' = Contents(repo[K(q)])
<1>0. K(q) \in Keys /\ (pc[p] # "idle" => K(p) \in Keys /\ K(p) # K(q))
  BY CallFacts DEF Inv, Apart
<1>1. /\ repo \in [Keys -> Dirs \cup {None}] /\ dblob \in [Dirs -> Inodes \cup {None}]
      /\ fd \in [Procs -> Dirs \cup {None}] /\ attempt \in [Procs -> Nat]
      /\ names \in [Procs -> SUBSET {"blob", "labels"}]
      /\ K(q)' = K(q)
  <2>1. call'[q] = call[q]
    BY OthersStay
  <2> QED BY <2>1 DEF Inv, TypeOK, attempts, K
<1> USE <1>0, <1>1 DEF disk, locals, Answer, Continue, Goto
<1>2. CASE AddDup(p)
  <2>1. repo[K(q)] \in labelled' <=> repo[K(q)] \in labelled
    BY <1>2 DEF AddDup, FreeDirs
  <2> QED BY <1>2, <2>1 DEF AddDup, Contents
<1>3. CASE AddShare(p) \/ AddLink(p) \/ AddCleanup(p)
  <2>1. Staged(p)
    BY <1>3 DEF AddShare, AddLink, AddCleanup, Staged
  <2>2. repo[K(q)] # ps[p]
    BY <2>1, StagedFacts, NoneAssumption DEF Inv, StageInv
  <2> QED BY <1>3, <2>2 DEF AddShare, AddLink, AddCleanup, Contents
<1>4. CASE AddRename(p) \/ RmTry(p) \/ RmDir(p)
  BY <1>4 DEF AddRename, RmTry, RmDir, RemoveAllOk, RemoveAllError, Contents
<1>5. CASE RmOpen(p) \/ RmClose(p)
  BY <1>5 DEF RmOpen, RmClose, Contents
<1>6. CASE RmUnlink(p)
  <2>1. repo[K(q)] # None => repo[K(q)] # fd[p]
    BY <1>6 DEF RmUnlink, Inv, FdInv
  <2> QED BY <1>6, <2>1 DEF RmUnlink, Contents
<1>7. CASE LabelRename(p)
  <2>1. repo[K(q)] # None => repo[K(q)] # repo[K(p)]
    BY <1>7 DEF LabelRename, Inv, RepoInv
  <2> QED BY <1>7, <2>1 DEF LabelRename, Contents
<1>8. CASE \/ Invoke(p) \/ Crash(p) \/ Return(p) \/ Refuse(p) \/ Unlock(p) \/ AddGiven(p)
           \/ AddRead(p) \/ AddLock(p) \/ AddCopy(p) \/ AddPublish(p) \/ AddStat(p)
           \/ EraseStep(p) \/ LabelStat(p) \/ OpenStep(p)
  <2>1. UNCHANGED <<dblob, labelled, repo>>
    BY <1>8 DEF Invoke, Crash, Return, Refuse, Unlock, AddGiven, AddRead, AddLock, AddCopy,
       AddPublish, AddStat, EraseStep, EraseCheck, EraseLock, EraseRecheck, EraseRemove,
       LabelStat, OpenStep, OpenStat, OpenLabels, OpenBlob
  <2>2. fd'[q] = fd[q] /\ names'[q] = names[q] /\ attempt'[q] = attempt[q]
    BY <1>8 DEF Invoke, Crash, Return, Refuse, Unlock, AddGiven, AddRead, AddLock, AddCopy,
       AddPublish, AddStat, EraseStep, EraseCheck, EraseLock, EraseRecheck, EraseRemove,
       LabelStat, OpenStep, OpenStat, OpenLabels, OpenBlob
  <2> QED BY <2>1, <2>2 DEF Contents
<1> QED BY <1>2, <1>3, <1>4, <1>5, <1>6, <1>7, <1>8 DEF Step, AddStep, RemoveAllStep, LabelStep

\* A step of p finds nothing in its way.
LEMMA ClearStep ==
  ASSUME Inv, NEW p \in Procs, Clear(p), Invoke(p) \/ Step(p) \/ Crash(p)
  PROVE  Clear(p)'
<1>t. /\ pc \in [Procs -> PCs] /\ ret \in [Procs -> Results \cup {None}]
      /\ call \in [Procs -> Calls \cup {None}]
      /\ None \notin {"ok", "exists", "notexist", "mismatch", "error"}
  BY NothingAssumption DEF Inv, TypeOK, Results
<1>d. /\ pc[p] # "idle" => K(p) \in Keys
      /\ repo \in [Keys -> Dirs \cup {None}] /\ dblob \in [Dirs -> Inodes \cup {None}]
  BY CallFacts DEF Inv, TypeOK
<1>f. /\ fd \in [Procs -> Dirs \cup {None}]
      /\ names \in [Procs -> SUBSET {"blob", "labels"}]
  BY DEF Inv, TypeOK
<1>a. attempt \in [Procs -> Nat]
  BY DEF Inv, TypeOK, attempts
<1>1. call' = call => K(p)' = K(p)
  BY DEF K
<1> USE DEF disk, locals, Answer, Continue, Goto
<1>2. CASE Invoke(p)
  <2>1. PICK c \in Calls : /\ call' = [call EXCEPT ![p] = c]
                           /\ Goto(p, IF c.wellformed THEN FirstStep(c.op) ELSE "refuse")
    BY <1>2 DEF Invoke
  <2>2. c.op \in {"add", "get", "open", "label", "erase"}
    BY OpsAssumption DEF Calls
  <2> QED BY <1>t, <1>d, <1>f, <1>a, <1>1, <1>2, <2>1, <2>2 DEF Clear, InRemoveAll, Invoke, FirstStep
<1>3. CASE Crash(p) \/ Return(p) \/ Refuse(p)
  BY <1>t, <1>d, <1>f, <1>a, <1>1, <1>3 DEF Clear, InRemoveAll, Crash, Return, Refuse, Refusal
<1>4. CASE AddGiven(p) \/ AddRead(p) \/ AddLock(p) \/ AddDup(p) \/ AddShare(p) \/ AddCopy(p)
  BY <1>t, <1>d, <1>f, <1>a, <1>1, <1>4 DEF Clear, InRemoveAll, AddGiven, AddRead, AddLock, AddDup, AddShare, AddCopy
<1>5. CASE AddLink(p) \/ AddPublish(p)
  BY <1>t, <1>d, <1>f, <1>a, <1>1, <1>5 DEF Clear, InRemoveAll, AddLink, AddPublish, Inv, LinkCannotFail
<1>6. CASE AddRename(p)
  <2>1. repo[K(p)] # None => attempt[p] = 0
    BY <1>t, <1>d, <1>f, <1>a, <1>6 DEF AddRename, Inv, LeftoverIsReplaced, attempts
  <2> QED BY <1>t, <1>d, <1>f, <1>a, <1>1, <1>6, <2>1 DEF Clear, InRemoveAll, AddRename
<1>7. CASE AddStat(p) \/ AddCleanup(p) \/ Unlock(p)
  BY <1>t, <1>d, <1>f, <1>a, <1>1, <1>7 DEF Clear, InRemoveAll, AddStat, AddCleanup, Unlock
<1>8. CASE RmTry(p) \/ RmOpen(p)
  <2>1. call[p].op \in {"add", "erase"} /\ UNCHANGED call
    BY <1>8 DEF InRemoveAll, RmTry, RmOpen, Inv, OpInv
  <2>2. ASSUME RemoveAllOk(p)
        PROVE  pc'[p] \in {"rename", "nlink1"} /\ ret'[p] \in {ret[p], "ok"}
    BY <1>t, <1>d, <1>f, <1>a, <1>8, <2>1, <2>2 DEF Clear, InRemoveAll, RmTry, RmOpen, RemoveAllOk, attempts
  <2>3. CASE RmTry(p)
    BY <1>t, <1>d, <1>f, <1>a, <1>1, <2>1, <2>2, <2>3 DEF Clear, InRemoveAll, RmTry
  <2>4. CASE RmOpen(p)
    BY <1>t, <1>d, <1>f, <1>a, <1>1, <2>1, <2>2, <2>4 DEF Clear, InRemoveAll, RmOpen, Contents
  <2> QED BY <1>8, <2>3, <2>4
<1>9. CASE RmUnlink(p)
  <2>1. pc[p] = "rm" /\ UNCHANGED <<call, repo, fd, pc, ret, attempt>>
    BY <1>9 DEF RmUnlink
  <2>2. fd[p] \in Dirs /\ Contents(fd[p]) \subseteq names[p]
    BY <1>t, <1>d, <1>f, <1>a, <2>1 DEF Clear
  <2>3. Contents(fd[p])' \subseteq names'[p]
    <3>1. PICK n \in names[p] :
            /\ names' = [names EXCEPT ![p] = @ \ {n}]
            /\ dblob' = IF n = "blob" THEN [dblob EXCEPT ![fd[p]] = None] ELSE dblob
            /\ labelled' = IF n = "labels" THEN labelled \ {fd[p]} ELSE labelled
      BY <1>9 DEF RmUnlink
    <3>2. names'[p] = names[p] \ {n} /\ n \in {"blob", "labels"}
      BY <1>t, <1>d, <1>f, <1>a, <3>1
    <3>3. CASE n = "blob"
      BY <1>t, <1>d, <1>f, <1>a, <2>1, <2>2, <3>1, <3>2, <3>3 DEF Contents
    <3>4. CASE n = "labels"
      BY <1>t, <1>d, <1>f, <1>a, <2>1, <2>2, <3>1, <3>2, <3>4 DEF Contents
    <3> QED BY <3>2, <3>3, <3>4
  <2> QED BY <1>1, <2>1, <2>3 DEF Clear, InRemoveAll
<1>10. CASE RmClose(p)
  <2>1. /\ pc[p] = "rm" /\ pc'[p] = "rmdir" /\ names[p] = {}
        /\ UNCHANGED <<call, repo, ret, attempt, dblob, labelled>>
    BY <1>t, <1>d, <1>f, <1>a, <1>10 DEF RmClose
  <2>2. Contents(repo[K(p)]) = {} /\ repo[K(p)] # None
    BY <2>1 DEF Clear
  <2>3. (Contents(repo[K(p)]) = {} /\ repo[K(p)] # None)'
    BY <1>1, <2>1, <2>2 DEF Contents
  <2> QED BY <1>1, <2>1, <2>3 DEF Clear, InRemoveAll
<1>11. CASE RmDir(p)
  <2>1. /\ pc[p] = "rmdir" /\ call[p].op \in {"add", "erase"} /\ RemoveAllOk(p)
        /\ UNCHANGED <<call, attempt>>
    BY <1>11 DEF RmDir, Clear, InRemoveAll, Inv, OpInv
  <2>2. call[p].op = "add" => attempt[p] = 1
    BY <2>1 DEF Clear, InRemoveAll
  <2>3. pc'[p] \in {"rename", "nlink1"} /\ ret'[p] \in {ret[p], "ok"}
    BY <1>t, <2>1, <2>2 DEF RemoveAllOk, attempts
  <2> QED BY <1>1, <2>1, <2>3 DEF Clear, InRemoveAll
<1>12. CASE EraseStep(p)
  <2>1. /\ UNCHANGED <<call, ret>>
        /\ pc[p] \in EraseOnly /\ pc'[p] \in EraseOnly \cup {"unlock", "done"}
    BY <1>t, <1>12 DEF EraseStep, EraseCheck, EraseLock, EraseRecheck, EraseRemove, EraseOnly
  <2> QED BY <1>1, <2>1 DEF Clear, InRemoveAll, EraseOnly
<1>13. CASE LabelStep(p) \/ OpenStep(p)
  <2>1. /\ UNCHANGED call /\ pc'[p] \in {"relabel", "olabels", "oblob", "done"}
        /\ ret'[p] \in {ret[p], "ok", "notexist"} \/ pc[p] = "olabels"
        /\ pc'[p] = "olabels" => pc[p] = "ostat"
    BY <1>t, <1>13
    DEF LabelStep, LabelStat, LabelRename, OpenStep, OpenStat, OpenLabels, OpenBlob
  <2> QED BY <1>1, <2>1 DEF Clear, InRemoveAll
<1> QED
  BY <1>2, <1>3, <1>4, <1>5, <1>6, <1>7, <1>8, <1>9, <1>10, <1>11, <1>12, <1>13
  DEF Step, AddStep, RemoveAllStep

\* What is clear stays so, as long as the calls are apart and only crashes hit them.
LEMMA ClearInv ==
  ASSUME Inv, Apart, \A p \in Procs : Clear(p), [Next]_vars, Faults \subseteq {"crash"}
  PROVE  \A p \in Procs : Clear(p)'
<1>1. CASE UNCHANGED vars
  <2>1. UNCHANGED <<pc, ret, call, repo, attempt, fd, names, dblob, labelled>>
    BY <1>1 DEF vars, disk, locals
  <2>2. \A x : Contents(x)' = Contents(x)
    BY <2>1 DEF Contents
  <2>3. \A p \in Procs : K(p)' = K(p)
    BY <2>1 DEF K
  <2> QED BY <2>1, <2>2, <2>3 DEF Clear, Contents
<1>2. ASSUME NEW p \in Procs, Invoke(p) \/ Step(p) \/ Crash(p), NEW q \in Procs, q # p
      PROVE  Clear(q)'
  <2>1. pc'[q] = pc[q] /\ call'[q] = call[q] /\ ret'[q] = ret[q] /\ K(q)' = K(q)
    BY <1>2, OthersStay DEF K
  <2>2. CASE pc[q] = "idle"
    BY <2>1, <2>2 DEF Clear, InRemoveAll
  <2>3. CASE pc[q] # "idle"
    <3>1. /\ repo'[K(q)] = repo[K(q)]
          /\ fd'[q] = fd[q] /\ names'[q] = names[q] /\ attempt'[q] = attempt[q]
          /\ repo[K(q)] # None => Contents(repo[K(q)])' = Contents(repo[K(q)])
      BY <1>2, <2>3, ApartStep
    <3>2. fd[q] # None /\ fd[q] = repo[K(q)] => Contents(fd[q])' = Contents(fd[q])
      BY <2>1, <3>1 DEF Contents
    <3> QED BY <2>1, <3>1, <3>2 DEF Clear, InRemoveAll
  <2> QED BY <2>2, <2>3
<1>3. ASSUME NEW p \in Procs PROVE ~Cancel(p) /\ ~IoError(p)
  BY DEF Cancel, IoError, Fault
<1> QED BY <1>1, <1>2, <1>3, ClearStep DEF Next

\* A crash at any moment of any call leaves nothing behind that an Add or an Erase
\* fails at, as long as no other call is on the same entry at the same time: every
\* leftover that an interrupted RemoveAll, Label or Add can leave is replaced.
LEMMA Recovery ==
  ASSUME Faults \subseteq {"crash"}
  PROVE  Spec /\ []Apart => [](\A p \in Procs : Clear(p))
<1>1. Init => \A p \in Procs : Clear(p)
  BY NothingAssumption DEF Init, Clear, InRemoveAll, Results
<1>2. Inv /\ Apart /\ (\A p \in Procs : Clear(p)) /\ [Next]_vars => (\A p \in Procs : Clear(p))'
  BY ClearInv
<1> QED BY <1>1, <1>2, Invariance, PTL DEF Spec

\* AddsSucceed, for any number of stores, digests and crashes, when no two calls
\* are on the same entry at the same time, as those of one caller never are.
THEOREM AddsRecover ==
  ASSUME Faults \subseteq {"crash"}
  PROVE  Spec /\ []Apart => []AddsSucceed
<1>1. (\A p \in Procs : Clear(p)) => AddsSucceed
  BY DEF Clear, AddsSucceed
<1> QED BY <1>1, Recovery, PTL

\* ErasesSucceed, under the same condition.
THEOREM ErasesRecover ==
  ASSUME Faults \subseteq {"crash"}
  PROVE  Spec /\ []Apart => []ErasesSucceed
<1>1. (\A p \in Procs : Clear(p)) => ErasesSucceed
  BY DEF Clear, ErasesSucceed
<1> QED BY <1>1, Recovery, PTL
=============================================================================
