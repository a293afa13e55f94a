----------------------------- MODULE OsStoresInv -----------------------------
(***************************************************************************)
(* The inductive invariant behind the safety properties of OsStores.       *)
(***************************************************************************)
EXTENDS OsStores

\* Where only an Add can be.
AddOnly == {"given", "read", "lock", "dup", "share", "link", "copy", "publish",
            "rename", "stat", "cleanup"}

\* Where only an Erase can be.
EraseOnly == {"nlink1", "elock", "nlink2", "remove"}

InRemoveAll == {"rmtry", "rmopen", "rm", "rmdir"}

\* p has staged a directory.
Staged(p) ==
    \/ pc[p] \in {"share", "link", "copy", "publish", "rename", "stat", "cleanup"}
    \/ pc[p] \in InRemoveAll /\ call[p].op = "add"

\* The staged blob of p is whole and shared.
Linked(p) ==
    \/ pc[p] \in {"rename", "stat"}
    \/ pc[p] \in InRemoveAll /\ call[p].op = "add"

\* p is between lockBlob and its unlock.
Holds(p) == Staged(p) \/ pc[p] \in {"dup", "nlink2", "remove", "unlock"}

\* p still has the cleanup of an Erase before it, or is in it.
Cleaning(p) ==
    /\ pc[p] \in {"rm", "rmdir"} \cup EraseOnly
    /\ call[p].op = "erase"

OpInv ==
    \A p \in Procs : /\ pc[p] \in AddOnly => call[p].op = "add"
                     /\ pc[p] \in EraseOnly => call[p].op = "erase"
                     /\ pc[p] \in InRemoveAll => call[p].op \in {"add", "erase"}

AttemptInv ==
    \A p \in Procs :
      /\ pc[p] \in {"idle", "given", "read", "lock", "dup", "share", "link",
                    "copy", "publish"} => attempt[p] = 0
      /\ pc[p] = "rename" => attempt[p] < attempts

LockInv == \A p \in Procs : Holds(p) => lock[D(p)] = p

\* Staged directories are private: not in a repo, not abandoned, not open in
\* any RemoveAll, and no two alike.
StageInv ==
    \A p \in Procs :
      /\ ps[p] # None <=> Staged(p)
      /\ ps[p] # None =>
           /\ ps[p] \notin orphans
           /\ \A k \in Keys : repo[k] # ps[p]
           /\ \A q \in Procs : fd[q] # ps[p] /\ (ps[q] = ps[p] => q = p)

OrphanInv ==
    \A x \in orphans : /\ \A k \in Keys : repo[k] # x
                       /\ \A p \in Procs : fd[p] # x

RepoInv == \A k, l \in Keys : repo[k] = repo[l] /\ repo[k] # None => k = l

\* A directory that RemoveAll has open is its own, or off every path by now.
FdInv ==
    \A p \in Procs :
      /\ fd[p] # None => pc[p] = "rm"
      /\ \A k \in Keys : fd[p] # None /\ repo[k] = fd[p] => k = K(p)

\* An Add that has passed checkDup under the lock stays the only one to add.
NoDupInv == \A p \in Procs : Staged(p) => ~Visible(K(p))

\* A blob file that is being filled has no other name and no reader.
FillInv ==
    \A p \in Procs :
      pc[p] \in {"copy", "publish"} =>
        /\ dblob[ps[p]] # None
        /\ pc[p] = "publish" => content[dblob[ps[p]]] = D(p)
        /\ \A d \in Digests : share[d] # dblob[ps[p]]
        /\ \A x \in Dirs : dblob[x] = dblob[ps[p]] => x = ps[p]
        /\ \A q \in Procs : file[q] # dblob[ps[p]]

\* What the staged directory of p holds, step by step.
StagedBlobInv ==
    \A p \in Procs :
      /\ pc[p] \in {"share", "link"} => dblob[ps[p]] = None
      /\ Linked(p) => share[D(p)] # None /\ dblob[ps[p]] = share[D(p)]
      /\ Staged(p) => \A d \in Digests :
                        share[d] # None /\ dblob[ps[p]] = share[d] => d = D(p)

FileInv == \A p \in Procs : file[p] # None => pc[p] = "done"

\* tryCleanup removes the shared name only when it is the last one.
RemoveInv ==
    CountLinks =>
      \A p \in Procs : pc[p] = "remove" =>
        /\ share[D(p)] # None
        /\ \A x \in Dirs : dblob[x] # share[D(p)]

CleanupInv == \A p \in Procs : pc[p] = "cleanup" => D(p) \in failed

\* Reclaimed, with the place where the Erase must be.
ReclaimInv ==
    \A d \in Digests :
      \/ share[d] = None
      \/ d \in failed
      \/ \E x \in Dirs : dblob[x] = share[d]
      \/ \E p \in Procs : Cleaning(p) /\ D(p) = d

Inv ==
    /\ TypeOK /\ OpInv /\ AttemptInv /\ LockInv /\ StageInv /\ OrphanInv
    /\ RepoInv /\ FdInv /\ NoLitter /\ NoDupInv /\ FillInv /\ StagedBlobInv
    /\ FileInv /\ RightContent /\ OneCopy /\ RemoveInv /\ LinkCannotFail
    /\ LeftoverIsReplaced /\ CleanupInv /\ ReclaimInv
=============================================================================
