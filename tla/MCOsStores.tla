----------------------------- MODULE MCOsStores -----------------------------
(***************************************************************************)
(* OsStores for TLC.  Callers, stores, digests, inodes and directories are *)
(* each compared for equality only, so permuting them changes nothing.     *)
(***************************************************************************)
EXTENDS OsStores, TLC

Interchangeable ==
    Permutations(Stores) \cup Permutations(Digests) \cup Permutations(Procs)
      \cup Permutations(Inodes) \cup Permutations(Dirs)
=============================================================================
