------------------------- MODULE MCOsStoresContract -------------------------
(***************************************************************************)
(* OsStoresContract for TLC, with the symmetries of OsStores.              *)
(***************************************************************************)
EXTENDS OsStoresContract, TLC

Interchangeable ==
    Permutations(Stores) \cup Permutations(Digests) \cup Permutations(Procs)
      \cup Permutations(Inodes) \cup Permutations(Dirs)
=============================================================================
