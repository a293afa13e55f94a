------------------------ MODULE MCMemStoresContract ------------------------
(***************************************************************************)
(* MemStoresContract for TLC, with the symmetries of MemStores.            *)
(***************************************************************************)
EXTENDS MemStoresContract, TLC

Interchangeable ==
    Permutations(Stores) \cup Permutations(Digests) \cup Permutations(Procs)
      \cup Permutations(Blobs)
=============================================================================
