------------------------- MODULE MCS3StoresContract -------------------------
(***************************************************************************)
(* S3StoresContract for TLC, with the symmetries of S3Stores.              *)
(***************************************************************************)
EXTENDS S3StoresContract, TLC

Interchangeable ==
    Permutations(Stores) \cup Permutations(Digests) \cup Permutations(Procs)
=============================================================================
