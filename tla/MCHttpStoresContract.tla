------------------------ MODULE MCHttpStoresContract ------------------------
(***************************************************************************)
(* HttpStoresContract for TLC, with the symmetries of HttpStores.          *)
(***************************************************************************)
EXTENDS HttpStoresContract, TLC

Interchangeable ==
    Permutations(Stores) \cup Permutations(Digests) \cup Permutations(Procs)
      \cup Permutations(Handlers)
=============================================================================
