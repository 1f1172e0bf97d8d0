--------------------------- MODULE MCProfileCache ---------------------------
(***************************************************************************)
(* Small instances of ProfileCache.  Handlers are interchangeable.         *)
(***************************************************************************)
EXTENDS ProfileCache, TLC

Symmetry == Permutations(Requests)
=============================================================================
