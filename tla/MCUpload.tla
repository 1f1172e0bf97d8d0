------------------------------ MODULE MCUpload ------------------------------
(***************************************************************************)
(* Small instances of Upload.  Requests and users are interchangeable.     *)
(***************************************************************************)
EXTENDS Upload, TLC

Symmetry == Permutations(Requests) \cup Permutations(Users)
=============================================================================
