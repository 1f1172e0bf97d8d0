-------------------------- MODULE MCProfilePubSub --------------------------
(***************************************************************************)
(* Small instances of ProfilePubSub.                                       *)
(***************************************************************************)
EXTENDS ProfilePubSub, TLC

CONSTANTS p1, p2, k1, k2

OneUser == [k \in Conns |-> p1]
TwoUsers == k1 :> p1 @@ k2 :> p2

Symmetry == Permutations(Subs)
=============================================================================
