------------------------------- MODULE MCKeySet -------------------------------
(***************************************************************************)
(* Small instances of KeySet.                                              *)
(***************************************************************************)
EXTENDS KeySet, TLC

CONSTANTS k1, k2, Forger, NoKid, EarlyExp, LateExp

\* Genuine tokens of both keys, one that expires early, one without a key id,
\* one with an invented key id and one with a forged signature.
Presented ==
    {[kid |-> k1, signer |-> k1, exp |-> LateExp],
     [kid |-> k2, signer |-> k2, exp |-> EarlyExp],
     [kid |-> k2, signer |-> k2, exp |-> LateExp],
     [kid |-> NoKid, signer |-> k1, exp |-> LateExp],
     [kid |-> NoKid, signer |-> Forger, exp |-> LateExp],
     [kid |-> k1, signer |-> Forger, exp |-> LateExp]}

Genuines == {[kid |-> k1, signer |-> k1, exp |-> LateExp]}

Symmetry == Permutations(Callers)
=============================================================================
