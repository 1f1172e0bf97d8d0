------------------------------- MODULE MCLivez -------------------------------
(***************************************************************************)
(* The image's HEALTHCHECK, alone in front of the server, in seconds.      *)
(***************************************************************************)
EXTENDS Edge

Networks1 == [a \in Addresses |-> a]
Typed1 == {<<>>}
=============================================================================
