------------------------------ MODULE MCRProxy ------------------------------
(***************************************************************************)
(* RProxy for TLC.  Clients and links are interchangeable.                 *)
(***************************************************************************)
EXTENDS RProxy, TLC

PeerSymmetry == Permutations(Clients) \cup Permutations(Links)
=============================================================================
