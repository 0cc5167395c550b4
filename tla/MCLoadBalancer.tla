--------------------------- MODULE MCLoadBalancer ---------------------------
(***************************************************************************)
(* LoadBalancer for TLC: backends and sockets are interchangeable.         *)
(***************************************************************************)
EXTENDS LoadBalancer

LoadSymmetry == Permutations(Backends) \cup Permutations(Socks)
=============================================================================
