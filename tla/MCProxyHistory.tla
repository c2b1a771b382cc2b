---------------------------- MODULE MCProxyHistory ----------------------------
(* Instances of ProxyHistory for TLC. *)
EXTENDS ProxyHistory, TLC

Symmetry == Permutations(ProxyId)
=============================================================================
