--------------------------- MODULE MCSessionAffinity ---------------------------
(* Instances of SessionAffinity for TLC. *)
EXTENDS SessionAffinity, TLC

Symmetry == Permutations(Call) \cup Permutations(ProxyId)
=============================================================================
