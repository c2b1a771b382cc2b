----------------------------- MODULE MCListPaging -----------------------------
(* Instances of ListPaging for TLC. *)
EXTENDS ListPaging, TLC

Symmetry == Permutations(ProxyId)
=============================================================================
