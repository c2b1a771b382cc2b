---------------------------- MODULE MCAdminSession ----------------------------
(* Instances of AdminSession for TLC. *)
EXTENDS AdminSession, TLC

Symmetry == Permutations(Request) \cup Permutations(Token)
=============================================================================
