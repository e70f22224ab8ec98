----------------------------- MODULE MCSettings -----------------------------
(* Two roles and three sessions, which are alike. *)
EXTENDS Settings, TLC

Symmetry == Permutations(Ops) \cup Permutations(Roles)
=============================================================================
