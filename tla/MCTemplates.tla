---------------------------- MODULE MCTemplates -----------------------------
(* Three sessions and two statements, each alike. *)
EXTENDS Templates, TLC

Symmetry == Permutations(Ops) \cup Permutations(Statements) \cup Permutations(Past)
=============================================================================
