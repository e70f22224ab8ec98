----------------------------- MODULE MCLlmCache -----------------------------
(* Two questions that count as similar and one that is like neither. *)
EXTENDS LlmCache, TLC

CONSTANTS q1, q2, q3

MCQuestions == {q1, q2, q3}
MCSimilar == ({q1, q2} \X {q1, q2}) \cup {<<q3, q3>>}
Symmetry == Permutations(Runs)
=============================================================================
