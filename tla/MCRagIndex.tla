----------------------------- MODULE MCRagIndex -----------------------------
\* A table and a foreign key, and operations on them.
EXTENDS RagIndex, TLC

Symmetry == Permutations(Ops) \cup Permutations(Past)
=============================================================================
