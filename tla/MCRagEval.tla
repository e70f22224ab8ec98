----------------------------- MODULE MCRagEval ------------------------------
\* The name of one table is the beginning of the other's.
EXTENDS RagEval, TLC
MCNameOf == [t \in {"1.user", "1.users"} |-> IF t = "1.users" THEN "users" ELSE "user"]
MCPrefixes == {<<"user", "users">>}
Symmetry == Permutations(Sessions)
=============================================================================
