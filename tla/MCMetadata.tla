----------------------------- MODULE MCMetadata -----------------------------
\* Two tables, one remote foreign key between them, two sessions at a time.
EXTENDS Metadata, TLC
MCRemoteFks == {<<1, 2>>}
Symmetry == Permutations(Ops)
=============================================================================
