--------------------------- MODULE MCTextVersions ---------------------------
EXTENDS TextVersions, TLC
Symmetry == Permutations(Runs)
=============================================================================
