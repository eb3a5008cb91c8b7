------------------------------ MODULE MCSrmSpace ------------------------------
EXTENDS SrmSpace, TLC
Symmetry == Permutations(TOKENS)
=============================================================================
