---------------------------- MODULE MCSrmRequest ----------------------------
EXTENDS SrmRequest, TLC

\* no estimate, one below the timeout
MCEstimates == { -1, 2 }
MCNoEstimates == { -1 }

\* tokens are interchangeable
MCSymmetry == Permutations(Tokens)
=============================================================================
