---------------------------- MODULE MCSrmBackoff ----------------------------
EXTENDS SrmBackoff

\* no estimate, a short one, one longer than the timeout (ignored by the code)
MCEstimates == { -1, 3, 50 }
=============================================================================
