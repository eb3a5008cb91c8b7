----------------------------- MODULE MCSrmSleep -----------------------------
EXTENDS SrmSleep

MCEstimates == { -1, 3 }
=============================================================================
