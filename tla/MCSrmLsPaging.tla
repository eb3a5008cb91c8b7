---------------------------- MODULE MCSrmLsPaging ----------------------------
EXTENDS SrmLsPaging
Counts == { -1, 0, 2 }
=============================================================================
