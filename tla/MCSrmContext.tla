----------------------------- MODULE MCSrmContext -----------------------------
EXTENDS SrmContext
=============================================================================
