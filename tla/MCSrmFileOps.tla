----------------------------- MODULE MCSrmFileOps -----------------------------
EXTENDS SrmFileOps
=============================================================================
