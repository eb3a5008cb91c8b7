------------------------------ MODULE MCSrmMkdir ------------------------------
EXTENDS SrmMkdir, TLC

\* clients are interchangeable
MCSymmetry == Permutations(Clients)
=============================================================================
