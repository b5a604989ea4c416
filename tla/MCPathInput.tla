----------------------------- MODULE MCPathInput -----------------------------
EXTENDS PathInput
CONSTANTS n1, n2, f1, f2, f3
=============================================================================
