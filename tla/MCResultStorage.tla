--------------------------- MODULE MCResultStorage ---------------------------
EXTENDS ResultStorage, TLC
CONSTANTS r1, r2, r3, s1, s2, s3

Symmetry == Permutations({r1, r2, r3}) \cup Permutations({s1, s2, s3})
=============================================================================
