----------------------------- MODULE MCTransport -----------------------------
EXTENDS Transport, TLC
CONSTANTS c1, c2, o1, o2, o3

Symmetry == Permutations({c1, c2}) \cup Permutations({o1, o2, o3})
=============================================================================
