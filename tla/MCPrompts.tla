------------------------------ MODULE MCPrompts ------------------------------
EXTENDS Prompts, TLC

CONSTANTS p1, p2, b1, t1, t2

MCProfiles == {p1, p2}
MCPrompted == {p1}
MCBuffers == {b1}
MCTexts == {t1, t2}
MCSymmetry == Permutations(MCTexts)
=============================================================================
