----------------------------- MODULE MCBrowsing -----------------------------
EXTENDS Browsing

MCSizes == {1, 2}
=============================================================================
