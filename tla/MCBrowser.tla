------------------------------ MODULE MCBrowser ------------------------------
EXTENDS Browser
CONSTANTS v1, v2, v3
=============================================================================
