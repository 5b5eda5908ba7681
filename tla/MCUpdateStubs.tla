----------------------------- MODULE MCUpdateStubs -----------------------------
\* Small instances of UpdateStubs for TLC.
EXTENDS UpdateStubs

CONSTANTS t1, t2
=============================================================================
