---------------------------- MODULE MCManagedSession ----------------------------
\* Small instances of ManagedSession for TLC.
EXTENDS ManagedSession

CONSTANTS c1, c2
=============================================================================
