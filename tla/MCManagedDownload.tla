---------------------------- MODULE MCManagedDownload ----------------------------
\* Small instances of ManagedDownload for TLC.
EXTENDS ManagedDownload

CONSTANTS proxy, mirror, direct, r1, r2

\* The node that succeeded last, then by priority.
LastSuccessFirst == <<proxy, direct, mirror>>
=============================================================================
