---------------------------- MODULE MCNativeDownload ----------------------------
\* Small instances of NativeDownload for TLC.
EXTENDS NativeDownload

CONSTANTS proxy, mirror, direct, r1, r2

\* The node that succeeded last, then by priority.
LastSuccessFirst == <<proxy, direct, mirror>>
=============================================================================
