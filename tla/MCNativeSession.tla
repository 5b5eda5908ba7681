---------------------------- MODULE MCNativeSession ----------------------------
\* Small instances of NativeSession for TLC.
EXTENDS NativeSession
=============================================================================
