----------------------------- MODULE MCRenameStubs -----------------------------
\* Small instances of RenameStubs for TLC.
EXTENDS RenameStubs, TLC

CONSTANTS t1, t2

\* Transactions differ only in their name.
Symmetry == Permutations({t1, t2})
=============================================================================
