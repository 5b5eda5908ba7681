--------------------------- MODULE MCManagedDirectory ---------------------------
\* A small instance of ManagedDirectory for TLC: three calls, two directories, one failure, none in the run of NextUpdateCleans.
EXTENDS ManagedDirectory, TLC

Symmetry == Permutations(Calls) \cup Permutations(Directories)
=============================================================================
