------------------------- MODULE MCTransactionDirectory -------------------------
\* Small instances of TransactionDirectory for TLC: two launches, in the same
\* directory or in two.
EXTENDS TransactionDirectory
=============================================================================
