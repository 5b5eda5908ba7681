---------------------------- MODULE MCRangeAssembly ----------------------------
\* Small instances of RangeAssembly for TLC: numbers of five bits.
EXTENDS RangeAssembly

OffByOne == {-1, 0, 1}
=============================================================================
