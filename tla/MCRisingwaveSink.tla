-------------------------- MODULE MCRisingwaveSink --------------------------
EXTENDS RisingwaveSink, TLC

CONSTANTS k1, k2, v1

\* Rows are interchangeable: no property names one
Symmetry == Permutations({k1, k2})
=============================================================================
