----------------------------- MODULE MCProtoCsv -----------------------------
EXTENDS ProtoCsv

\* Bundles of three blocks: 6-8 has no block, 3-5 does not have its first one and the
\* stop block cuts off 9-11
GapChain == {1, 2, 4, 9, 10}
=============================================================================
