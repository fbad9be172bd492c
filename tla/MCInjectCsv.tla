----------------------------- MODULE MCInjectCsv -----------------------------
(* An instance of generate-csv and inject-csv for TLC.                     *)
EXTENDS InjectCsv

CONSTANTS t1, t2

\* Bundles of two blocks: the bundles 4-5 and 8-9 have no block, 6-7 does not
\* have its first one
GapChain == {1, 2, 3, 7, 10}

\* Either only t1 has rows, in any of the blocks, or both have one in every block
AnyRows ==
    [GapChain -> SUBSET {t1}] \union {[b \in GapChain |-> {t1, t2}]}
=============================================================================
