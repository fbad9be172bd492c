------------------------------ MODULE MCCursors ------------------------------
(* Instances of Cursors for TLC: the module hashes are interchangeable.    *)
EXTENDS Cursors, TLC

Symmetry == Permutations(Hash)

AllPolicies ==
    [mismatch : {"ignore", "warn", "error"}, rollbacks : BOOLEAN, undoDepth : {0, 2}]
=============================================================================
