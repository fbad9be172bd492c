---------------------------- MODULE MCLostCommit ----------------------------
(* Instances of LostCommit for TLC, with the changes of MCSqlSinker.       *)
EXTENDS LostCommit, MCSqlSinker
=============================================================================
