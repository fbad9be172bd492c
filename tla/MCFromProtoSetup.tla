-------------------------- MODULE MCFromProtoSetup --------------------------
EXTENDS FromProtoSetup, TLC

CONSTANTS h1, h2, t1, t2, t3

AllConfigs == [driver : {"postgres", "risingwave", "clickhouse"}, constraints : BOOLEAN]

\* The second version drops a table, keeps one and adds one.
TwoVersions == h1 :> {t1, t2} @@ h2 :> {t2, t3}
=============================================================================
