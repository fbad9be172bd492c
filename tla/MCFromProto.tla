----------------------------- MODULE MCFromProto -----------------------------
(* Configurations of FromProto for TLC.                                    *)
EXTENDS FromProto

CONSTANTS e1, e2, keyed, keyless, shifted

OrdinalOf == [t \in UserTable |-> IF t = keyed THEN 0 ELSE 1]

Conf(driver, constraints, batch, forks, crashes, table, contents) ==
    [driver |-> driver, constraints |-> constraints, table |-> table, batch |-> batch,
     slow |-> batch > 1, contents |-> contents, reorgs |-> forks, faults |-> crashes]

\* What the blocks carry: a message of one table; two messages of one table; a message
\* and another nested in it
Single == {{}, {e1}}
Double == {{}, {e1, e2}}

In(table) == [e \in Entity |-> table]
Nested == e1 :> keyed @@ e2 :> keyless

\* Reorganisations with blocks written one by one, faults with batches, and both where
\* the code can cope with them
SomeConfigs ==
    { Conf("postgres", TRUE, 1, 2, 2, In(keyed), Single),
      Conf("postgres", TRUE, 2, 2, 1, In(keyed), Single),
      Conf("postgres", TRUE, 2, 1, 1, In(keyless), Double),
      Conf("postgres", FALSE, 1, 1, 1, In(keyed), Single),
      Conf("risingwave", TRUE, 2, 0, 2, In(keyless), Double),
      Conf("risingwave", FALSE, 2, 0, 2, Nested, Double),
      Conf("risingwave", TRUE, 1, 1, 0, In(keyed), Single),
      Conf("risingwave", FALSE, 1, 1, 1, In(keyless), Double),
      Conf("clickhouse", FALSE, 1, 2, 0, In(keyless), Double),
      Conf("clickhouse", FALSE, 2, 0, 2, Nested, Double),
      Conf("clickhouse", FALSE, 1, 1, 2, In(keyed), Single),
      Conf("clickhouse", FALSE, 2, 0, 0, In(shifted), Double),
      Conf("clickhouse", FALSE, 1, 1, 1, In(shifted), Single) }
=============================================================================
