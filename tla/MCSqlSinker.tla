---------------------------- MODULE MCSqlSinker ----------------------------
(* Instances of SqlSinker for TLC: small sets of table changes.            *)
EXTENDS SqlSinker, TLC

CONSTANTS k1, k2, x, y, z

Chg(op, k, data) == [op |-> op, key |-> k, data |-> data]

\* Every kind of change to one row of two columns; the same row is created,
\* partly updated, upserted and deleted.  One update names no column, one a
\* column the table does not have.
OneRowChanges ==
    { Chg("INSERT", k1, x :> 1), Chg("UPSERT", k1, y :> 1),
      Chg("UPDATE", k1, x :> 2), Chg("DELETE", k1, NoData),
      Chg("UPDATE", k1, NoData), Chg("UPDATE", k1, z :> 1) }

\* Two rows, one of two columns that is created and updated, one of one
\* column that is upserted; no row is both updated and upserted.
TwoRowChanges ==
    { Chg("INSERT", k1, x :> 1), Chg("UPDATE", k1, y :> 1),
      Chg("UPDATE", k1, x :> 2), Chg("DELETE", k1, NoData),
      Chg("UPSERT", k2, x :> 1), Chg("UPSERT", k2, x :> 2),
      Chg("DELETE", k2, NoData) }

\* One row, upserted only: nothing the Loader refuses to merge.
UpsertChanges == { Chg("UPSERT", k1, x :> 1), Chg("UPSERT", k1, x :> 2) }
=============================================================================
