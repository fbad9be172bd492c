--------------------------- MODULE LaggingReplica ---------------------------
(***************************************************************************)
(* What a sink on a database without transactions across tables promises:  *)
(* no cell is ever behind the cursor.  A cell shows the chain at some      *)
(* height from the stored cursor (`at`) up to the highest block a flush    *)
(* has reached (`ahead`), cells independently of each other.  Once the     *)
(* cursor has caught up with `ahead` the tables are the chain at the       *)
(* cursor.                                                                 *)
(***************************************************************************)
EXTENDS Integers

CONSTANTS Table, Key, StopBlock

VARIABLES chain,   \* the keys every block writes in every table
          tables,  \* the block that wrote what a reader finds in a cell, 0 for none
          at, ahead

vars == <<chain, tables, at, ahead>>

Height == 0 .. StopBlock

\* v is the last block up to h that writes the cell
Shows(v, t, k, h) ==
    /\ v \in 0 .. h
    /\ v > 0 => k \in chain[v][t]
    /\ \A b \in (v + 1) .. h : k \notin chain[b][t]

CellBetween(v, t, k, low, high) == \E h \in low .. high : Shows(v, t, k, h)

TablesBetween(tab, low, high) ==
    \A t \in Table, k \in Key : CellBetween(tab[t][k], t, k, low, high)

Init ==
    /\ chain \in [1 .. StopBlock -> [Table -> SUBSET Key]]
    /\ tables = [t \in Table |-> [k \in Key |-> 0]]
    /\ at = 0 /\ ahead = 0

\* Cells may move forward, and back to any height the cursor has not passed
Write ==
    /\ ahead' \in ahead .. StopBlock
    /\ tables' \in [Table -> [Key -> Height]]
    /\ TablesBetween(tables', at, ahead')
    /\ UNCHANGED <<chain, at>>

\* The cursor passes a block once no cell is behind it
Commit(b) ==
    /\ b > at /\ b <= ahead
    /\ TablesBetween(tables, b, ahead)
    /\ at' = b
    /\ UNCHANGED <<chain, tables, ahead>>

Next == Write \/ \E b \in Height : Commit(b)

Spec == Init /\ [][Next]_vars
=============================================================================
