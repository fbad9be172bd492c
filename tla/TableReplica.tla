---------------------------- MODULE TableReplica ----------------------------
(***************************************************************************)
(* What the database sinks promise their reader, without buffers, batches, *)
(* history or processes.  A chain of blocks is delivered; `chain[h]` is    *)
(* the content the tables have after blocks 1..h.  The tables always are   *)
(* the chain up to one block, `at`.  They move forward to a delivered      *)
(* block, and to any block that is not below the final one when the blocks *)
(* above it are undone.  Blocks that are stored are never replaced         *)
(* silently.                                                               *)
(***************************************************************************)
EXTENDS Integers

CONSTANTS Rows, NoRows, StopBlock

VARIABLES chain,   \* the delivered chain
          final,   \* height below which nothing is undone
          tables,  \* what a reader of the database sees
          at       \* the block the stored cursor stands for

vars == <<chain, final, tables, at>>

Height == 0..StopBlock

SamePrefix(b) ==
    /\ chain' \in [Height -> Rows]
    /\ \A h \in 0..b : chain'[h] = chain[h]

Init ==
    /\ chain = [h \in Height |-> NoRows]
    /\ final = 0
    /\ tables = NoRows
    /\ at = 0

\* Blocks above the stored one are delivered, or given up to be fetched again.
Deliver ==
    /\ SamePrefix(at)
    /\ final' \in Height /\ final' >= final
    /\ UNCHANGED <<tables, at>>

Store(b) ==
    /\ b > at
    /\ tables' = chain[b]
    /\ at' = b
    /\ UNCHANGED <<chain, final>>

Undo(b) ==
    /\ b >= final
    /\ SamePrefix(b)
    /\ tables' = chain[b]
    /\ at' = b
    /\ UNCHANGED final

Next == Deliver \/ (\E b \in Height : Store(b)) \/ (\E b \in Height : Undo(b))

Spec == Init /\ [][Next]_vars
=============================================================================
