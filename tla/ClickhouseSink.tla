--------------------------- MODULE ClickhouseSink ---------------------------
(***************************************************************************)
(* The run command on ClickHouse (src/db_changes/db/dialect_clickhouse.go  *)
(* with Loader.Flush and flushWithRetry).  The rows of a table go out in a *)
(* batch of their own, committed before the next table is begun, and the   *)
(* cursor is inserted last, so a failure or a crash leaves some tables     *)
(* ahead of the cursor.  Blocks come from behind the undo buffer: NewLoader*)
(* refuses a ClickHouse that would have to undo anything.                  *)
(*                                                                         *)
(* Tables are ReplacingMergeTree: of the rows inserted for a key a reader  *)
(* finds the last.  A row is known by the block that wrote it.  When a     *)
(* flush is due is left open: it depends on the number of rows, on block   *)
(* intervals and on the speed of earlier flushes.                          *)
(***************************************************************************)
EXTENDS Integers, FiniteSets

CONSTANTS
    Table, Key,
    StopBlock,       \* the last block of the range
    Refusals,        \* what a module may get wrong, see Refusal
    FlushRetryCount, \* --flush-retry-count
    MaxFaults,       \* bound on the failures and the crashes
    MaxCopies        \* copies of a row are counted up to here

\* The blocks with an operation that is not an insert, and those whose values do not
\* fit the columns
Refusal == [unsupported : SUBSET (1 .. StopBlock), unconvertible : SUBSET (1 .. StopBlock)]

ASSUME ClickhouseAssumption ==
    /\ Table # {}
    /\ StopBlock \in Nat /\ FlushRetryCount \in Nat /\ MaxFaults \in Nat
    /\ MaxCopies \in Nat
    /\ Refusals \subseteq Refusal

Height == 0 .. StopBlock
NoRows == [t \in Table |-> [k \in Key |-> 0]]

VARIABLES
    chain,    \* chain[b][t]: the keys block b inserts in table t
    refused,  \* the blocks of this module that cannot be inserted
    phase,    \* what the process is doing
    pos,      \* the last block received
    entries,  \* Loader.entries: the block whose row is buffered for a key, 0 for none
    todo,     \* tables of the flush that are not committed yet
    attempt,  \* attempts of the flush that failed
    stored,   \* what a reader of the tables finds
    copies,   \* copies[t][k]: rows inserted for the key since the table was made
    cursor,   \* the block of the cursor a reader of the cursors table finds
    ahead,    \* highest block whose rows may be in a table
    faults

processVars == <<phase, pos, entries, todo, attempt>>
dbVars == <<stored, copies, cursor, ahead>>
vars == <<chain, refused, processVars, dbVars, faults>>

-----------------------------------------------------------------------------
\* Mutant: the row that is already buffered for a key stays.
BufferKeepsFirst(b) ==
    [t \in Table |-> [k \in Key |-> IF k \in chain[b][t] /\ entries[t][k] = 0 THEN b ELSE entries[t][k]]]

\* Insert under AllowPkDuplicates: the row of a key replaces the one already buffered
BufferBlock(b) ==
    [t \in Table |-> [k \in Key |-> IF k \in chain[b][t] THEN b ELSE entries[t][k]]]

\* Mutant: only the values of the last block are checked.
LastBlockConvertible(t) == \A k \in Key : entries[t][k] = pos => entries[t][k] \notin refused.unconvertible

\* convertOpToClickhouseValues and convertToType accept all rows of the table
Convertible(t) == \A k \in Key : entries[t][k] \notin refused.unconvertible

\* The batch of a table is visible: every buffered row is inserted once more
CommitRows(t) ==
    /\ stored' = [stored EXCEPT ![t] =
                    [k \in Key |-> IF entries[t][k] > 0 THEN entries[t][k] ELSE @[k]]]
    /\ copies' = [copies EXCEPT ![t] =
                    [k \in Key |-> IF entries[t][k] > 0 /\ @[k] < MaxCopies
                                   THEN @[k] + 1 ELSE @[k]]]
    /\ ahead' = IF pos > ahead THEN pos ELSE ahead

GoDown ==
    /\ phase' = "down"
    /\ pos' = 0 /\ entries' = NoRows /\ todo' = {} /\ attempt' = 0

\* Mutant: one attempt too many.
RetryOnceMore ==
    IF attempt <= FlushRetryCount
    THEN /\ attempt' = attempt + 1
         /\ todo' = Table
         /\ UNCHANGED <<phase, pos, entries>>
    ELSE GoDown

\* flushWithRetry: the whole flush again with the same entries, or the end
Retry ==
    IF attempt < FlushRetryCount
    THEN /\ attempt' = attempt + 1
         /\ todo' = Table
         /\ UNCHANGED <<phase, pos, entries>>
    ELSE GoDown

-----------------------------------------------------------------------------
Init ==
    /\ chain \in [1 .. StopBlock -> [Table -> SUBSET Key]]
    /\ refused \in Refusals
    /\ phase = "down" /\ pos = 0 /\ entries = NoRows /\ todo = {} /\ attempt = 0
    /\ stored = NoRows /\ copies = NoRows /\ cursor = 0 /\ ahead = 0
    /\ faults = 0

\* SQLSinker.Run: the stream resumes after the stored cursor
Run ==
    /\ phase = "down"
    /\ phase' = "idle" /\ pos' = cursor
    /\ UNCHANGED <<chain, refused, entries, todo, attempt, dbVars, faults>>

\* HandleBlockScopedData: the rows are buffered, and flushed when a flush is due
HandleBlock(flushDue) ==
    /\ phase = "idle" /\ pos < StopBlock
    /\ pos + 1 \notin refused.unsupported
    /\ pos' = pos + 1
    /\ entries' = BufferBlock(pos + 1)
    /\ phase' = IF flushDue THEN "flush" ELSE "idle"
    /\ todo' = IF flushDue THEN Table ELSE {}
    /\ UNCHANGED <<chain, refused, attempt, dbVars, faults>>

\* Update, Upsert and Delete refuse when OnlyInserts: the error ends the process
RejectBlock ==
    /\ phase = "idle" /\ pos < StopBlock
    /\ pos + 1 \in refused.unsupported
    /\ GoDown
    /\ UNCHANGED <<chain, refused, dbVars, faults>>

\* Mutant: the range ends without the last flush.
RangeCompletionNoFlush ==
    /\ phase = "idle" /\ pos = StopBlock /\ cursor < StopBlock
    /\ GoDown
    /\ UNCHANGED <<chain, refused, dbVars, faults>>

\* HandleBlockRangeCompletion: what is still buffered is flushed
RangeCompletion ==
    /\ phase = "idle" /\ pos = StopBlock /\ cursor < StopBlock
    /\ phase' = "flush" /\ todo' = Table
    /\ UNCHANGED <<chain, refused, pos, entries, attempt, dbVars, faults>>

\* One turn of the loop of ClickhouseDialect.Flush: begin, insert all rows, commit
CommitTable(t) ==
    /\ phase = "flush" /\ t \in todo
    /\ Convertible(t)
    /\ CommitRows(t)
    /\ todo' = todo \ {t}
    /\ UNCHANGED <<chain, refused, phase, pos, entries, attempt, cursor, faults>>

\* A value that cannot be converted fails the flush every time
ConversionFails(t) ==
    /\ phase = "flush" /\ t \in todo
    /\ ~Convertible(t)
    /\ Retry
    /\ UNCHANGED <<chain, refused, dbVars, faults>>

\* The database fails a table; the rows may be in all the same when only the answer
\* to the commit is lost
TableFails(t, applied) ==
    /\ phase = "flush" /\ t \in todo /\ faults < MaxFaults
    /\ faults' = faults + 1
    /\ IF applied THEN Convertible(t) /\ CommitRows(t)
                  ELSE UNCHANGED <<stored, copies, ahead>>
    /\ Retry
    /\ UNCHANGED <<chain, refused, cursor>>

\* Mutant: the cursor does not wait for all tables.
UpdateCursorEarly ==
    /\ phase = "flush"
    /\ cursor' = pos
    /\ ahead' = IF pos > ahead THEN pos ELSE ahead
    /\ entries' = NoRows /\ attempt' = 0
    /\ phase' = "idle"
    /\ UNCHANGED <<chain, refused, pos, todo, stored, copies, faults>>

\* Mutant: the buffer survives the flush.
UpdateCursorNoReset ==
    /\ phase = "flush" /\ todo = {}
    /\ cursor' = pos
    /\ ahead' = IF pos > ahead THEN pos ELSE ahead
    /\ attempt' = 0 /\ UNCHANGED entries
    /\ phase' = "idle"
    /\ UNCHANGED <<chain, refused, pos, todo, stored, copies, faults>>

\* UpdateCursor, an INSERT that replaces the cursor of the module, then reset
UpdateCursor ==
    /\ phase = "flush" /\ todo = {}
    /\ cursor' = pos
    /\ ahead' = IF pos > ahead THEN pos ELSE ahead
    /\ entries' = NoRows /\ attempt' = 0
    /\ phase' = "idle"
    /\ UNCHANGED <<chain, refused, pos, todo, stored, copies, faults>>

\* The INSERT of the cursor fails, or its answer is lost: everything is sent again
CursorFails(applied) ==
    /\ phase = "flush" /\ todo = {} /\ faults < MaxFaults
    /\ faults' = faults + 1
    /\ IF applied THEN cursor' = pos /\ ahead' = IF pos > ahead THEN pos ELSE ahead
                  ELSE UNCHANGED <<cursor, ahead>>
    /\ Retry
    /\ UNCHANGED <<chain, refused, stored, copies>>

Crash ==
    /\ phase # "down" /\ faults < MaxFaults
    /\ faults' = faults + 1
    /\ GoDown
    /\ UNCHANGED <<chain, refused, dbVars>>

Complete == phase = "idle" /\ pos = StopBlock /\ cursor = StopBlock

Finished == Complete /\ UNCHANGED vars

Flush ==
    \/ \E t \in Table : CommitTable(t) \/ ConversionFails(t)
    \/ UpdateCursor

Progress ==
    \/ Run \/ (\E due \in BOOLEAN : HandleBlock(due)) \/ RejectBlock
    \/ RangeCompletion \/ Flush

Next ==
    \/ Progress
    \/ \E t \in Table, applied \in BOOLEAN : TableFails(t, applied)
    \/ \E applied \in BOOLEAN : CursorFails(applied)
    \/ Crash
    \/ Finished

Spec == Init /\ [][Next]_vars

\* The stream keeps delivering, a database that is up answers, and the process is
\* started again after it ended
FairSpec == Spec /\ WF_vars(Progress)

-----------------------------------------------------------------------------
(* Properties *)

Replica == INSTANCE LaggingReplica WITH tables <- stored, at <- cursor

\* The state is well typed
TypeOK ==
    /\ chain \in [1 .. StopBlock -> [Table -> SUBSET Key]]
    /\ refused \in Refusals
    /\ phase \in {"down", "idle", "flush"}
    /\ pos \in Height
    /\ entries \in [Table -> [Key -> Height]]
    /\ todo \subseteq Table
    /\ attempt \in 0 .. FlushRetryCount
    /\ stored \in [Table -> [Key -> Height]]
    /\ copies \in [Table -> [Key -> 0 .. MaxCopies]]
    /\ cursor \in Height
    /\ ahead \in Height
    /\ faults \in Nat

\* No cell is behind the cursor, whatever tables a failed or interrupted flush got to:
\* every cell shows the chain at a height from the cursor up to the highest block that
\* was ever flushed (the order of ClickhouseDialect.Flush: tables first, cursor last).
NeverBehindCursor == Replica!TablesBetween(stored, cursor, ahead)

\* The tables implement the abstract specification, of which the cursor moves only over
\* blocks all tables hold.
LaggingReplicaSpec == Replica!Spec

\* A row with a value convertToType refuses is never inserted.
OnlyConvertible == \A t \in Table, k \in Key : stored[t][k] \notin refused.unconvertible

\* Rows are inserted again only after a fault or a value that could not be converted:
\* without them a key has at most one row per block that wrote it.  (A conversion fails
\* after other tables were committed, at every retry and after every restart.)
CopiesBounded ==
    faults = 0 /\ refused.unconvertible = {} =>
        \A t \in Table, k \in Key :
            copies[t][k] <= Cardinality({b \in 1 .. StopBlock : k \in chain[b][t]})

\* What each cell of the tables guarantees, whatever tables a flush got to: not behind
\* the cursor, never a refused value, and no copy without a reason.
CellsFollowCursor == TypeOK /\ NeverBehindCursor /\ OnlyConvertible /\ CopiesBounded

\* The range is stored in the end and the tables are the chain at its last block, when
\* every block can be inserted.
EventuallyStored ==
    refused.unsupported \union refused.unconvertible = {} =>
        <>[](/\ cursor = StopBlock
             /\ Replica!TablesBetween(stored, StopBlock, StopBlock))
=============================================================================
