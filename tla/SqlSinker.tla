------------------------------ MODULE SqlSinker ------------------------------
(***************************************************************************)
(* The `run` command of substreams-sink-sql on PostgreSQL: the SQLSinker   *)
(* (db_changes/sinker/sinker.go), the Loader that buffers and flushes row  *)
(* operations (db_changes/db/ops.go, flush.go, cursor.go) and the          *)
(* PostgreSQL dialect that writes rows, reorg history and cursor in one    *)
(* transaction (db_changes/db/dialect_postgres.go).                        *)
(*                                                                         *)
(* The Substreams endpoint is the environment.  It delivers new blocks and *)
(* undo signals; `truth[h]` is the content the tables must have once the   *)
(* blocks 1..h of the delivered chain, and no others, have been applied.   *)
(*                                                                         *)
(* Abstractions.  A row is a partial function from non-key columns to      *)
(* values (a column outside its domain is NULL).  A member of Key stands   *)
(* for a (table, unique row id) pair.  The statements of one flush touch   *)
(* pairwise distinct rows and there are no foreign keys here, so their     *)
(* ordinal order does not matter and the flush is written pointwise.       *)
(***************************************************************************)
EXTENDS Integers, FiniteSets

CONSTANTS
    Key,                      \* row identities: (table, primary key) pairs
    Col,                      \* names of non-key columns
    Unknown,                  \* those that no table has
    Val,                      \* column values
    Absent,                   \* "there is no such row"
    None,                     \* "no operation is buffered for the row"
    Rejected,                 \* "the Loader returned an error"
    Changes,                  \* the table changes a block may carry
    MaxChanges,               \* bound: table changes per block
    StopBlock,                \* last block of the requested range
    HandleReorgs,             \* --undo-buffer-size = 0: undo signals reach us
    BatchBlockFlushInterval,  \* --batch-block-flush-interval
    BatchRowFlushInterval,    \* --batch-row-flush-interval
    LiveBlockFlushInterval,   \* --live-block-flush-interval
    FlushRetryCount,          \* --flush-retry-count
    FlushRetryDelay,          \* --flush-retry-delay, 0 disables retries
    WordSize,                 \* 2^64 in the code: where uint64 wraps
    MaxFaults,                \* bound: crashes and transient SQL failures
    MaxUndos                  \* bound: undo signals

Height == 0..StopBlock

\* Field values of a change and of a row: some columns, each with a value.
Data == UNION {[S -> Val] : S \in SUBSET Col}

OpTypes == {"INSERT", "UPSERT", "UPDATE", "DELETE"}
TableChange == [op : OpTypes, key : Key, data : Data]

\* A buffered operation.  `pk` records whether the primary key columns are
\* part of its data, `rev` is its reversibleBlockNum (NotReversible for nil).
Operation == [type : OpTypes, data : Data, pk : BOOLEAN, rev : Height]
NotReversible == 0

ASSUME ConstantsAssumption ==
    /\ IsFiniteSet(Key)
    /\ Unknown \subseteq Col
    /\ Absent \notin Data
    /\ None \notin Operation
    /\ Rejected \notin Operation \cup {None}
    /\ Changes \subseteq TableChange
    /\ StopBlock \in Nat \ {0}
    /\ WordSize \in Nat /\ WordSize > StopBlock
    /\ HandleReorgs \in BOOLEAN
    /\ BatchBlockFlushInterval \in Nat
    /\ BatchRowFlushInterval \in Nat
    /\ LiveBlockFlushInterval \in Nat
    /\ FlushRetryCount \in Nat
    /\ FlushRetryDelay \in Nat
    /\ MaxChanges \in Nat
    /\ MaxFaults \in Nat
    /\ MaxUndos \in Nat

VARIABLES
    \* the stream, as the sinker has seen it
    head,         \* number of the last block delivered
    truth,        \* truth[h]: the tables after blocks 1..h
    lib,          \* highest FinalBlockHeight announced
    \* the sinker process
    phase,        \* what the process is doing
    entries,      \* Loader.entries: the buffered operation of each row
    lastApplied,  \* SQLSinker.lastAppliedBlockNum
    flushed,      \* Stats holds a flush duration of this process
    attempt,      \* flushWithRetry's attempt counter
    applied,      \* table changes of the current block applied so far
    \* an open revert transaction
    undoTo,       \* LastValidBlock of the undo signal being handled
    pending,      \* history rows still to revert
    txRows,       \* the tables as the transaction sees them
    \* the database
    rows,         \* the user tables
    history,      \* the substreams_history table
    cursor,       \* block of the row of the cursors table
    \* bounds
    faults, undos

streamVars == <<head, truth, lib>>
txVars     == <<undoTo, pending, txRows>>
dbVars     == <<rows, history, cursor>>
vars == <<head, truth, lib, phase, entries, lastApplied, flushed,
          attempt, applied, undoTo, pending, txRows, rows, history, cursor, faults, undos>>

Phases == {"down",      \* no process
           "ready",     \* between two stream messages
           "apply",     \* in applyDatabaseChanges
           "flush",     \* in flushWithRetry, for a block
           "complete",  \* in flushWithRetry, for HandleBlockRangeCompletion
           "revert",    \* in Loader.Revert
           "done"}      \* the block range is completed

NoCursor == -1

Rows == [Key -> Data \cup {Absent}]
NoRows == [k \in Key |-> Absent]
NoEntries == [k \in Key |-> None]

HistoryRow == [block : Height, key : Key, op : {"I", "U", "D"},
               prev : Data \cup {Absent}]

\* The block the stored cursor stands for; the blank cursor is block 0.
StoredBlock == IF cursor = NoCursor THEN 0 ELSE cursor

\* The history of the chain up to h; nothing is known beyond.
Truncate(t, h) == [i \in Height |-> IF i <= h THEN t[i] ELSE NoRows]

TypeOK ==
    /\ head \in Height
    /\ truth \in [Height -> Rows]
    /\ lib \in Height
    /\ phase \in Phases
    /\ entries \in [Key -> Operation \cup {None}]
    /\ lastApplied \in Height
    /\ flushed \in BOOLEAN
    /\ attempt \in 0..FlushRetryCount
    /\ applied \in 0..MaxChanges
    /\ undoTo \in Height
    /\ pending \in SUBSET HistoryRow
    /\ txRows \in Rows
    /\ rows \in Rows
    /\ history \in SUBSET HistoryRow
    /\ cursor \in Height \cup {NoCursor}
    /\ faults \in 0..MaxFaults
    /\ undos \in 0..MaxUndos

-----------------------------------------------------------------------------
(* Loader: the operation buffered for a row (ops.go, operations.go).       *)

\* mergeData: the columns of `data` overwrite those of `base`.
MergeData(base, data) ==
    [c \in DOMAIN base \cup DOMAIN data |->
        IF c \in DOMAIN data THEN data[c] ELSE base[c]]

NoData == [c \in {} |-> c]

NewOperation(type, data, pk, rev) ==
    [type |-> type, data |-> data, pk |-> pk, rev |-> rev]

\* Insert and Upsert add the primary key columns to the data of a fresh
\* operation, Update does not.  A merged operation keeps its reversible block.
Insert(e, data, rev) ==
    IF e = None THEN NewOperation("INSERT", data, TRUE, rev) ELSE Rejected

Upsert(e, data, rev) ==
    IF e = None THEN NewOperation("UPSERT", data, TRUE, rev)
    ELSE IF e.type \in {"UPDATE", "UPSERT"}
         THEN [e EXCEPT !.type = "UPSERT", !.data = MergeData(e.data, data)]
         ELSE Rejected

\* Mutant: the columns buffered before are forgotten.
UpdateForgets(e, data, rev) ==
    IF e = None THEN NewOperation("UPDATE", data, FALSE, rev)
    ELSE IF e.type # "DELETE" THEN [e EXCEPT !.data = data] ELSE Rejected

Update(e, data, rev) ==
    IF e = None THEN NewOperation("UPDATE", data, FALSE, rev)
    ELSE IF e.type # "DELETE"
         THEN [e EXCEPT !.data = MergeData(e.data, data)]
         ELSE Rejected

Delete(e, rev) == NewOperation("DELETE", NoData, FALSE, rev)

\* applyDatabaseChanges: dispatch of one table change.
Buffer(e, c, rev) ==
    CASE c.op = "INSERT" -> Insert(e, c.data, rev)
      [] c.op = "UPSERT" -> Upsert(e, c.data, rev)
      [] c.op = "UPDATE" -> Update(e, c.data, rev)
      [] c.op = "DELETE" -> Delete(e, rev)

\* Mutant: the first block above the final one counts as final.
ReversibleBlockNumLate == IF head > lib + 1 THEN head ELSE NotReversible

\* applyDatabaseChanges: a block above the final one may be undone.
ReversibleBlockNum == IF head > lib THEN head ELSE NotReversible

\* Mutant: one row too many is tolerated.
FlushNeededLate ==
    Cardinality({k \in Key : entries[k] # None}) > BatchRowFlushInterval + 1

FlushNeeded ==
    Cardinality({k \in Key : entries[k] # None}) > BatchRowFlushInterval

-----------------------------------------------------------------------------
(* PostgreSQL: the statements of prepareStatement and revertOp.            *)

\* What a statement of type `type` leaves of the row `row`.
ExecuteOn(type, data, row) ==
    CASE type = "INSERT" -> data
      [] type = "UPSERT" -> IF row = Absent THEN data ELSE MergeData(row, data)
      [] type = "UPDATE" -> IF row = Absent THEN Absent ELSE MergeData(row, data)
      [] type = "DELETE" -> Absent

Execute(o, row) == IF o = None THEN row ELSE ExecuteOn(o.type, o.data, row)

\* prepareStatement finds every column in the table.  An INSERT fails on an
\* existing primary key, an UPSERT whose column list lacks the primary key on
\* its NOT NULL constraint, an UPDATE of no column on its syntax.
Executable(o, row) ==
    o # None => /\ DOMAIN o.data \cap Unknown = {}
                /\ o.type = "INSERT" => row = Absent
                /\ o.type = "UPSERT" => o.pk
                /\ o.type = "UPDATE" => DOMAIN o.data # {}

\* Mutant: an upsert is always saved as an update.
UpsertIsUpdate(row) == "U"

\* saveUpsert: the CASE of its SELECT, by whether the row exists.
SavedUpsertOp(row) == IF row = Absent THEN "I" ELSE "U"

\* The history rows saveInsert, saveUpsert, saveUpdate and saveDelete write
\* before the statement itself.  The SELECT of saveRow finds no row to save
\* when the row does not exist.
SaveHistory(k, o, row) ==
    LET saved(op, prev) == [block |-> o.rev, key |-> k, op |-> op, prev |-> prev]
    IN  IF o = None \/ o.rev = NotReversible THEN {}
        ELSE CASE o.type = "INSERT" -> {saved("I", Absent)}
               [] o.type = "UPSERT" -> {saved(SavedUpsertOp(row), row)}
               [] o.type = "UPDATE" -> IF row = Absent THEN {} ELSE {saved("U", row)}
               [] o.type = "DELETE" -> IF row = Absent THEN {} ELSE {saved("D", row)}

\* revertOp: DELETE for "I", INSERT of the previous row for "D" (it fails
\* when the row exists), UPDATE for "U" (it finds nothing when it does not).
RevertFails(r, row) == r.op = "D" /\ row # Absent

RevertOp(r, row) ==
    CASE r.op = "I" -> Absent
      [] r.op = "D" -> r.prev
      [] r.op = "U" -> IF row = Absent THEN Absent ELSE r.prev

\* Mutant: the first reversible block is pruned too.
PruneOneTooMany(hist, final) == {r \in hist : r.block > final + 1}

PruneReversibleSegment(hist, final) == {r \in hist : r.block > final}

\* The history rows Revert selects, and what its DELETE leaves.
ToRevert(n) == {r \in history : r.block > n}

\* Mutant: the reverted history rows stay.
KeepReverted(n) == history

PruneReverted(n) == history \ ToRevert(n)

\* Mutant: the oldest history row first.
NextToRevertOldest == {r \in pending : \A q \in pending : r.block <= q.block}

\* The next row in Revert's order: ORDER BY block_num DESC, with no order
\* among the rows of one block.
NextToRevert == {r \in pending : \A q \in pending : q.block <= r.block}

-----------------------------------------------------------------------------
(* The process.                                                            *)

\* The process is gone: everything in memory is lost, an open transaction is
\* rolled back, and the stream will be asked to resume at the stored cursor.
GoDown ==
    /\ phase' = "down"
    /\ head' = StoredBlock
    /\ truth' = Truncate(truth, StoredBlock)
    /\ entries' = NoEntries
    /\ lastApplied' = 0
    /\ flushed' = FALSE
    /\ attempt' = 0
    /\ applied' = 0
    /\ undoTo' = 0
    /\ pending' = {}
    /\ txRows' = NoRows
    /\ UNCHANGED <<lib, dbVars, undos>>

\* Run: read the cursor, or write the blank one the updates rely on.
Run ==
    /\ phase = "down"
    /\ phase' = "ready"
    /\ cursor' = StoredBlock
    /\ lastApplied' = StoredBlock
    /\ UNCHANGED <<streamVars, entries, flushed, attempt, applied, txVars, rows,
                   history, faults, undos>>

\* HandleBlockScopedData is called with block head + 1; `final` is its
\* FinalBlockHeight.
ReceiveBlock(final) ==
    /\ phase = "ready"
    /\ head < StopBlock
    /\ final >= lib
    /\ final <= head + 1 \/ final = lib
    /\ head' = head + 1
    /\ truth' = [truth EXCEPT ![head + 1] = truth[head]]
    /\ lib' = final
    /\ phase' = "apply"
    /\ applied' = 0
    /\ UNCHANGED <<entries, lastApplied, flushed, attempt, txVars, dbVars, faults, undos>>

\* The contract of the Substreams module: it creates rows that do not exist
\* and updates rows that do.  It may name columns no table has, and update none.
Legal(c) ==
    /\ c.op = "INSERT" => truth[head][c.key] = Absent
    /\ c.op = "UPDATE" => truth[head][c.key] # Absent

\* One turn of the loop of applyDatabaseChanges.
ApplyChange(c) ==
    /\ phase = "apply"
    /\ applied < MaxChanges
    /\ Legal(c)
    /\ LET e == Buffer(entries[c.key], c, ReversibleBlockNum)
       IN  /\ e # Rejected
           /\ entries' = [entries EXCEPT ![c.key] = e]
    /\ truth' = [truth EXCEPT ![head][c.key] = ExecuteOn(c.op, c.data, @)]
    /\ applied' = applied + 1
    /\ UNCHANGED <<head, lib, phase, lastApplied, flushed, attempt, txVars, dbVars,
                   faults, undos>>

\* The Loader refuses the change; the handler's error ends the sinker.
RejectChange(c) ==
    /\ phase = "apply"
    /\ applied < MaxChanges
    /\ Legal(c)
    /\ Buffer(entries[c.key], c, ReversibleBlockNum) = Rejected
    /\ GoDown
    /\ UNCHANGED faults

BatchBlockModulo(isLive) ==
    IF isLive THEN LiveBlockFlushInterval ELSE BatchBlockFlushInterval

Uint64Sub(a, b) == IF a >= b THEN a - b ELSE a - b + WordSize

\* `slow`: the flushes of this process, if any, take longer on average than
\* the time since the last applied block.
BlockFlushNeeded(isLive, slow) ==
    /\ BatchBlockModulo(isLive) > 0
    /\ Uint64Sub(head, lastApplied) >= BatchBlockModulo(isLive)
    /\ ~(isLive /\ slow /\ flushed)

\* The rest of HandleBlockScopedData: is it time to flush?
EndBlock(isLive, slow) ==
    /\ phase = "apply"
    /\ phase' = IF BlockFlushNeeded(isLive, slow) \/ FlushNeeded
                THEN "flush" ELSE "ready"
    /\ attempt' = 0
    /\ applied' = 0
    /\ UNCHANGED <<streamVars, entries, lastApplied, flushed, txVars, dbVars, faults,
                   undos>>

\* Mutant: the range ends without the last flush.
RangeCompletionNoFlush ==
    /\ phase = "ready"
    /\ head = StopBlock
    /\ phase' = "done"
    /\ attempt' = 0
    /\ UNCHANGED <<streamVars, entries, lastApplied, flushed, applied, txVars, dbVars,
                   faults, undos>>

\* HandleBlockRangeCompletion: the last block has been processed.
RangeCompletion ==
    /\ phase = "ready"
    /\ head = StopBlock
    /\ phase' = "complete"
    /\ attempt' = 0
    /\ UNCHANGED <<streamVars, entries, lastApplied, flushed, applied, txVars, dbVars,
                   faults, undos>>

FlushExecutable == \A k \in Key : Executable(entries[k], rows[k])

\* Mutant: the cursor is not written.
SkipCursor(b) == cursor' = cursor

UpdateCursor(b) == cursor' = b

\* Mutant: the buffer survives the flush.
KeepEntries == entries' = entries

\* Loader.reset.
Reset == entries' = NoEntries

\* Loader.Flush up to its COMMIT: the operations with their history, the
\* pruning and the cursor in one transaction, then the buffer is reset.
LoaderFlush(final) ==
    /\ FlushExecutable
    /\ rows' = [k \in Key |-> Execute(entries[k], rows[k])]
    /\ history' = PruneReversibleSegment(
                    history \cup UNION {SaveHistory(k, entries[k], rows[k]) : k \in Key},
                    final)
    /\ UpdateCursor(head)
    /\ Reset

FlushCommit ==
    /\ phase = "flush"
    /\ LoaderFlush(lib)
    /\ lastApplied' = head
    /\ flushed' = TRUE
    /\ phase' = "ready"
    /\ attempt' = 0
    /\ UNCHANGED <<streamVars, applied, txVars, faults, undos>>

CompletionCommit ==
    /\ phase = "complete"
    /\ LoaderFlush(head)
    /\ phase' = "done"
    /\ attempt' = 0
    /\ UNCHANGED <<streamVars, lastApplied, flushed, applied, txVars, faults, undos>>

\* Mutant: one attempt too many.
MayRetryOnceMore == attempt <= FlushRetryCount /\ FlushRetryDelay > 0

\* flushWithRetry: another attempt, unless they are used up or disabled.
MayRetry == attempt < FlushRetryCount /\ FlushRetryDelay > 0

\* A flush attempt fails, for a transient reason or because a statement
\* cannot succeed; it is rolled back.  flushWithRetry tries again, or gives
\* up and the handler's error ends the sinker.
FlushFailure ==
    /\ phase \in {"flush", "complete"}
    /\ IF FlushExecutable
       THEN faults < MaxFaults /\ faults' = faults + 1
       ELSE UNCHANGED faults
    /\ IF MayRetry
       THEN /\ attempt' = attempt + 1
            /\ UNCHANGED <<streamVars, phase, entries, lastApplied, flushed, applied,
                           txVars, dbVars, undos>>
       ELSE GoDown

\* HandleBlockUndoSignal: the blocks above n left the chain.  Loader.Revert
\* opens a transaction and reads the history above n.
UndoSignal(n) ==
    /\ phase = "ready"
    /\ HandleReorgs
    /\ undos < MaxUndos
    /\ n >= lib
    /\ n < head
    /\ undos' = undos + 1
    /\ phase' = "revert"
    /\ undoTo' = n
    /\ pending' = ToRevert(n)
    /\ txRows' = rows
    /\ UNCHANGED <<streamVars, entries, lastApplied, flushed, attempt, applied, dbVars,
                   faults>>

\* One turn of the loop over the history rows of Revert.
RevertRow(r) ==
    /\ phase = "revert"
    /\ r \in NextToRevert
    /\ ~RevertFails(r, txRows[r.key])
    /\ txRows' = [txRows EXCEPT ![r.key] = RevertOp(r, @)]
    /\ pending' = pending \ {r}
    /\ UNCHANGED <<streamVars, phase, entries, lastApplied, flushed, attempt, applied,
                   undoTo, dbVars, faults, undos>>

\* The end of Loader.Revert: prune, move the cursor, COMMIT.  Neither the
\* buffer nor lastAppliedBlockNum is touched.
RevertCommit ==
    /\ phase = "revert"
    /\ pending = {}
    /\ rows' = txRows
    /\ history' = PruneReverted(undoTo)
    /\ UpdateCursor(undoTo)
    /\ head' = undoTo
    /\ truth' = Truncate(truth, undoTo)
    /\ phase' = "ready"
    /\ undoTo' = 0
    /\ txRows' = NoRows
    /\ UNCHANGED <<lib, entries, lastApplied, flushed, attempt, applied, pending, faults,
                   undos>>

\* Revert returns an error, its own or a transient one: the sinker ends.
RevertFailure ==
    /\ phase = "revert"
    /\ IF \E r \in NextToRevert : RevertFails(r, txRows[r.key])
       THEN UNCHANGED faults
       ELSE faults < MaxFaults /\ faults' = faults + 1
    /\ GoDown

\* The process dies or is told to stop; Close does not flush.
Crash ==
    /\ phase \notin {"down", "done"}
    /\ faults < MaxFaults
    /\ faults' = faults + 1
    /\ GoDown

Terminated == phase = "done" /\ UNCHANGED vars

Init ==
    /\ head = 0
    /\ truth = [h \in Height |-> NoRows]
    /\ lib = 0
    /\ phase = "down"
    /\ entries = NoEntries
    /\ lastApplied = 0
    /\ flushed = FALSE
    /\ attempt = 0
    /\ applied = 0
    /\ undoTo = 0
    /\ pending = {}
    /\ txRows = NoRows
    /\ rows = NoRows
    /\ history = {}
    /\ cursor = NoCursor
    /\ faults = 0
    /\ undos = 0

Next ==
    \/ Run
    \/ \E final \in Height : ReceiveBlock(final)
    \/ \E c \in Changes : ApplyChange(c)
    \/ \E c \in Changes : RejectChange(c)
    \/ \E isLive, slow \in BOOLEAN : EndBlock(isLive, slow)
    \/ RangeCompletion
    \/ FlushCommit
    \/ CompletionCommit
    \/ FlushFailure
    \/ \E n \in Height : UndoSignal(n)
    \/ \E r \in pending : RevertRow(r)
    \/ RevertCommit
    \/ RevertFailure
    \/ Crash
    \/ Terminated

Spec == Init /\ [][Next]_vars

\* The supervisor restarts the process, the endpoint keeps delivering, and a
\* handler that runs returns; nothing is assumed of failures and undos
\* except that there are finitely many.
Fairness ==
    /\ WF_vars(Run)
    /\ WF_vars(\E final \in Height : ReceiveBlock(final))
    /\ WF_vars(\E isLive, slow \in BOOLEAN : EndBlock(isLive, slow))
    /\ WF_vars(RangeCompletion)
    /\ WF_vars(FlushCommit)
    /\ WF_vars(CompletionCommit)
    /\ WF_vars(FlushFailure /\ ~FlushExecutable)
    /\ WF_vars(\E r \in pending : RevertRow(r))
    /\ WF_vars(RevertCommit)

FairSpec == Spec /\ Fairness

-----------------------------------------------------------------------------
(* Properties.                                                             *)

\* Exactly once, whatever crashes, retries and reorgs happen: the tables hold
\* the changes of the blocks up to the stored cursor and nothing else
\* (Flush and Revert write rows and cursor in the same transaction).
RowsMatchCursor == rows = truth[StoredBlock]

\* While the process lives, the tables plus the buffered operations are the
\* delivered chain: merging operations in the Loader loses no change, and the
\* buffer holds no change of a block that was undone.
BufferMatchesHead ==
    phase \in {"ready", "apply", "flush", "complete"} =>
        \A k \in Key : Execute(entries[k], rows[k]) = truth[head][k]

\* Every history row a later undo may need holds the row as it was before its
\* block, under the operation that restores it.
HistoryRestores ==
    phase # "done" =>
        \A r \in history : r.block > lib =>
            /\ r.prev = truth[r.block - 1][r.key]
            /\ r.op = "I" <=> r.prev = Absent
            /\ r.op = "U" => truth[r.block][r.key] # Absent
            /\ r.op = "D" => truth[r.block][r.key] = Absent

\* No change of a stored, still reversible block escapes the history: a row
\* that differs between two such blocks has a history row in between.
HistoryComplete ==
    phase # "done" =>
        \A h, g \in Height : lib <= h /\ h < g /\ g <= StoredBlock =>
            \A k \in Key :
                (\A r \in history : r.key = k => ~(h < r.block /\ r.block <= g))
                    => truth[h][k] = truth[g][k]

\* Revert orders the history by block alone; that is enough because there is
\* never more than one history row for a row in a block.
OneHistoryRowPerKeyAndBlock ==
    \A r, q \in history : r.key = q.key /\ r.block = q.block => r = q

\* Reverting never fails on the data: a re-inserted row does not exist, an
\* updated one does.
RevertApplies ==
    phase = "revert" =>
        \A r \in NextToRevert : /\ r.op = "D" => txRows[r.key] = Absent
                                /\ r.op = "U" => txRows[r.key] # Absent

\* The history is fit for any undo that may come: it holds the right versions of the rows,
\* misses none, needs no order inside a block, and reverting it does not fail.
HistorySupportsUndo ==
    /\ HistoryRestores
    /\ HistoryComplete
    /\ OneHistoryRowPerKeyAndBlock
    /\ RevertApplies

\* A flush of legal changes that are not stored yet cannot be refused by the
\* database: what Insert, Upsert, Update and Delete make of several changes to a
\* row is still a statement the row accepts.
BufferExecutable ==
    phase \in {"ready", "apply", "flush", "complete"} /\ cursor < head => FlushExecutable

\* The sink is the replica TableReplica describes, seen through the stored
\* cursor: flushes, retries, crashes and reverts show a reader nothing but
\* whole prefixes of the chain, and no stored block is replaced unless it is
\* undone (Flush and Revert are single transactions that move the cursor).
Replica == INSTANCE TableReplica
             WITH chain <- truth, final <- lib, tables <- rows, at <- StoredBlock

ImplementsReplica == Replica!Spec

\* The Loader or the database refuses the changes themselves.
Refusal ==
    \/ \E c \in Changes : RejectChange(c)
    \/ FlushFailure /\ ~FlushExecutable

\* The whole range ends up stored, once crashes, failures and reorgs stop, unless
\* the changes are refused again and again: skipped live flushes, exhausted
\* retries and empty blocks never leave the end of the range in the buffer
\* (HandleBlockRangeCompletion flushes it).
Completes == <>[][~Refusal]_vars => <>[](phase = "done" /\ cursor = StopBlock)
=============================================================================
