# Verification of substreams-sink-sql

TLA+ specifications of [substreams-sink-sql](../src/README.md), model-checked with
TLC and proved with TLAPS. Paths below are relative to `src/`. `PROJECT.json` maps
every definition to the lines it translates and lists the runs, the mutants, the
finding, the hazards and the theorems.

## 1. The system

The program consumes the output of a Substreams module and keeps a database, or a set
of CSV files, in step with it. The stream is a sequence of `BlockScopedData` messages,
each with a cursor, and, when `--undo-buffer-size` is 0, `BlockUndoSignal` messages that
say which block is the last valid one. The cursor that is stored with the data is all
a sink needs to resume. There are two ways to feed it: database changes, a list of
operations the module computed (`db_changes/`), and from-proto, where rows are derived
from the module's own messages (`db_proto/`). Each has a command that writes a database
directly and one that writes CSV files to be loaded later.

| Component | State | Operations | Talks to |
|---|---|---|---|
| `SQLSinker` (`db_changes/sinker/sinker.go`) | `lastAppliedBlockNum`, flush statistics | `Run`, `HandleBlockScopedData`, `HandleBlockUndoSignal`, `HandleBlockRangeCompletion`, `flushWithRetry` | called back by the Substreams sink library; calls the Loader |
| `Loader` (`db_changes/db/`: `ops.go`, `operations.go`, `flush.go`, `db.go`) | `entries`: one buffered operation per row | `Insert`, `Upsert`, `Update`, `Delete`, `FlushNeeded`, `Flush`, `Revert`, `reset` | dialect, cursors table |
| PostgreSQL dialect (`dialect_postgres.go`) | user tables, `substreams_history` | `Flush`, `Revert`, `revertOp`, `save*`, `pruneReversibleSegment` | database, in transactions |
| RisingWave dialect (`dialect_risingwave.go`) | the same | the same | database, each statement committed |
| ClickHouse dialect (`dialect_clickhouse.go`) | tables, cursors | `Flush`, value conversion | database, one transaction per table |
| Cursors (`cursor.go`) | one cursor per module hash | `GetCursor`, `InsertCursor`, `UpdateCursor`, mismatch policies | database |
| generate-csv (`generate_csv_sinker.go`, `bundler/`, `state/`) | active boundaries, upload queues, `state.yaml` | block handler, `Roll`, `Start`, `Stop`, uploads, `Save`, shutdown | object store |
| inject-csv (`inject_csv.go`) | none of its own | select files, COPY, write the cursor | object store, database |
| from-proto sinker (`db_proto/sinker.go`) | held blocks, `lastAppliedBlockNum` | `Run`, the three handlers, `processHolder` | from-proto databases |
| from-proto databases (`db_proto/sql/`) | rows, `_blocks_`, cursor, schema hash | inserters, `HandleBlocksUndo`, `StoreCursor`, the walk over a message, DDL | database, files |
| from-proto setup (`sinker_factory.go`) | schema hash | create, migrate, open | database |
| from-proto-generate-csv (`from_proto_generate_csv.go`) | as generate-csv | handlers, own walk, own formatting | bundler |

What is hard:

* **Crash and retry around a flush.** PostgreSQL commits rows, history and cursor
  together; RisingWave commits every statement; ClickHouse every table; both put the
  cursor last. A COMMIT may take effect and its answer be lost.
* **Merging.** Several changes of a row, possibly of several blocks, become one statement.
* **Reorganisations.** The history of a row is written with the row and pruned later, and
  must be enough for any undo the chain permits; from-proto deletes instead, through
  foreign keys or tombstones, while blocks may still be held back.
* **Flush decisions**, with `uint64` differences and a flush that is skipped while
  flushes are slow.
* **Files.** Rows, state and cursor are written by parallel workers and closed at
  boundaries of blocks; commands are interrupted and run again over what they left.
* **Two of everything.** Columns and values, tables and INSERTs, the walk that inserts and
  the walk that exports are derived by separate code and meet by position or by name.
* **Setup.** A schema is created, fingerprinted and migrated in steps that can be cut, and
  another package may be deployed in between.

What makes the components correct: the tables are the chain up to the stored cursor
(transactions), or never behind it (no transactions); a revert restores the last valid
block; nothing that was received is lost or written twice; a range is stored in the end;
files cover the range and can be read back; a sink runs on the tables it expects.

## 2. Modules

| Module | Content |
|---|---|
| `SqlSinker` | SQLSinker, Loader, PostgreSQL dialect and one cursor, with the stream, crashes and failures as environment |
| `LostCommit` | `SqlSinker` with COMMITs whose answer is lost |
| `TableReplica` | abstract specification of `SqlSinker`: what a reader of the database may see |
| `Cursors` | the cursors table with several module hashes, and what `Run` makes of it |
| `RisingwaveSink` | the same sink on RisingWave: no transactions |
| `ClickhouseSink` | the same sink on ClickHouse: a transaction per table |
| `LaggingReplica` | abstract specification of `ClickhouseSink` |
| `Bundler` | boundaries, buffered writer and object writes, shared by both CSV commands |
| `GenerateCsv` | generate-csv: sinker, bundlers, upload workers, state store |
| `InjectCsv` | `GenerateCsv` followed by inject-csv |
| `FromProto` | the from-proto sinker on its three databases |
| `FromProtoRows` | the rows, columns, tables and INSERTs derived from message descriptors |
| `FromProtoSetup` | what happens before from-proto streams |
| `ProtoCsv` | from-proto-generate-csv: handlers, bundlers, completion |
| `ProtoCsvRows` | `FromProtoRows` beside the walk of from-proto-generate-csv |
| `CsvText` | a row as text: both encoders, and the reader of COPY |
| `MC*` | the sets and definitions TLC needs for an instance |
| `CursorsProofs`, `RisingwaveSinkProofs`, `ClickhouseSinkProofs`, `FromProtoProofs`, `FromProtoSetupProofs` | theorems about the module named, checked by TLAPS |
| `SqlSinkerProofs` | theorems about `SqlSinker` and `LostCommit` |
| `InjectCsvProofs` | theorems about `Bundler`, `GenerateCsv` and `InjectCsv` |
| `ProtoCsvProofs` | theorems about `ProtoCsv`, `FromProtoRows`, `ProtoCsvRows` and `CsvText` |

Definitions whose comment begins with "Mutant:" belong to no specification. Each is a
plausible error in the definition next to it and is used to test the properties.

### SqlSinker, LostCommit, TableReplica

`entries` is `Loader.entries`; `lastApplied` is `lastAppliedBlockNum`; `flushed` says
whether `Stats` has a flush duration; `attempt` is the counter of `flushWithRetry`; `rows`,
`history`, `cursor` are the three kinds of tables; `undoTo`, `pending`, `txRows` are the
transaction of a `Revert` in progress. `head`, `truth`, `lib` are the stream: the last block
delivered, the tables as they should be after each delivered block, the final height.

| Action | Code |
|---|---|
| `Run` | `SQLSinker.Run`: `GetCursor`, or `InsertCursor` of the blank cursor |
| `ReceiveBlock`, `ApplyChange`, `RejectChange`, `EndBlock` | `HandleBlockScopedData` and the loop of `applyDatabaseChanges`; `Buffer` dispatches to `Insert`, `Upsert`, `Update`, `Delete` |
| `FlushCommit`, `FlushFailure` | an attempt of `flushWithRetry`: `Loader.Flush`, then the statistics and `lastAppliedBlockNum`, or a retry, or the end of the process |
| `CommitUnacknowledged` (`LostCommit`) | the database commits, `Loader.Flush` returns an error before `reset`; the same operations are flushed again, or the process ends |
| `RangeCompletion`, `CompletionCommit` | `HandleBlockRangeCompletion` |
| `UndoSignal`, `RevertRow`, `RevertCommit`, `RevertFailure` | `HandleBlockUndoSignal`, `Loader.Revert`, `PostgresDialect.Revert` |
| `Crash` | the process dies or is stopped at any point; `Close` does not flush |

`GoDown` is what every fatal error amounts to: the memory is gone, open transactions are
rolled back, and the stream resumes after the stored cursor. An undo of blocks below that
cursor can come right after the restart, as when the stored cursor is on a fork.

A row is a partial function from non-key columns to values; a key stands for a table and a row id;
the statements of one flush touch distinct rows, so without foreign keys their order is irrelevant
and the flush is written pointwise. Time enters only through `slow`, an arbitrary outcome of the
comparison that may skip a live flush. `Legal` is the contract of the module that feeds the sink:
it creates rows that do not exist and updates rows that do; a change may name a column the table
does not have (`Unknown`), and `Executable` says which statements the database takes: an UPDATE
without columns is none of them. In `LostCommit` the flush of the range completion may lose its
answer as well, and a process that has no attempt left goes down with the rows stored
(`FlushFinal`, `Committed`, `GoDownStored`). `TableReplica` has three steps: blocks above the
stored one are delivered, the tables jump forward to a delivered block, or back to a block not
below the final one.

### Cursors

`cursors` is the table, one block per module hash; `at` is the block the user tables stand
at, which only a flush and a revert move, in the transaction that updates the row of the
deployed package `me`. `Run` is `GetCursor` with its three mismatch policies; `InsertCursor`
is a step of its own, since the process may die between reading the cursor of another
package and writing its own row. `Deploy` is the operator who installs another package;
`policy` says which policy is used, whether earlier packages come back and how deep undos
reach, and never changes.

### RisingwaveSink, ClickhouseSink, LaggingReplica

`RisingwaveSink` shares its shape with `SqlSinker`, but there is no transaction: the history
row of an operation (`SaveRow`), its statement (`ExecStatement`), the pruning (`Prune`) and the
cursor (`FlushEnds`) are commits of their own, and so are `RevertRow`, `PruneReverted` and
`RevertEnds`. `StatementFails` retries a flush of which a part is already in the tables,
`RisingWaveAutocommitTx.Rollback` being a no-op. `entries` is the Loader's buffer: `HandleBlock`
merges the operations of a block into it (`Merge`; what `Rejects` refuses ends the process,
`RejectBlock`), and flushes or holds them, a choice left open because the intervals, the LIVE
check and the statistics decide it. A cursor is the path of blocks that leads to it, so that two
forks of one height differ. The stream has no end here: the flush of a range completion is that
of `SqlSinker`. A history row is known by what it says; two rows with one generated id, for which
the id would have to repeat, are not modelled.

`ClickhouseSink` has one step per table (`CommitTable`), the cursor last (`UpdateCursor`),
rows refused by the conversion (`ConversionFails`), a failed batch whose rows may be in all
the same (`TableFails`, `CursorFails`), and the whole flush again. A row is the block that
wrote it; `copies` counts what ReplacingMergeTree will have to merge. When a flush is due
is left open. `LaggingReplica` says what is left of atomicity: each cell shows the chain
somewhere between the cursor and the highest flush, and the cursor passes a block only
when no cell is behind it.

### Bundler, GenerateCsv, InjectCsv

`Bundler` holds the boundary arithmetic of `bundler.go` (`NewBoundary`, `ComputeEndBlock`,
`BoundariesToSkip`, `InRange`), the buffered writer (`DumpRow` spills memory to a working
file; `CloseBoundary`, `Stop` put the parts together) and what a write does to an object
that exists (`KeepsExisting`).

`GenerateCsv.HandleBlockScopedData` is the whole handler: rows to the active boundary,
cursor, state queued at multiples of the bundle size, roll. `UploadBoundary` and
`UploadCursor` are the workers. `HandleBlockRangeCompletion`, `WriteCursorsTable` and
`Terminated` are the shutdown; `RejectBlock` is a change that is no CREATE or an undo
signal; `Crash` and `Run` lose the memory and read `state.yaml`.

Each write to the output store may fail. After `UploadBoundaryFails` the bundler of that table
shuts down: its file is gone (`lost`), what waits in its queue stays there, and since nobody
listens to the bundler (`Down`) the command goes on and completes, its cursors table naming the
last block. A queue takes `QueueSize` files; a roll that has one more waits, for ever if the
bundler is down (`Blocked`, `Hang`). `UploadCursorFails` and `WriteCursorsTableFails` end the
command. What the library that runs the uploads does is external: a worker that ends after the
shutdown is one that ended before it, and the panic a send on the closed channel would be is a
`Crash`. Errors of the local working directory are not modelled.

`InjectCsv` adds one invocation per table: `StartFiller` selects the files, `InjectCSVFromFile` is a COPY that inserts a whole
file or, on a duplicate key, nothing, `InjectCursorsTable` the cursor.

### FromProto, FromProtoRows, FromProtoSetup

`FromProto` holds blocks (`holding`) and turns them into `stmts`, what is committed at once: a
single batch with the cursor in PostgreSQL (`CommitFlush`), row by row or table by table in
RisingWave, table by table in ClickHouse, whose cursor file is truncated and then written
(`TruncateCursor`, `WriteCursor`). A map of Go has any order, so `Statements` is a set of
sequences; ClickHouse sorts by ordinal, and the other way round in an undo (`UndoStatements`). An
entity is a row of a table (`TableOf`). On RisingWave and ClickHouse a table without a primary key
gets the number of the block as its key, and the parent on RisingWave, so that the rows a block
has there replace each other: `WithInserted` keeps one row of those with the `SameKey`, and
`Represented` are the rows that are in the tables or were replaced by one of their own block.
(Rows of one table under different parents count as rows of different tables.) On ClickHouse the
rows of a table in `Shifted` get tombstones with values in each other's columns, which may hide
any rows of that table (`Hidden`) or be refused (`RefuseUndo`); `TombstonesFit` says that there is
none, and `FromProtoRows` which tables these are. `Run` removes what is above the cursor it finds.
`Undo`, `ExecUndo`, `UndoEnds` are `HandleBlockUndoSignal`, which stores its cursor in a second
transaction. `Conflict` is the primary key of `_blocks_`. `config` is the driver, the constraints,
the batch size, whether flushes are ever slow (which is only known after a first one), and the
bounds of a behaviour.

`FromProtoRows` takes a chain of message types with fields of each kind and defines the columns of
the INSERT, of each database's table and of a tombstone, and the values
`WalkMessageDescriptorAndInsertWithDialect` collects (`Walk`, `Fail`). Columns and values are the
numbers of their fields, in `Ascending` order. The option `child_of` is free: it names any column
of any table or nothing (`childOf`), whatever the messages are nested in, while the walk adds the
key of the nearest message above with a key. A package without the proto options
(`useProtoOptions`) has a table for every message with columns, no keys and no parents. `Misfits`
are rows the database refuses. A message is known by the places (`Place`) it and the messages
around it have in the one above, so that a list of messages has one place for each. Names matter
only where two columns may share one: `FieldName`.

`FromProtoSetup` follows `SinkerFactory`: `Start` reads the hash; `CreateSystemTables`,
`CreateTable`, `ApplyConstraints`, `StoreSinkInfo` (in ClickHouse `CreateHashFile` and
`WriteHashFile`) and `CommitTransaction` build a schema; `UpdateSinkInfoHash`,
`SkipMigration`, `StructureDiffers` are the migration; `Open`, `OpenFails` the inserters. Each
version has tables of its own (`TablesOf`, `MadeFor`): some are dropped, some added.
`Deploy`, `PrepareTempSchema` and `AlterTables` are the operator's.

### ProtoCsv, ProtoCsvRows, CsvText

`ProtoCsv` is the handler and the completion of from-proto-generate-csv: `WriteLastCursor`
comes first, `FinalRoll` closes the last boundary, `RunReturns` waits for the queues.
`SkipBlock` is the early return for a block without output. A run is always started from
the beginning, over the files of an earlier attempt. Uploads fail as in `GenerateCsv` (`lost`,
`Hang`), and the last roll of a table may fail (`FinalRollFails`, `unrolled`): its error is logged
and the command completes. The rows of ClickHouse files carry the time they were written at,
which is the number of the run here (`version`). `ProtoCsvRows` lets the CSV walk
(`CollectRow`, `RefuseMessage`) go over the message beside the walk that inserts it, a step of
each at a time: two programs that share nothing, so that only what they end with matters. A cell
is found by the name of its column (`Assigned`, `Cells`), as `assignRowValue` does.
`CsvText.Encode` writes a row with one of the encoders; the other actions are the automaton
that reads it, character by character; that module is about the text, so there, and only
there, texts are sequences of characters.

## 3. Runs

| Run | Question | States | Answer |
|---|---|---|---|
| `sql_reorg` | reorg handling on, every non-empty block flushed: do rows, buffer, history and cursor stay consistent, is the range stored? | 2.1 M | yes |
| `sql_batch` | no undo signals, operations of several blocks merged, COMMITs whose answer is lost: is anything lost, applied twice or refused? | 0.6 M | no |
| `sql_stale_buffer` | does the buffer forget undone blocks? | | no, finding |
| `cursors` | several packages, every policy, undos, crashes: does a sink start where the tables are? | 14 k | yes, under a safe policy |
| `risingwave` | each statement committed on its own: how far apart do rows and cursor get? | 7.6 M | up to the last flush started, with faults or reorgs but not both |
| `clickhouse` | a transaction per table: is a table ever behind the cursor, are rows repeated without a reason, is the range stored? | 170 k | no, no, yes |
| `csv_files` | generate-csv, then inject-csv, with a crash, a failed upload and failed injections: what do files and tables hold? | 278 k | all rows up to the last roll, once, less the files a failed upload drops |
| `from_proto` | thirteen configurations of the from-proto sinker with faults and reorgs | 1.4 M | see the properties |
| `rows` | every schema of three message types with up to two fields, on three databases, with and without the proto options, beside the CSV walk | 1.1 M | see the properties |
| `protocsv` | from-proto-generate-csv with crashes, failed writes and reruns | 100 k | complete but for what a failed upload or last roll leaves out; the rows of a file never change |
| `csv_text` | rows with separators, quotes and line ends inside values | 67 k | read back |
| `setup` | creation and migration of a schema with crashes, failed COMMITs and deployments | 4.5 k | a running sink has the tables of the version stored, and its own where it prepares their INSERTs |

### Properties

Each has at least one mutant in `PROJECT.json` that TLC catches. A `TypeOK` is part of a
composed property where a module has one.

* `SqlSinker`. `RowsMatchCursor`: the tables are the chain up to the stored cursor.
  `BufferMatchesHead`: tables plus buffer are the chain up to the last block delivered.
  `HistorySupportsUndo`: the history of the reversible blocks holds the right versions
  (`HistoryRestores`), misses no change (`HistoryComplete`), needs no order inside a block
  (`OneHistoryRowPerKeyAndBlock`), and reverting it never fails on what it finds
  (`RevertApplies`). `BufferExecutable`: a flush of legal changes of known columns is never
  refused, except of rows that are stored already. `ImplementsReplica`: refinement of `TableReplica`.
  `Completes`: the range is stored for good.
* `Cursors`. `ResumesAtTables`: a running sink has reached the block of the tables, under
  `SafePolicy`. `UpdateFindsRow`: the cursor row a flush updates exists, under any policy.
* `RisingwaveSink`. `RowsFollowCursor`: without reorgs a row is somewhere between the cursor and
  the last block a flush was started for, however failures and restarts regroup the blocks
  (`RowsAtCursorOrAhead`); without faults, and without reorgs of blocks that were held, rows and
  cursor agree between messages (`RowsMatchCursor`). `CursorMovesWithRows`: when the cursor moves
  to that last block, all rows are there.
* `ClickhouseSink`. `CellsFollowCursor`: no cell is behind the cursor (`NeverBehindCursor`),
  no refused value is inserted (`OnlyConvertible`), copies have a reason (`CopiesBounded`).
  `LaggingReplicaSpec`: refinement. `EventuallyStored`.
* `GenerateCsv`. `NoRowLostOrTwice`: every row received is in exactly one closed file, stored,
  queued or dropped by a failed upload, or in the open boundary. `FilesShifted`: exactly which rows
  a file holds. `FilesReadable`: one header and rows in order, names that leave no gap, also after
  a crash. `CompletedUpToLastRoll`: what a command that completes has uploaded, and the block its
  cursors table names. `EventuallyEnds`: the command ends, or goes on with a bundler that is down.
* `InjectCsv`. `InjectOK`: whatever failed and was run again, a table with a key holds no
  row twice, and one whose invocation ended well has all rows of its files, in order.
* `FromProto`. `NothingMissing`: while the chain has the block of the cursor, the rows of the
  blocks up to it are in the tables, or replaced by a row of their own block with their key.
  `OnlyValidBlocks`: no rows of undone blocks between messages. `StreamInTables`: on PostgreSQL
  with constraints the tables are the stream, less what is held, and rows of two forks never stand
  side by side. `CleanAtStart`: after a start that found a cursor, nothing is beyond it, nor of a
  replaced block where no block was replaced or PostgreSQL cascades. `EventuallyStored`. On
  ClickHouse all but the second and third need tombstones that fit (`TombstonesFit`), the second
  has it in `UndoDeletesAll`; `EventuallyStored` can do without where nothing is undone or
  cleaned.
* `FromProtoRows`. `ValuesAligned`: a row the database takes has each value in the column of its
  field exactly if no list of its message is empty and its `child_of` names the key that is handed
  down (`ChildOfNearest`). `InsertsFitTables`: INSERTs name each column of their table once, if
  its columns have different names. `RowsComplete`: each message with a table has one row, no
  other has (`Complete`), and a foreign key that `child_of` makes on the key of a table finds its
  row (`ForeignKeyFound`) exactly if that table is the nearest one above with a key
  (`ParentsFirst`). `TombstonesAligned`: when a ClickHouse tombstone replaces its row.
* `ProtoCsvRows.CsvAgrees`: for a `Plain` schema, where `child_of` is given exactly if a key is
  handed down, no list is empty and column names differ, the files hold what from-proto inserts if
  both walks succeed (`CsvMatchesInsert`), and nothing it refuses (`CsvAcceptsLess`).
* `ProtoCsv`. `ExportOK`: a completed run exported every row, once, but for what failed uploads
  and failed last rolls left out (`LeftOut`). `FilesNeverChange`: a rerun writes the same rows to the
  same files; only the version of ClickHouse rows gets newer. `EventuallyReturns`: as `EventuallyEnds`.
* `CsvText.RowReadsBack`: one line, one field per column, the same values; a separator or
  quote in one value never leaks into the next.
* `FromProtoSetup`. `RunsOnTables`: a sink that runs finds a hash, the tables of the version with
  that hash or of the one an operator migrated to, the constraints in PostgreSQL, and the tables of
  its own package where the row inserter prepares a statement for each.
  `OneVersion`: PostgreSQL never mixes the tables of two versions under one hash.
  `EventuallyRuns`: an interrupted setup in PostgreSQL is taken up again.

### Bounds, and why they are enough

* `SqlSinker`: four blocks (three in `sql_batch`, which has two rows) give a final block, two
  reversible ones that are stored and undone separately, and one after them. Two changes per block
  let a row be created and changed in one block; the change sets have every operation. Two undos
  give an undo of a rebuilt fork. Two faults give a failed flush with exhausted retries, a retry
  of a commit that had succeeded, a revert that is cut and repeated. The two flush intervals
  differ so that the mode matters. One column is `Unknown` to the table. `WordSize` stands for
  2^64: any value above the heights shows the wrap-around.
* `Cursors`: three hashes let a package be deployed, replaced and replaced again; four blocks
  and an undo of two separate the rows. Hashes are symmetric.
* `RisingwaveSink`: two rows for a partial flush, two blocks (`MaxBlocks`) for a merged batch and
  a partial revert. Up to three faults (`MaxFaults`) without reorg, one more than the attempts of a
  flush; two reorgs (`MaxReorgs`) without fault; `MaxBoth` adds one of each for `TypeOK`. Rows are
  symmetric; no property is temporal.
* `ClickhouseSink`: two tables so that one can be ahead of the other, three blocks, and two
  faults, so that a flush fails for good and the restart is interrupted.
* `GenerateCsv`, `InjectCsv`: the chain 1, 2, 3, 7, 10 with bundles of two has blocks at a
  boundary, empty bundles and one that lacks its first block; the range is clipped at an odd
  stop; one line of memory makes the writer spill. One crash, one failed injection, one failed
  write; a queue of one file, so that a roll can block.
* `ProtoCsv`: the chain 1, 2, 4, 9, 10 with bundles of three likewise; two faults interrupt a rerun
  or fail an upload and the last roll; objects are overwritten here and kept in `csv_files`.
* `FromProto`: three blocks, batches of two, two forks, two crashes. Blocks carry one row, or two:
  siblings of a table without a key, or a row and one of a table below it. A configuration has
  reorgs with blocks written one by one, faults with batches, or both where the code copes;
  two crashes beside a reorg, on PostgreSQL and ClickHouse, interrupt a flush and the cleaning.
* `FromProtoRows`: three levels give a table below a wrapper below a table; two fields per
  message, one of a kind (`MaxOfKind`), give each pair of neighbours; lists of two messages
  (`ListLength`) give siblings. The run has a scalar with the name of a system column, keys,
  lists of scalars and of messages; `child_of` may name fields of two kinds (`ChildOfKind`) and does
  not follow the nesting in one table at most (`MaxStray`), since a row's columns depend on no other
  table's option. The proofs have every kind of field and any `child_of`.
* `CsvText`: two cells (`Width`) in all kinds of columns, texts of up to two characters
  (`MaxText`): a quote beside each other character; the proof has rows and texts of any length.
* `FromProtoSetup`: two versions that share one of three tables, so that a migration drops one,
  keeps one and adds one, and a crash leaves some; two deployments and three faults.

Deadlock is checked in every run but `setup`, where an interrupted setup may leave a database
with which the program cannot start; the other modules have an action for the states in
which they are done.

### Fairness

Every fair specification assumes that a process that ended is started again and that its own steps
go on: handlers return, statements are answered, upload workers run. Go schedules every goroutine
that can run, and a service manager, or the user of a CSV command, starts a process that crashed
again. Nothing is assumed of crashes, failures, undo signals, reorganisations, deployments or what
the operator does by hand; inject-csv has no fairness, since only an operator runs it. `FromProto`
also assumes that the chain grows. Faults are bounded, so that a flush that can succeed is not
failed for ever; a change the Loader refuses for ever, a value ClickHouse cannot convert, or a
database with the tables of another version are the antecedents of `Completes`, `EventuallyStored`
and `EventuallyRuns`.

## 4. Finding and deviations

**An undo leaves the buffer as it is** (`flush.go:52`, `sql_stale_buffer`). When a live flush
was put off because flushes are slow, the buffered changes of undone blocks are written with
the next flush, although reorg handling is said to undo everything above the valid block.

The conditions in the properties above stand for behaviour of the code that a reader may
not expect: without the condition TLC finds a counterexample.

Database changes:

* The cursor of an undo may be ahead of what is stored, and is stored as it is
  (`flush.go:69`); a merged operation keeps its first reversible block and loses the history
  of the later ones (`operations.go:95`). `SafeConfig`: every non-empty block is flushed.
* An update followed by an upsert merges to a statement without the primary key
  (`ops.go:140`): `TwoRowChanges` never has both on a row, and in `RisingwaveSink` `Legal` has none.
* An update without columns becomes a statement without assignments, and one of an unknown column an
  error (`dialect_postgres.go:412`, `:466`): either is refused again after each restart. `sql_reorg`
  has both; `BufferExecutable`, that a flush is never refused, is about modules that send neither,
  as `TwoRowChanges` (`KnownColumns` in the proof).
* A row interval of 0 flushes every non-empty block (`db.go:224`), where the flag's text
  suggests that it disables the interval; `sql_reorg` relies on it.
* Going back to an earlier package resumes below the tables (`cursor.go:59`), and after an
  undo the row of an older package may be the highest (`cursor.go:68`): `SafePolicy`.
* A retry after a lost COMMIT saves a history of the new values: `sql_batch` has no undos.
* RisingWave: a failed flush is not rolled back (`db.go:187`), and a repeated UPDATE saves a
  second history row with the updated value; a fault and a reorg together restore wrong
  rows. Blocks that are held over an undo stay in the buffer here, too. An upsert overwrites the
  whole row.
* ClickHouse: `NewLoader` refuses an undo buffer size of 0 (`db.go:103`). A value that cannot be
  converted is found after other tables were committed, and each restart inserts those again.

CSV:

* A failed upload shuts one bundler down and nothing else (`bundler.go:86`, `:224`): the command
  completes without the rows of that file and of those queued behind it, its cursor saved all the
  same, or waits for ever in a later roll on the full queue (`bundler.go:175`).
  `CompletedUpToLastRoll`, `ExportComplete` (`LeftOut`), `EventuallyEnds` and `EventuallyReturns`
  name the bundlers that are `Down`.
* The error of the last roll of from-proto-generate-csv is only logged
  (`from_proto_generate_csv.go:1564`): the lines of that table are left out (`LeftOut`).
* The rows of its ClickHouse files carry `time.Now().UnixNano()` as version
  (`from_proto_generate_csv.go:1191`): a rerun that replaces objects changes their bytes, though not
  their rows (`FilesNeverChange`).
* A row of the first block after a boundary is in the file before it (`FilesShifted`,
  `generate_csv_sinker.go:202`); state may be uploaded before the files it counts on
  (`generate_csv_sinker.go:192`, `state/file.go:75`), so a crash loses rows.
* The lines of the last open boundary are dropped although the cursors table names the last
  block (`CompletedUpToLastRoll`, `generate_csv_sinker.go:312`): a `run` that continues from
  it never sees those rows. inject-csv loads one file more than the range asks for
  (`inject_csv.go:252`), and a failed injection of a table with a key stops at its own rows.
* from-proto-generate-csv writes its cursor before the files (`from_proto_generate_csv.go:1545`)
  and returns no error when it fails (`:1027`). Rows below a message without a table lose their
  parent (`:1264`, `Wrapped`), and so do rows of a table without `child_of` (`:1209`), where
  from-proto is refused; `assignRowValue` finds a cell by name, so of two columns with one name,
  as a field called `block_number` makes on RisingWave, the first stays empty (`:1004`, `Plain`);
  an empty text is read back as NULL and bytes in columns with a suffix are printed as numbers
  (`:1515`, `:1378`, `Covered`). `CSVEncode` does not escape.

from-proto:

* Held blocks survive an undo (`db_proto/sinker.go:311`), with a batch of one block too, when a
  flush was slow and the next one is put off: `NothingHeldAtUndo`. Only PostgreSQL with
  constraints and ClickHouse delete more than `_blocks_` (`postgres/database.go:278`,
  `risingwave/database.go:325`): `UndoDeletesAll`. Without a cursor a start cleans nothing
  (`sinker.go:57`); rows that a flush of ClickHouse left before the first cursor are still there
  when their blocks have been replaced (`CleanAtStart`). A batch has one block more than its size
  (`sinker.go:113`).
* `createTable` of RisingWave (`risingwave/dialect.go:75`) passes over a name it has already
  added, but the INSERT names every column: a field called `block_number`, or an `id` below an
  `id`, gives an INSERT that names a column twice. `InsertsFitTables` and `TombstonesAligned` are
  about tables whose columns have different names.
* An empty list adds no value and shifts the ones after it (`database.go:163`): `NoEmptyList`.
  The key of the nearest message above is added to the values whether the table has `child_of` or
  not, and whatever it names (`database.go:134`): one that does not follow the nesting gives a row
  that is refused or, when an empty list makes up for the value too many, one with values in the wrong
  columns (`ChildOfNearest`), and a foreign key that finds nothing (`ParentsFirst`).
* A table without a primary key has the number of the block (and the parent) as its key on RisingWave
  (`risingwave/dialect.go:183`) and ClickHouse (`click_house/dialect.go:227`): of several rows a
  block has there one stays. `NothingMissing` and `EventuallyStored` speak of `Represented` rows.
* A tombstone is a row with columns in another order unless the table has no key, or the key is the
  first column and there is no parent (`click_house/database.go:349`, `TombstonesAligned`). For the
  other tables an undo or the cleaning at a start may leave rows, hide others, or be refused:
  `TombstonesFit`.
* The hash written after a migration is the one of the old schema (`postgres/database.go:227`), so
  the old package, deployed again, runs on the tables of the new version;
  without a temporary schema a sink runs on the tables of another version
  (`sinker_factory.go:164`), and on ClickHouse or with `--no-constraints` without the tables its
  package added, since nothing is prepared for them; the error of the COMMIT of a setup is ignored
  (`sinker_factory.go:124`). An interrupted setup on RisingWave or ClickHouse may mix two
  versions or, with a torn hash file, never start again: `OneVersion` and `EventuallyRuns` are
  about PostgreSQL.

## 5. Proofs

The theorems hold for every value of the constants that satisfies the module's assumption: any
sets of keys, tables, values, rows and hashes, any chain, range, interval, bundle size, retry
count and number of faults. `ConstantsAssumption` asks that the sets are well formed, `Key` is
finite and `WordSize` above the range. `BundlerAssumption` asks that the start of a range is not
behind its stop and that bundles are not empty, `GenerateCsvAssumption` and `InjectCsvAssumption`
that blocks are of the range and keyed tables are tables; `FromProtoAssumption` that a block has
finitely many rows, that markers (`NoCursor`, `BlockRow`) are no data, and that `Ordinal`,
`Keyless` and `Shifted` speak of tables; `RisingwaveAssumption`, `CursorsAssumption`,
`FromProtoSetupAssumption` and `ClickhouseAssumption` that numbers are natural and configurations
well formed, the last one also that there is a table, the one of the setup that each version has
tables of its own (`TablesOf`). `ProtoCsvAssumption` asks for a chain that is not empty and lies
in the range, `FromProtoRowsAssumption` for databases and kinds of fields among those the program
knows, one message type or more, and lists that, when they are not empty, have a message,
`CsvTextAssumption` for one cell or more.

| Theorem | Statement |
|---|---|
| `SqlSinkerProofs`: `TypeCorrect` | `Spec => []TypeOK`, in every configuration |
| `Invariance` | `SafeConfig` implies `Spec => []IInv` |
| `ExactlyOnce`, `BufferIsFaithful` | `[]RowsMatchCursor`, `[]BufferMatchesHead` |
| `RevertsApply`, `HistorySuffices` | `[]RevertApplies`, and all of `[]HistorySupportsUndo` |
| `FlushesAreAccepted` | `[]BufferExecutable`, if also `NoUpsertOfUpdate` and `KnownColumns` |
| `Refinement` | `Spec => ImplementsReplica` |
| `LostFlushesAreAccepted`, `LostRefinement` | `LostSpec` implies `[]BufferExecutable`, under the same two conditions, and `ImplementsReplica`, without undo signals |
| `CursorsProofs`: `CursorsTyped`, `CursorTrusted`, `RowWritten` | `[]TypeOK`, `[]ResumesAtTables`, `[]UpdateFindsRow` |
| `RisingwaveSinkProofs`: `RowsStayWithCursor`, `CursorMoves` | `[]RowsFollowCursor`, `CursorMovesWithRows` |
| `ClickhouseSinkProofs`: `ClickhouseTyped`, `CellsSafe` | `[]TypeOK`, `[]CellsFollowCursor` |
| `RefinesLaggingReplica` | `Spec => LaggingReplicaSpec` |
| `InjectCsvProofs`: `GenerateTypeCorrect`, `FilesAlwaysReadable` | `[]TypeOK`, `[]FilesReadable`, with crashes |
| `RowsInOnePlace`, `FilesHoldShiftedRange`, `CompletedRows` | `[]NoRowLostOrTwice`, `[]FilesShifted` and, if there are a block and a table, `[]CompletedUpToLastRoll`: all three are about commands that did not crash |
| `InjectionsLoadOnce` | `InjectSpec => []InjectOK` |
| `FromProtoProofs`: `FromProtoInvariance` | `Spec => []FInv`, in every configuration |
| `NothingIsMissing`, `OnlyBlocksSent` | `[]NothingMissing`, `[]OnlyValidBlocks` |
| `TransactionsFollowStream`, `CleanedAtStart` | `[]StreamInTables`, `[]CleanAtStart` |
| `FromProtoSetupProofs`: `SetupTyped`, `RunsWithTables`, `NeverMixed` | `[]TypeOK`, `[]RunsOnTables`, `[]OneVersion` |
| `ProtoCsvProofs`: `ExportInvariance`, `ExportsComplete` | `ExportSpec => [](ExportInv /\ VersionInv)`, `[]ExportOK` |
| `FilesAreFinal` | `ExportSpec => FilesNeverChange` |
| `RowsInvariance` | `CsvSpec => []CsvInv`, for every schema and every `child_of` |
| `RowsAligned`, `WalksComplete`, `InsertsFit`, `TombstonesFit` | `[]ValuesAligned`, `[]RowsComplete`, `[]InsertsFitTables`, `[]TombstonesAligned` |
| `FilesMatchInserts` | `CsvSpec => []CsvAgrees` |
| `RowsReadBack` | `TextSpec => []RowReadsBack`, for rows and texts of any length |

**SqlSinker.** `SafeConfig` is `HandleReorgs => BatchRowFlushInterval = 0`: with undo signals
every non-empty block is flushed; section 4 says why it is needed. `RowsMatchCursor` alone is not
inductive: a flush writes what the buffer says, so `BufferMatchesHead` is needed. With undo
signals the buffer must belong to one block (`BufferIsOneBlock`), so that the history rows of a
flush are those of that block, and the blocks between the cursor and the head are empty. A revert
reads the history, so `HistoryInv` says that each history row of a reversible block holds the row
as it was before that block, under the right operation, at most one per row and block, and that a
row without one in a range of blocks did not change in it. During a revert, `RevertInv` says that
what was reverted is not older than what is pending, and that a row whose changes above a height
are all reverted, and no other, is as it was at that height; the last one leaves the version of
`undoTo`. `UpdatedRowsExist` makes the merge lemma `MergeDataAssoc` applicable: executing a merged
operation is executing its parts in turn. `CursorBehindHead` orders the heights. A buffered
operation stays one the row accepts (`Acceptable`), but for an update followed by an upsert, hence
`NoUpsertOfUpdate` in `FlushesAreAccepted`; its columns are columns of the table because those of
legal changes are (`KnownColumns`), and a merged update has some because its parts do
(`MergeColumns`). `Refinement` maps `FlushCommit` and `CompletionCommit` to `Store`, or a stutter
when nothing is new, `RevertCommit` to `Undo`, what moves the head (a block received, a process
that goes down) to `Deliver`, and the rest to stutters.

**LostCommit.** After a COMMIT whose answer is lost the buffer is still there, although its
changes are in the tables, so `LostInv` lets the cursor reach the head while a flush is
attempted again; such a flush writes what the rows already hold (`CommitUnacknowledgedInv`),
and only it may be refused. The history of the second attempt is wrong, so there are no undos.

**Cursors.** The invariant `CInv` says that no row is ahead of the tables, one is level with
them, so is the row of the deployed package if it has one, and that under the default policy
there is at most one row.

**RisingwaveSink.** Two hazards do not go together, and `RInv` has a part for each. Without a
reorg (`FaultsPlace`) a row is where some block between the cursor and the last flush started left
it (`AtLevel`), and not before the batch in hand if its statement was executed. `Merged` keeps
this through retries: a buffered operation leads from any block since the cursor to the last one
of the batch, because an INSERT never meets an updated row (`LegalPath`), and so whichever part of
an earlier, shorter or longer batch was executed. Without a fault, and if no block was held
(`ReorgPlace`), the buffer has the last block only (`Buffered`), rows and history are those of the
blocks handled, less what of the flush in hand is not saved (`Unsaved`: the key in `logged` has
its history row before its statement), and in a revert each row is at a block of its own
(`RevertPlace`), with the history rows up to that block pending.

**ClickhouseSink.** `NeverBehindCursor` is not inductive: what a table commits is what is
buffered. `BufferInv` says that a buffered row is that of the last block that wrote its key, and
that without one no block after the cursor did; hence a committed table has reached the last
block received (`FlushedInv`), which is what the cursor needs to move. `CellWidens` and
`ShowsLater` move a cell's height within its range. Copies are counted (`CopiesInv`) against the
blocks up to the cursor, or up to the flush for a table it has committed: a buffered row is
from a block after the cursor, so `WritersCount` gives it one more block. A committed table is a
`Write` of `LaggingReplica`, a moving cursor a `Commit`, the rest stutters.

**FromProtoSetup.** `StoredInv`: a database with a hash has its constraints and the tables of that
version, or those of one it was migrated to, and PostgreSQL has either nothing or a hash and the
tables of one version (`Unmixed`). `CreatingInv` says how far the database at which statements act
has got in each phase, `TransactionInv` that the tables in PostgreSQL's open transaction are those
of the deployed package, because no package is deployed while a setup runs, and `OpenInv` that
only a COMMIT that failed leads a setup to open a database without hash, which `Open` then
refuses.

**FromProto.** `FInv` follows a flush or an undo statement by statement. `StmtsPlace`: the rows of
the held blocks are `Represented` or in the statements left, and what an undo or a cleaning
removes is above the block it goes to. A row that is inserted keeps every row represented, for it
takes the place only of rows with its key and block number, which are of its block as well, unless
the block was replaced (`InsertRepresents`). `BatchPlace`: the held blocks are the last ones sent,
and the cursor is at the block before them. Both hold for every driver. `PostgresPlace` adds that
the rows are those of the blocks up to the cursor or, when an undo was cut before its cursor was
stored, up to a block before it; `ClickhousePlace`, what tables without transactions hold while
nothing fails. Where ClickHouse removes rows by tombstones, `ClickhousePlace`, `KeptPlace` and
`CleanPlace` ask for `TombstonesFit`, which makes an undo remove its rows and no others
(`HiddenFits`). `KeptPlace` speaks of the blocks a path shares with the chain: an undo removes
none of them, because a block off the chain is of an older fork (`Stale` in `PathsPlace`).
`CleanPlace` follows what `Run` removes. `ForksNeverMix` holds even when blocks of a replaced fork
are held over an undo: a flush writes only blocks whose numbers are not in `_blocks_`.

**Bundler, GenerateCsv, InjectCsv.** `BoundariesToSkip` walks from bundle to bundle; the lemmas
about it say that boundaries tile the range, whatever their size. `OpenPlace` gives the rows in
memory and on disk of an open boundary, `ClosedPlace` says that closed files hold the rows of
their boundaries, that these lie apart (`Apart`), and that no row before the open one is missing;
a closed file is stored, queued or dropped by a failed upload, so that `CompletedRows` can say
which rows the store lacks. `PlaceInv` asks for that until a crash; `WritersInv` and
`FilesWellFormed`, what makes a file readable, hold after it too. `TablePlace` says what
injections left: the rows of the files `L` in their order, where the next file is the first one
after `L`, or the first of all when an injection is run again, which the key then refuses.

**ProtoCsv.** That a file never changes cannot be inductive: a rerun writes the files anew, so the
invariant must say what any run writes. `Home` is the boundary a row belongs to, a function of the
rows and the bundle size only: a row goes to the boundary that the last block with output before
it opened (`Opener`). `FilesInv`: a file, uploaded, queued or dropped, by whichever run, has
exactly the rows whose home is its boundary (`RowsOf`). Two such files have the same set of rows
in order, hence the same lines (`SameRows`, with `LinesAgree`), which is `FilesNeverChange`,
whether the store keeps or replaces an object. `OpenInv` is the same for the boundary that is
open, up to the last block handled; `CoverInv` says that every row handled is in the one or the
other, or left in a writer whose last roll failed (`Unrolled`), and `StageInv` that nothing
remains when the command has completed but in bundlers that are down. `VersionInv`: versions are
those of runs so far, so that a replaced one gets newer.

**FromProtoRows, ProtoCsvRows.** `SchemaInv` is all that is needed of a schema, and it is what the
program accepts: fields of known kinds, at most one primary key, none without the proto options,
no messages below the last type; nothing is asked of `child_of`. `InsertsFit` and `TombstonesFit`
follow from it; the latter compares two lists of columns that differ only in where the key is. For
the walk, `TodoInv` says that the messages to be walked lie apart (none is `Above` another),
`RowsInv` that each row is that of its message and comes after its parent's, and `WalkInv` that a
message with a table has a row already or lies below one still to be walked, never both; when
nothing is left to be walked, each has its row. `ValuesAligned` compares the two lists: those of a
row that was not refused are equally long, and a list that is empty or a `child_of` that is there
without a key handed down, or the other way round, puts them apart (`ValuesInColumns`). `CsvInv`
adds that in a plain schema (`AllPlain`), until the CSV walk refuses a message, the two walks are
`Abreast`, at the same messages; the parents they give them differ, and agree only without a
message that is `Wrapped` (`Comparable`, `ParentsAgree`).

**CsvText.** Both encoders write the same kind of line: the texts of the cells, escaped, with a
separator between them (`RowWritten`; CSVEncode escapes nothing, but the rows it is asked about
have nothing to escape). `TextInv` relates what the reader has in hand to what is left of the line:
the fields it has ended are those of the first cells (`LineFields`), and in the next cell
(`AtCell`) it is in a text without quotes, before the opening quote, between the quotes, between
the two quotes of a pair, or behind the closing quote, with `j` characters read and the escaped
rest of the text before the rest of the row (`Rest`, `QuotedRest`, `Behind`). Only behind the whole
text can it meet a separator that ends the field (`CellStep`), because an unquoted text has none
and a quote in a quoted text is doubled.

Paths, chains, boundaries and texts are recursions over data. They are written as recursive
functions, and a fact about every value of one is proved by a least counterexample: a set of
numbers that is not empty has a least element (`LeastNumber`, `NatMin`, from the well-foundedness
of the naturals), so if the fact fails there is a first number where it fails and it holds just
before, which contradicts the step. That a set of numbers can be listed in one way in `Ascending`
order is proved like this, too.

Only model-checked. Liveness, which needs fairness and ENABLED. `HistorySupportsUndo`,
`RowsMatchCursor` and the refinement when undo signals come with postponed flushes, where they fail
(section 4).

## 6. Not modelled

* **Value conversion** (`db_proto/sql/*/types.go`, `db_changes/db/types.go`, the conversions of
  each dialect): stateless and per value. Only whether a value is refused matters to a model
  (`ConversionFails`).
* **Cursor tools**: `toolsCreateLoader` reads a flag the commands do not define and rejects its
  empty value, so no command changes a cursor at this commit; `DeleteCursor` and
  `DeleteAllCursors` have no other caller.
* **Setup command, DSN, users, DDL text, hash of a schema's text, logging, metrics**: one-shot
  input and output. A schema is known by its hash in `FromProtoSetup`.
* **dbt service**: runs an external program on a timer.
* **Command line and generated code.**
* **Errors of the local working directory** of the CSV commands, and `schema.json`: a disk that is
  full or missing. Only the last roll of from-proto-generate-csv may fail (`FinalRollFails`).
* **Readers of ClickHouse**: rows that were replaced, and tombstones, are gone when tables are merged or
  read with FINAL; the models speak of that. `clickhouse_table_options` can choose another order of a
  table, and with it another key than the block.
* **Ids of history rows on RisingWave** that repeat, and would replace each other.
* **Parallel processing of from-proto**: `from_proto.go:68` fixes the flag to false.
* **Foreign keys between user tables and ordinals** of a flush: without foreign keys one
  statement per row makes the order irrelevant. Composite row ids are keys.
* **A range that is extended after it was completed**: the last flush prunes all history.
* **A module whose change is refused on every restart** stays in that loop: `RejectChange` is
  modelled, and `Completes` assumes that it ends.

Possible further work: the order of a flush under foreign keys, with ordinals that merging keeps;
message types that branch or recur, where `FromProtoRows` has a chain.
