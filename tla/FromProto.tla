----------------------------- MODULE FromProto ------------------------------
(***************************************************************************)
(* The from-proto sinker (src/db_proto/sinker.go) on its three databases.  *)
(*                                                                         *)
(* Blocks are held and written in batches, each followed by the cursor.    *)
(* PostgreSQL writes rows and cursor in one transaction; RisingWave        *)
(* executes statement by statement; ClickHouse inserts table by table and  *)
(* keeps the cursor in a file that is truncated and then written.  An undo *)
(* signal removes the blocks above the last valid one and stores the       *)
(* cursor, in two steps.  Run removes what is above the cursor it finds.   *)
(*                                                                         *)
(* A row is known by its block and its entity; the row a block has in the  *)
(* _blocks_ table is the one of the entity BlockRow.  The blocks of a      *)
(* replaced fork and of its successor differ, as do the ids of their rows; *)
(* rows without an id may have the same key, see SameKey.                  *)
(***************************************************************************)
EXTENDS Integers, Sequences, FiniteSets, SequencesExt

CONSTANTS
    Configs,         \* the configurations, see Config
    Entity,          \* entities a block may carry
    BlockRow,        \* stands for the row in _blocks_, and for that table
    UserTable,       \* the tables of the messages
    Ordinal,         \* how deep the message of a table is nested
    Keyless,         \* tables without a primary key; two entities of one are siblings
    Shifted,         \* tables whose tombstones on ClickHouse have misplaced columns
    NoCursor,        \* no cursor was stored yet
    StopBlock,       \* blocks of the range, numbered from 1
    MaxReorgs        \* bound on the forks a configuration may see replaced

\* A configuration: the database; not --no-constraints, and the proto has schema
\* options; the table of each entity; --block-batch-size; whether a flush may take
\* longer than a block; and the bounds on what blocks carry, on the replaced forks and
\* on the failures and crashes.
Config == [driver : {"postgres", "risingwave", "clickhouse"}, constraints : BOOLEAN,
           table : [Entity -> UserTable], batch : Nat \ {0}, slow : BOOLEAN,
           contents : SUBSET SUBSET Entity, reorgs : 0 .. MaxReorgs, faults : Nat]

ASSUME FromProtoAssumption ==
    /\ Configs \subseteq Config
    /\ StopBlock \in Nat
    /\ MaxReorgs \in Nat
    /\ IsFiniteSet(Entity)
    /\ BlockRow \notin Entity \union UserTable
    /\ Ordinal \in [UserTable -> Nat]
    /\ Keyless \union Shifted \subseteq UserTable
    /\ NoCursor \notin Seq([fork : 0 .. MaxReorgs, rows : SUBSET Entity])

Block == [fork : 0 .. MaxReorgs, rows : SUBSET Entity]
Holder == [num : 1 .. StopBlock, fork : 0 .. MaxReorgs, rows : SUBSET Entity]
Row == [num : 1 .. StopBlock, fork : 0 .. MaxReorgs, key : Entity \union {BlockRow}]

VARIABLES
    config,      \* the configuration; it never changes
    chain,       \* the blocks of the chain, as the endpoint has them now
    lib,         \* the final height: these blocks are never replaced
    reorgs,
    phase,       \* what the process is doing
    pos,         \* the blocks the process was sent
    holding,     \* blocks not written yet
    lastApplied, \* lastAppliedBlockNum
    stmts,       \* statements of the flush or of the undo still to be executed
    tables,      \* the rows a reader finds
    cursor,      \* NoCursor, or the blocks up to the stored cursor
    faults

streamVars == <<config, chain, lib, reorgs>>
processVars == <<phase, pos, holding, lastApplied, stmts>>
dbVars == <<tables, cursor>>
vars == <<streamVars, processVars, dbVars, faults>>

Driver == config.driver
UseConstraints == config.constraints
BatchSize == config.batch

-----------------------------------------------------------------------------
\* processHolder: a block whose output is empty leaves no row, not even in _blocks_
RowsOf(h) ==
    IF h.rows = {} THEN {}
    ELSE [num : {h.num}, fork : {h.fork}, key : h.rows \union {BlockRow}]

RowsOfAll(hs) == UNION {RowsOf(hs[i]) : i \in DOMAIN hs}

Held(path, n) == [num |-> n, fork |-> path[n].fork, rows |-> path[n].rows]

\* The rows of the blocks of a path
Content(path) == UNION {RowsOf(Held(path, n)) : n \in DOMAIN path}

InBlocks(rows) == {r \in rows : r.key = BlockRow}

TableOf(r) == IF r.key = BlockRow THEN BlockRow ELSE config.table[r.key]

\* Mutant: the key that takes the place of a missing one is not the block number.
KeyWithoutBlock(q, r) ==
    IF Driver # "postgres" /\ TableOf(r) \in Keyless \union {BlockRow}
    THEN TableOf(q) = TableOf(r)
    ELSE q = r

\* A row replaces the one with its key.  RisingWave and ClickHouse have the number of
\* the block as the key of _blocks_, and of a table without a key: PRIMARY KEY
\* (block_number) and the parent, ORDER BY (_block_number_).  PostgreSQL replaces none.
SameKey(q, r) ==
    IF Driver # "postgres" /\ TableOf(r) \in Keyless \union {BlockRow}
    THEN TableOf(q) = TableOf(r) /\ q.num = r.num
    ELSE q = r

\* The row among those inserted that stays of the ones with the key of q: one of the
\* last fork, whichever of its siblings
Latest(q, rows) ==
    CHOOSE r \in rows : SameKey(r, q) /\ \A p \in rows : SameKey(p, q) => p.fork <= r.fork

\* The tables after an INSERT outside a transaction
WithInserted(rows) ==
    {r \in tables : \A q \in rows : ~SameKey(q, r)} \union {Latest(r, rows) : r \in rows}

\* The rows that are in the tables, or of whose block a row with their key is
Represented ==
    {r \in Row : \E q \in tables : q.num = r.num /\ q.fork = r.fork /\ SameKey(q, r)}

\* The tables of the messages, each before the ones nested deeper
Tables == {config.table[e] : e \in Entity}

ByOrdinal ==
    {o \in SetToSeqs(Tables) :
        \A i, j \in DOMAIN o : i < j => Ordinal[o[i]] <= Ordinal[o[j]]}

\* One statement for each table of a sequence
ByTable(o, rows) == [i \in DOMAIN o |-> {r \in rows : TableOf(r) = o[i]}]

\* The RowInserter of RisingWave: row by row, the row of a block first
RowByRow(hs) ==
    LET rowsTo[n \in 0 .. Len(hs)] ==
            IF n = 0 THEN <<>>
            ELSE LET new == RowsOf(hs[n])
                 IN  rowsTo[n - 1] \o <<InBlocks(new)>>
                       \o SetToSeq({{r} : r \in new \ InBlocks(new)})
    IN  rowsTo[Len(hs)]

\* The INSERTs of a batch, in the order they are executed: by the RowInserter of
\* RisingWave row by row; by its AccumulatorInserter one per
\* table, the tables in the order of a map; by that of ClickHouse one per table,
\* _blocks_ first and the others by ordinal.  PostgreSQL executes them in a transaction.
Statements(hs) ==
    LET all == RowsOfAll(hs)
    IN  CASE Driver = "postgres" -> {<<all>>}
          [] Driver = "clickhouse" -> {ByTable(<<BlockRow>> \o o, all) : o \in ByOrdinal}
          [] Driver = "risingwave" /\ UseConstraints -> {RowByRow(hs)}
          [] Driver = "risingwave" /\ ~UseConstraints ->
                {ByTable(o, all) : o \in SetToSeqs({TableOf(r) : r \in all})}

\* Mutant: _blocks_ has no primary key.
NoConflict(hs) ==
    /\ FALSE
    /\ \/ \E i, j \in DOMAIN hs : i < j /\ hs[i].num = hs[j].num
                                  /\ hs[i].rows # {} /\ hs[j].rows # {}
       \/ \E r \in InBlocks(tables), i \in DOMAIN hs : hs[i].num = r.num /\ hs[i].rows # {}

\* block_pk: with constraints PostgreSQL refuses a second row for a block number
Conflict(hs) ==
    /\ Driver = "postgres" /\ UseConstraints
    /\ \/ \E i, j \in DOMAIN hs : i < j /\ hs[i].num = hs[j].num
                                  /\ hs[i].rows # {} /\ hs[j].rows # {}
       \/ \E r \in InBlocks(tables), i \in DOMAIN hs : hs[i].num = r.num /\ hs[i].rows # {}

\* Mutant: the last valid block is removed too.
UndoOneTooMany(n) ==
    LET above == {r \in tables : r.num >= n}
    IN  CASE Driver = "postgres" -> {<<IF UseConstraints THEN above ELSE InBlocks(above)>>}
          [] Driver = "risingwave" -> {<<InBlocks(above)>>}
          [] Driver = "clickhouse" ->
                {ByTable(<<BlockRow>> \o Reverse(o), above) : o \in ByOrdinal}

\* HandleBlocksUndo: what each of its statements is to remove.  PostgreSQL deletes from
\* _blocks_ and, with constraints, the foreign keys cascade; RisingWave deletes from
\* _blocks_ and has no foreign keys; ClickHouse inserts tombstones table by table, the
\* deepest after _blocks_.
UndoStatements(n) ==
    LET above == {r \in tables : r.num > n}
    IN  CASE Driver = "postgres" -> {<<IF UseConstraints THEN above ELSE InBlocks(above)>>}
          [] Driver = "risingwave" -> {<<InBlocks(above)>>}
          [] Driver = "clickhouse" ->
                {ByTable(<<BlockRow>> \o Reverse(o), above) : o \in ByOrdinal}

\* The columns of a tombstone are in the order of those of its table
TombstonesFit == Driver = "clickhouse" => \A e \in Entity : config.table[e] \notin Shifted

\* What an undo statement may hide: its rows, or any rows of the table when the values
\* of its tombstones are in columns of others.
Hidden(rows) ==
    IF Driver = "clickhouse" /\ \E r \in rows : TableOf(r) \in Shifted
    THEN SUBSET {r \in tables : \E q \in rows : TableOf(q) = TableOf(r)}
    ELSE {rows}

\* The blocks up to the stored cursor
StoredPath == IF cursor = NoCursor THEN <<>> ELSE cursor

\* Number of blocks two paths share
Common(p, s) == Len(LongestCommonPrefix({p, s}))

GoDown ==
    /\ phase' = "down"
    /\ pos' = <<>> /\ holding' = <<>> /\ lastApplied' = 0 /\ stmts' = <<>>

-----------------------------------------------------------------------------
Init ==
    /\ config \in Configs
    /\ chain = <<>> /\ lib = 0 /\ reorgs = 0
    /\ phase = "down" /\ pos = <<>> /\ holding = <<>> /\ lastApplied = 0 /\ stmts = <<>>
    /\ tables = {} /\ cursor = NoCursor
    /\ faults = 0

Extend(rows, h) ==
    /\ Len(chain) < StopBlock /\ rows \in config.contents
    /\ chain' = Append(chain, [fork |-> reorgs, rows |-> rows])
    /\ h \in lib .. Len(chain)
    /\ lib' = h
    /\ UNCHANGED <<config, reorgs, processVars, dbVars, faults>>

Reorg(n) ==
    /\ reorgs < config.reorgs
    /\ n \in lib .. (Len(chain) - 1)
    /\ chain' = SubSeq(chain, 1, n)
    /\ reorgs' = reorgs + 1
    /\ UNCHANGED <<config, lib, processVars, dbVars, faults>>

\* Mutant: what is beyond the cursor stays.
RunUncleaned ==
    /\ phase = "down"
    /\ phase' = "idle" /\ pos' = StoredPath /\ stmts' = <<>>
    /\ UNCHANGED <<streamVars, holding, lastApplied, dbVars, faults>>

\* Sinker.Run: a cursor that was found is followed by the removal of the rows above it
Run ==
    /\ phase = "down"
    /\ IF cursor = NoCursor
       THEN phase' = "idle" /\ pos' = <<>> /\ stmts' = <<>>
       ELSE phase' = "cleaning" /\ pos' = cursor /\ stmts' \in UndoStatements(Len(cursor))
    /\ UNCHANGED <<streamVars, holding, lastApplied, dbVars, faults>>

\* A flush is due: enough blocks, or live, unless live and flushes are slow
FlushDue(n, live, slow) ==
    /\ n > lastApplied + BatchSize \/ BatchSize = 1 \/ live
    /\ ~(live /\ slow)

\* Mutant: the block that makes a flush due is not part of it.
FlushBeforeHolding(live, slow) ==
    LET n == Len(pos) + 1
        held == Append(holding, Held(chain, n))
    IN  /\ phase = "idle"
        /\ IsPrefix(pos, chain) /\ Len(pos) < Len(chain)
        /\ slow => config.slow /\ lastApplied > 0
        /\ pos' = Append(pos, chain[n])
        /\ holding' = held
        /\ IF FlushDue(n, live, slow)
           THEN phase' = "flushing" /\ stmts' \in Statements(holding)
           ELSE UNCHANGED <<phase, stmts>>
        /\ UNCHANGED <<streamVars, lastApplied, dbVars, faults>>

\* HandleBlockScopedData
HandleBlock(live, slow) ==
    LET n == Len(pos) + 1
        held == Append(holding, Held(chain, n))
    IN  /\ phase = "idle"
        /\ IsPrefix(pos, chain) /\ Len(pos) < Len(chain)
        /\ slow => config.slow /\ lastApplied > 0
        /\ pos' = Append(pos, chain[n])
        /\ holding' = held
        /\ IF FlushDue(n, live, slow)
           THEN phase' = "flushing" /\ stmts' \in Statements(held)
           ELSE UNCHANGED <<phase, stmts>>
        /\ UNCHANGED <<streamVars, lastApplied, dbVars, faults>>

\* Mutant: the blocks that are held are not written at the end.
RangeCompletionCursorOnly ==
    /\ phase = "idle" /\ pos = chain /\ Len(pos) = StopBlock
    /\ cursor # pos \/ holding # <<>>
    /\ phase' = "flushing"
    /\ stmts' = <<>>
    /\ UNCHANGED <<streamVars, pos, holding, lastApplied, dbVars, faults>>

\* HandleBlockRangeCompletion: the rest is written, or just the cursor
RangeCompletion ==
    /\ phase = "idle" /\ pos = chain /\ Len(pos) = StopBlock
    /\ cursor # pos \/ holding # <<>>
    /\ phase' = "flushing"
    /\ IF holding = <<>> THEN stmts' = <<>> ELSE stmts' \in Statements(holding)
    /\ UNCHANGED <<streamVars, pos, holding, lastApplied, dbVars, faults>>

\* A statement of a flush outside a transaction
ExecStatement ==
    /\ phase = "flushing" /\ Driver # "postgres" /\ stmts # <<>>
    /\ tables' = WithInserted(Head(stmts))
    /\ stmts' = Tail(stmts)
    /\ UNCHANGED <<streamVars, phase, pos, holding, lastApplied, cursor, faults>>

\* Mutant: the block after the flushed one counts as applied.
FlushDoneNextBlock ==
    /\ cursor' = pos
    /\ holding' = <<>> /\ stmts' = <<>>
    /\ lastApplied' = IF holding = <<>> THEN lastApplied ELSE Len(pos) + 1
    /\ phase' = "idle"
    /\ UNCHANGED <<streamVars, pos, faults>>

\* The last steps of a flush: StoreCursor and CommitTransaction
FlushDone ==
    /\ cursor' = pos
    /\ holding' = <<>> /\ stmts' = <<>>
    /\ lastApplied' = IF holding = <<>> THEN lastApplied ELSE Len(pos)
    /\ phase' = "idle"
    /\ UNCHANGED <<streamVars, pos, faults>>

\* Mutant: the cursor is stored while statements are left.
FlushEndsEarly ==
    /\ phase = "flushing" /\ Driver = "risingwave"
    /\ FlushDone
    /\ UNCHANGED tables

FlushEnds ==
    /\ phase = "flushing" /\ Driver = "risingwave" /\ stmts = <<>>
    /\ FlushDone
    /\ UNCHANGED tables

\* The transaction of PostgreSQL: rows and cursor together
CommitFlush ==
    /\ phase = "flushing" /\ Driver = "postgres"
    /\ ~Conflict(holding)
    /\ FlushDone
    /\ tables' = tables \union (IF stmts = <<>> THEN {} ELSE Head(stmts))

\* The database refuses the batch: it is rolled back and the process ends
RefuseFlush ==
    /\ phase = "flushing" /\ Conflict(holding)
    /\ GoDown
    /\ UNCHANGED <<streamVars, dbVars, faults>>

\* Mutant: the cursor file does not wait for all tables.
TruncateCursorEarly ==
    /\ phase \in {"flushing", "undoing"} /\ Driver = "clickhouse"
    /\ cursor' = <<>>
    /\ phase' = IF phase = "flushing" THEN "flushed" ELSE "undone"
    /\ UNCHANGED <<streamVars, pos, holding, lastApplied, stmts, tables, faults>>

\* StoreCursor of ClickHouse: os.Create truncates the file, WriteString fills it
TruncateCursor ==
    /\ phase \in {"flushing", "undoing"} /\ Driver = "clickhouse" /\ stmts = <<>>
    /\ cursor' = <<>>
    /\ phase' = IF phase = "flushing" THEN "flushed" ELSE "undone"
    /\ UNCHANGED <<streamVars, pos, holding, lastApplied, stmts, tables, faults>>

WriteCursor ==
    /\ phase = "flushed"
    /\ FlushDone
    /\ UNCHANGED tables

\* Mutant: an undo moves the cursor and deletes nothing.
UndoCursorOnly ==
    /\ phase = "idle" /\ ~IsPrefix(pos, chain)
    /\ pos' = SubSeq(pos, 1, Common(pos, chain))
    /\ stmts' = <<>>
    /\ phase' = "undoing"
    /\ UNCHANGED <<streamVars, holding, lastApplied, dbVars, faults>>

\* HandleBlockUndoSignal: the process is on blocks that left the chain
Undo ==
    /\ phase = "idle" /\ ~IsPrefix(pos, chain)
    /\ pos' = SubSeq(pos, 1, Common(pos, chain))
    /\ stmts' \in UndoStatements(Common(pos, chain))
    /\ phase' = "undoing"
    /\ UNCHANGED <<streamVars, holding, lastApplied, dbVars, faults>>

ExecUndo ==
    /\ phase \in {"undoing", "cleaning"} /\ stmts # <<>>
    /\ \E gone \in Hidden(Head(stmts)) : tables' = tables \ gone
    /\ stmts' = Tail(stmts)
    /\ phase' = IF phase = "cleaning" /\ Len(stmts) = 1 THEN "idle" ELSE phase
    /\ UNCHANGED <<streamVars, pos, holding, lastApplied, cursor, faults>>

\* The database refuses a tombstone whose values do not fit the columns
RefuseUndo ==
    /\ phase \in {"undoing", "cleaning"} /\ stmts # <<>> /\ ~TombstonesFit
    /\ GoDown
    /\ UNCHANGED <<streamVars, dbVars, faults>>

\* StoreCursor after an undo; what is held stays held
UndoEnds ==
    /\ \/ phase = "undone"
       \/ phase = "undoing" /\ stmts = <<>> /\ Driver # "clickhouse"
    /\ cursor' = pos
    /\ phase' = "idle"
    /\ UNCHANGED <<streamVars, pos, holding, lastApplied, stmts, tables, faults>>

\* The process dies, or a statement fails and the error ends it
Crash ==
    /\ phase # "down" /\ faults < config.faults
    /\ faults' = faults + 1
    /\ GoDown
    /\ UNCHANGED <<streamVars, dbVars>>

Complete == phase = "idle" /\ pos = chain /\ Len(chain) = StopBlock
            /\ cursor = pos /\ holding = <<>>

Finished == Complete /\ UNCHANGED vars

Progress ==
    \/ Run
    \/ \E live, slow \in BOOLEAN : HandleBlock(live, slow)
    \/ RangeCompletion
    \/ ExecStatement \/ FlushEnds \/ CommitFlush \/ RefuseFlush
    \/ TruncateCursor \/ WriteCursor
    \/ Undo \/ ExecUndo \/ RefuseUndo \/ UndoEnds

Next ==
    \/ \E rows \in SUBSET Entity, h \in 0 .. StopBlock : Extend(rows, h)
    \/ \E n \in 0 .. StopBlock : Reorg(n)
    \/ Progress
    \/ Crash
    \/ Finished

Spec == Init /\ [][Next]_vars

\* The chain grows, the stream delivers and the process is started again after it ended
FairSpec ==
    /\ Spec
    /\ WF_vars(\E rows \in SUBSET Entity, h \in 0 .. StopBlock : Extend(rows, h))
    /\ WF_vars(Progress)

-----------------------------------------------------------------------------
(* Properties *)

Path(p) == \A i \in DOMAIN p : p[i] \in Block

\* The state is well typed
TypeOK ==
    /\ config \in Configs
    /\ Path(chain) /\ lib \in 0 .. StopBlock /\ reorgs \in 0 .. config.reorgs
    /\ phase \in {"down", "cleaning", "idle", "flushing", "flushed", "undoing", "undone"}
    /\ Path(pos)
    /\ \A i \in DOMAIN holding : holding[i] \in Holder
    /\ lastApplied \in 0 .. StopBlock
    /\ \A i \in DOMAIN stmts : stmts[i] \subseteq Row
    /\ tables \subseteq Row
    /\ cursor # NoCursor => Path(cursor)
    /\ faults \in 0 .. config.faults

\* Every undo is complete: it deletes all rows of the blocks above, in one transaction
\* (PostgreSQL, where the foreign keys cascade) or in statements no fault interrupts
\* and whose tombstones fit (ClickHouse, table by table).
UndoDeletesAll ==
    \/ Driver = "postgres" /\ UseConstraints
    \/ Driver = "clickhouse" /\ faults = 0 /\ TombstonesFit

\* Blocks that are held survive an undo: only blocks written one by one, each before the
\* next one comes, never are.
NothingHeldAtUndo == (BatchSize = 1 /\ ~config.slow) \/ reorgs = 0

\* Nothing is missing: as long as the chain still has the block of the cursor, every row
\* of the blocks up to it is in the tables, whatever a batch that failed half-way or a
\* crash left behind ("Cursor is written after a successful flush").  On RisingWave and
\* ClickHouse a row without a key may be replaced, by a row of the same block only.
\* Tombstones with misplaced columns may hide rows of blocks that stay.
NothingMissing ==
    NothingHeldAtUndo /\ TombstonesFit /\ IsPrefix(StoredPath, chain) =>
        Content(StoredPath) \subseteq Represented

\* While the sinker waits for a message, the tables hold rows only of blocks it was sent
\* and has not been told to undo ("deletes/retracts data above the last valid block").
OnlyValidBlocks ==
    NothingHeldAtUndo /\ UndoDeletesAll /\ phase = "idle" => tables \subseteq Content(pos)

\* PostgreSQL: between two messages the tables are those of the blocks sent and not held,
\* or of the part of them that is still on the chain when an undo was interrupted.
TablesMatchStream ==
    Driver = "postgres" /\ UseConstraints /\ NothingHeldAtUndo /\ phase = "idle" =>
        \/ tables = Content(SubSeq(pos, 1, Len(pos) - Len(holding)))
        \/ /\ ~IsPrefix(pos, chain)
           /\ \E n \in 0 .. Len(pos) : tables = Content(SubSeq(pos, 1, n))

\* PostgreSQL with constraints: even when blocks of a replaced fork were still held and
\* are written after the undo, rows of two forks of a block number never stand side by
\* side, and every row has its block ("`_blocks_` is authoritative").
ForksNeverMix ==
    Driver = "postgres" /\ UseConstraints =>
        /\ \A r, q \in tables : r.num = q.num => r.fork = q.fork
        /\ \A r \in tables : \E b \in InBlocks(tables) : b.num = r.num

\* What from-proto's transactions guarantee on PostgreSQL with constraints.
StreamInTables == TypeOK /\ TablesMatchStream /\ ForksNeverMix

\* The rows Run looks at: of _blocks_ only, where nothing cascades.
Removed == IF Driver = "clickhouse" \/ (Driver = "postgres" /\ UseConstraints)
           THEN tables ELSE InBlocks(tables)

\* What Run claims to do: "clean up the mess from running without a transaction".  A
\* process that found a cursor and has not written yet has nothing beyond the cursor.
\* Nothing else is left either, not even by a flush of ClickHouse that was interrupted
\* before there was a cursor, if its blocks were not replaced since.  On ClickHouse this
\* takes tombstones that fit.
CleanAtStart ==
    (/\ TombstonesFit
     /\ phase = "idle" /\ lastApplied = 0 /\ holding = <<>>
     /\ cursor # NoCursor /\ pos = cursor) =>
        /\ \A r \in Removed : r.num <= Len(cursor)
        /\ NothingHeldAtUndo /\ (reorgs = 0 \/ (Driver = "postgres" /\ UseConstraints)) =>
             Removed \subseteq Content(cursor)

\* The whole range is stored in the end, with its cursor; with tombstones that do not
\* fit, if nothing has to be undone or cleaned up.
EventuallyStored ==
    /\ (config.batch = 1 /\ ~config.slow) \/ config.reorgs = 0
    /\ TombstonesFit \/ (config.reorgs = 0 /\ config.faults = 0)
    => <>[](Len(chain) = StopBlock /\ cursor = chain /\ Content(chain) \subseteq Represented)
=============================================================================
