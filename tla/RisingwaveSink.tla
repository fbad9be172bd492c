--------------------------- MODULE RisingwaveSink ---------------------------
(***************************************************************************)
(* The run command on RisingWave (src/db_changes/db/dialect_risingwave.go  *)
(* behind the autocommit Tx of src/db_changes/db/db.go): there are no      *)
(* transactions, so every statement of a flush or of a revert is visible   *)
(* and durable on its own, and the cursor is only the last of them.        *)
(*                                                                         *)
(* The endpoint keeps the chain and can replace its tip; a process resumes *)
(* from the cursor the database holds.  A block carries at most one        *)
(* operation per row, the Loader having merged the others, and is flushed  *)
(* with those held before it or held itself, whatever the flush intervals  *)
(* and the LIVE check say.  Each row is one value; a table's rows are      *)
(* overwritten when an INSERT meets an existing key.                       *)
(***************************************************************************)
EXTENDS Integers, Sequences, FiniteSets, SequencesExt

CONSTANTS
    Key, Val, Absent,
    MaxBlocks,       \* bound on the length of the chain
    MaxReorgs,       \* bound on the reorganisations of a chain without faults
    MaxFaults,       \* bound on the failed statements and crashes without a reorg
    MaxBoth,         \* bound on the sum of both when there are reorgs and faults
    FlushRetryCount  \* --flush-retry-count

ASSUME RisingwaveAssumption ==
    /\ Absent \notin Val
    /\ MaxBlocks \in Nat /\ MaxReorgs \in Nat /\ MaxFaults \in Nat /\ MaxBoth \in Nat
    /\ FlushRetryCount \in Nat

\* The operation a block has for a row; "NONE" when it does not touch the row
Op == [type : {"INSERT", "UPSERT", "UPDATE"}, val : Val]
        \union [type : {"DELETE", "NONE"}, val : {Absent}]
Block == [Key -> Op]

\* The operation the Loader buffers for a row, and the reversible block it is saved
\* under: 0 when that block was final
Entry == [type : {"INSERT", "UPSERT", "UPDATE", "DELETE", "NONE"},
          val : Val \union {Absent}, rev : 0 .. MaxBlocks]
NoEntry == [type |-> "NONE", val |-> Absent, rev |-> 0]
NoEntries == [k \in Key |-> NoEntry]

Row == Val \union {Absent}
NoRows == [k \in Key |-> Absent]

HistoryRow == [block : 1 .. MaxBlocks, key : Key, op : {"I", "U", "D"}, prev : Row]

VARIABLES
    chain,       \* the blocks of the chain, as the endpoint has them now
    lib,         \* the final height: these blocks are never replaced
    phase,       \* what the process is doing
    pos,         \* the blocks the process has been sent, the one it handles last
    entries,     \* the buffer of the Loader
    todo,        \* keys of the flush whose statement has not been executed yet
    logged,      \* the key whose history row is inserted and whose statement is next
    final,       \* FinalBlockHeight of the last block received
    pending,     \* history rows of the revert still to be applied
    attempt,     \* attempts of the flush that failed
    rows, history, cursor,  \* the database; a cursor is the path to its block
    held,        \* some block was kept in the buffer when it had been handled
    ahead,       \* the furthest block a flush has been started for
    faults, reorgs

bufferVars == <<entries, held, ahead>>
processVars == <<phase, pos, todo, logged, final, pending, attempt>>
dbVars == <<rows, history, cursor>>
vars == <<chain, lib, bufferVars, processVars, dbVars, faults, reorgs>>

-----------------------------------------------------------------------------
\* prepareStatement: what a statement does to its row
Execute(op, row) ==
    CASE op.type \in {"INSERT", "UPSERT"} -> op.val
      [] op.type = "UPDATE" -> IF row = Absent THEN Absent ELSE op.val
      [] op.type = "DELETE" -> Absent
      [] op.type = "NONE" -> row

\* The rows after the blocks of a path
Content(path) ==
    LET after[i \in 0 .. Len(path)] ==
            IF i = 0 THEN NoRows
            ELSE [k \in Key |-> Execute(path[i][k], after[i - 1][k])]
    IN  after[Len(path)]

\* saveInsert, saveUpsert, saveUpdate and saveDelete: the row to come back to.  A
\* statement executed a second time saves a second row, under an id of its own.
SaveHistory(op, k, b, row) ==
    LET saved(o, prev) == [block |-> b, key |-> k, op |-> o, prev |-> prev]
    IN  CASE op.type = "INSERT" -> {saved("I", Absent)}
          [] op.type = "UPSERT" -> {saved(IF row = Absent THEN "I" ELSE "U", row)}
          [] op.type = "UPDATE" -> IF row = Absent THEN {} ELSE {saved("U", row)}
          [] op.type = "DELETE" -> IF row = Absent THEN {} ELSE {saved("D", row)}
          [] op.type = "NONE" -> {}

\* revertOp: delete, insert over whatever is there, or update what is there
RevertOp(r, row) ==
    CASE r.op = "I" -> Absent
      [] r.op = "D" -> r.prev
      [] r.op = "U" -> IF row = Absent THEN Absent ELSE r.prev

\* Mutant: the oldest history row first.
NextToRevertOldest == {r \in pending : \A q \in pending : r.block <= q.block}

\* ORDER BY block_num DESC: rows of the same block come in any order
NextToRevert == {r \in pending : \A q \in pending : q.block <= r.block}

\* Number of blocks two paths share
Common(p, s) == Len(LongestCommonPrefix({p, s}))

Touched(b) == {k \in Key : b[k].type # "NONE"}

\* The Loader refuses to insert a row it has an operation for, to upsert one it inserts
\* or deletes, and to update one it deletes
Rejects(e, op) ==
    \/ op.type = "INSERT" /\ e.type # "NONE"
    \/ op.type = "UPSERT" /\ e.type \in {"INSERT", "DELETE"}
    \/ op.type = "UPDATE" /\ e.type = "DELETE"

\* Mutant: a row deleted after it was changed in the same batch is not deleted.
MergeKeepsDeleted(e, op, rev) ==
    CASE op.type = "NONE" -> e
      [] op.type # "NONE" /\ e.type = "NONE" ->
            [type |-> op.type, val |-> op.val, rev |-> rev]
      [] op.type = "DELETE" /\ e.type # "NONE" -> e
      [] OTHER -> [e EXCEPT !.val = op.val]

\* Loader.Insert, Upsert, Update and Delete: a DELETE takes the place of what was
\* buffered, the others merge into it and keep its reversible block
Merge(e, op, rev) ==
    CASE op.type = "NONE" -> e
      [] op.type = "DELETE" \/ (op.type # "NONE" /\ e.type = "NONE") ->
            [type |-> op.type, val |-> op.val, rev |-> rev]
      [] OTHER -> [e EXCEPT !.type = IF op.type = "UPSERT" THEN "UPSERT" ELSE @,
                            !.val = op.val]

\* The bounds on reorganisations and faults
Within(r, f) ==
    \/ f = 0 /\ r <= MaxReorgs
    \/ r = 0 /\ f <= MaxFaults
    \/ r + f <= MaxBoth

-----------------------------------------------------------------------------
Init ==
    /\ chain = <<>> /\ lib = 0
    /\ phase = "idle" /\ pos = <<>> /\ todo = {} /\ logged = {} /\ final = 0
    /\ pending = {} /\ attempt = 0
    /\ entries = NoEntries /\ held = FALSE /\ ahead = 0
    /\ rows = NoRows /\ history = {} /\ cursor = <<>>
    /\ faults = 0 /\ reorgs = 0

\* The module: it creates rows that do not exist, updates and deletes those that do,
\* and upserts none it has updated before
Legal(b) ==
    \A k \in Key : /\ b[k].type = "INSERT" => Content(chain)[k] = Absent
                   /\ b[k].type \in {"UPDATE", "DELETE"} => Content(chain)[k] # Absent
                   /\ b[k].type = "UPSERT" =>
                        \A i \in DOMAIN chain : chain[i][k].type # "UPDATE"

Extend(b, h) ==
    /\ Len(chain) < MaxBlocks
    /\ Legal(b) /\ Touched(b) # {}
    /\ chain' = Append(chain, b)
    /\ h \in lib .. Len(chain)
    /\ lib' = h
    /\ UNCHANGED <<bufferVars, processVars, dbVars, faults, reorgs>>

Reorg(n) ==
    /\ Within(reorgs + 1, faults)
    /\ n \in lib .. (Len(chain) - 1)
    /\ chain' = SubSeq(chain, 1, n)
    /\ reorgs' = reorgs + 1
    /\ UNCHANGED <<lib, bufferVars, processVars, dbVars, faults>>

\* HandleBlockScopedData with the next block of the chain: its operations are merged
\* into the buffer, which is flushed now or later
HandleBlock(flush) ==
    /\ phase = "idle"
    /\ IsPrefix(pos, chain) /\ Len(pos) < Len(chain)
    /\ LET b == chain[Len(pos) + 1]
           n == Len(pos) + 1
       IN  /\ \A k \in Key : ~Rejects(entries[k], b[k])
           /\ pos' = Append(pos, b)
           /\ entries' = [k \in Key |-> Merge(entries[k], b[k], IF n > lib THEN n ELSE 0)]
           /\ IF flush
              THEN /\ phase' = "flush"
                   /\ todo' = Touched(entries')
                   /\ ahead' = IF n > ahead THEN n ELSE ahead
                   /\ UNCHANGED held
              ELSE /\ held' = TRUE
                   /\ UNCHANGED <<phase, todo, ahead>>
    /\ final' = lib
    /\ attempt' = 0
    /\ UNCHANGED <<chain, lib, logged, pending, dbVars, faults, reorgs>>

\* applyDatabaseChanges returns the error of the Loader: the process ends
RejectBlock ==
    /\ phase = "idle"
    /\ IsPrefix(pos, chain) /\ Len(pos) < Len(chain)
    /\ \E k \in Key : Rejects(entries[k], chain[Len(pos) + 1][k])
    /\ phase' = "down"
    /\ UNCHANGED <<chain, lib, bufferVars, pos, todo, logged, final, pending, attempt,
                   dbVars, faults, reorgs>>

\* The first statement of an ExecContext of RisingwaveDialect.Flush, when the operation
\* is reversible: the history row
SaveRow(k) ==
    /\ phase = "flush" /\ k \in todo /\ logged = {} /\ entries[k].rev # 0
    /\ history' = history \union SaveHistory(entries[k], k, entries[k].rev, rows[k])
    /\ logged' = {k}
    /\ UNCHANGED <<chain, lib, bufferVars, phase, pos, todo, final, pending, attempt,
                   rows, cursor, faults, reorgs>>

\* The statement on the row
ExecStatement(k) ==
    /\ phase = "flush" /\ k \in todo
    /\ logged = IF entries[k].rev # 0 THEN {k} ELSE {}
    /\ rows' = [rows EXCEPT ![k] = Execute(entries[k], @)]
    /\ todo' = todo \ {k} /\ logged' = {}
    /\ UNCHANGED <<chain, lib, bufferVars, phase, pos, final, pending, attempt,
                   history, cursor, faults, reorgs>>

\* pruneReversibleSegment, after the statements of the rows
Prune ==
    /\ phase = "flush" /\ todo = {}
    /\ history' = {r \in history : r.block > final}
    /\ phase' = "pruned"
    /\ UNCHANGED <<chain, lib, bufferVars, pos, todo, logged, final, pending, attempt,
                   rows, cursor, faults, reorgs>>

\* Mutant: the cursor is stored while statements are left.
CursorFirst ==
    /\ phase = "flush"
    /\ cursor' = pos /\ entries' = NoEntries
    /\ phase' = "idle"
    /\ UNCHANGED <<chain, lib, held, ahead, pos, todo, logged, final, pending, attempt,
                   rows, history, faults, reorgs>>

\* UpdateCursor, the last statement of a flush, and reset
FlushEnds ==
    /\ phase = "pruned"
    /\ cursor' = pos /\ entries' = NoEntries
    /\ phase' = "idle"
    /\ UNCHANGED <<chain, lib, held, ahead, pos, todo, logged, final, pending, attempt,
                   rows, history, faults, reorgs>>

\* Mutant: one attempt too many.
RetryOnceMore ==
    /\ phase \in {"flush", "pruned"} /\ Within(reorgs, faults + 1)
    /\ faults' = faults + 1
    /\ IF attempt <= FlushRetryCount
       THEN /\ attempt' = attempt + 1
            /\ todo' = Touched(entries) /\ phase' = "flush"
       ELSE /\ phase' = "down"
            /\ UNCHANGED <<attempt, todo>>
    /\ logged' = {}
    /\ UNCHANGED <<chain, lib, bufferVars, pos, final, pending, dbVars, reorgs>>

\* A statement fails; Rollback does nothing.  flushWithRetry runs the whole flush
\* again, or the process ends.
StatementFails ==
    /\ phase \in {"flush", "pruned"} /\ Within(reorgs, faults + 1)
    /\ faults' = faults + 1
    /\ IF attempt < FlushRetryCount
       THEN /\ attempt' = attempt + 1
            /\ todo' = Touched(entries) /\ phase' = "flush"
       ELSE /\ phase' = "down"
            /\ UNCHANGED <<attempt, todo>>
    /\ logged' = {}
    /\ UNCHANGED <<chain, lib, bufferVars, pos, final, pending, dbVars, reorgs>>

\* HandleBlockUndoSignal: the process is on blocks that left the chain.  What the
\* Loader buffered of them stays.
Undo ==
    /\ phase = "idle" /\ ~IsPrefix(pos, chain)
    /\ pos' = SubSeq(pos, 1, Common(pos, chain))
    /\ pending' = {r \in history : r.block > Common(pos, chain)}
    /\ phase' = "revert"
    /\ UNCHANGED <<chain, lib, bufferVars, todo, logged, final, attempt, dbVars,
                   faults, reorgs>>

RevertRow(r) ==
    /\ phase = "revert" /\ r \in NextToRevert
    /\ rows' = [rows EXCEPT ![r.key] = RevertOp(r, @)]
    /\ pending' = pending \ {r}
    /\ UNCHANGED <<chain, lib, bufferVars, phase, pos, todo, logged, final, attempt,
                   history, cursor, faults, reorgs>>

PruneReverted ==
    /\ phase = "revert" /\ pending = {}
    /\ history' = {r \in history : r.block <= Len(pos)}
    /\ phase' = "reverted"
    /\ UNCHANGED <<chain, lib, bufferVars, pos, todo, logged, final, pending, attempt,
                   rows, cursor, faults, reorgs>>

RevertEnds ==
    /\ phase = "reverted"
    /\ cursor' = pos
    /\ phase' = "idle"
    /\ UNCHANGED <<chain, lib, bufferVars, pos, todo, logged, final, pending, attempt,
                   rows, history, faults, reorgs>>

\* The process dies, or an error of the revert ends it
Crash ==
    /\ phase # "down" /\ Within(reorgs, faults + 1)
    /\ faults' = faults + 1
    /\ phase' = "down"
    /\ UNCHANGED <<chain, lib, bufferVars, pos, todo, logged, final, pending, attempt,
                   dbVars, reorgs>>

\* Mutant: the stream resumes where the process was, not where the cursor is.
RestartKeepsPosition ==
    /\ phase = "down"
    /\ phase' = "idle"
    /\ pos' = pos /\ entries' = NoEntries
    /\ todo' = {} /\ logged' = {} /\ pending' = {} /\ final' = 0 /\ attempt' = 0
    /\ UNCHANGED <<chain, lib, held, ahead, dbVars, faults, reorgs>>

\* Run: the cursor the database holds is where the stream resumes
Restart ==
    /\ phase = "down"
    /\ phase' = "idle"
    /\ pos' = cursor /\ entries' = NoEntries
    /\ todo' = {} /\ logged' = {} /\ pending' = {} /\ final' = 0 /\ attempt' = 0
    /\ UNCHANGED <<chain, lib, held, ahead, dbVars, faults, reorgs>>

CaughtUp == phase = "idle" /\ pos = chain

Waiting ==
    /\ CaughtUp /\ Len(chain) = MaxBlocks
    /\ UNCHANGED vars

Next ==
    \/ \E b \in Block, h \in 0 .. MaxBlocks : Extend(b, h)
    \/ \E n \in 0 .. MaxBlocks : Reorg(n)
    \/ \E flush \in BOOLEAN : HandleBlock(flush)
    \/ RejectBlock
    \/ \E k \in Key : SaveRow(k)
    \/ \E k \in Key : ExecStatement(k)
    \/ Prune
    \/ FlushEnds
    \/ StatementFails
    \/ Undo
    \/ \E r \in pending : RevertRow(r)
    \/ PruneReverted
    \/ RevertEnds
    \/ Crash
    \/ Restart
    \/ Waiting

Spec == Init /\ [][Next]_vars

-----------------------------------------------------------------------------
(* Properties *)

\* Every variable has its type; a retry stays within --flush-retry-count.
TypeOK ==
    /\ \A i \in DOMAIN chain : chain[i] \in Block
    /\ Len(chain) <= MaxBlocks
    /\ lib \in 0 .. MaxBlocks
    /\ phase \in {"idle", "flush", "pruned", "revert", "reverted", "down"}
    /\ \A i \in DOMAIN pos : pos[i] \in Block
    /\ entries \in [Key -> Entry]
    /\ todo \subseteq Key /\ logged \subseteq todo
    /\ final \in 0 .. MaxBlocks
    /\ pending \subseteq HistoryRow
    /\ attempt \in 0 .. FlushRetryCount
    /\ rows \in [Key -> Row]
    /\ history \subseteq HistoryRow
    /\ \A i \in DOMAIN cursor : cursor[i] \in Block
    /\ held \in BOOLEAN /\ ahead \in 0 .. MaxBlocks
    /\ faults \in Nat /\ reorgs \in Nat /\ Within(reorgs, faults)

\* As long as no block is replaced, partial flushes are harmless: a row shows a block
\* between the cursor and the last one a flush was started for, however the blocks were
\* put into batches before and after a failure or a restart.
RowsAtCursorOrAhead ==
    reorgs = 0 =>
        /\ Len(cursor) <= ahead /\ ahead <= Len(chain)
        /\ \A k \in Key : \E n \in Len(cursor) .. ahead :
               rows[k] = Content(SubSeq(chain, 1, n))[k]

\* The cursor, the last statement of a flush, only ever moves to where all rows are, as
\* long as no block is replaced, whatever statements failed or were repeated before: once
\* it is at the last block a flush was started for, no row is before or beyond it.
CursorMovesWithRows ==
    [][(reorgs' = 0 /\ cursor' # cursor /\ Len(cursor') = ahead) => rows' = Content(cursor')]_vars

\* As long as nothing fails the rows are, between two messages, those of the chain up to
\* the cursor: through batches, and through reorganisations if no block was held.
RowsMatchCursor ==
    (faults = 0 /\ (reorgs = 0 \/ ~held) /\ phase = "idle") => rows = Content(cursor)

\* What RisingWave's statements, committed one by one, still guarantee: rows and cursor
\* stay together as far as faults or reorganisations, alone, go.
RowsFollowCursor == TypeOK /\ RowsAtCursorOrAhead /\ RowsMatchCursor
=============================================================================
