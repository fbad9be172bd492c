--------------------------- MODULE SqlSinkerProofs ---------------------------
(***************************************************************************)
(* Proofs about SqlSinker and LostCommit, for all rows, values, changes,   *)
(* block ranges, flush intervals, retry settings and numbers of faults and *)
(* undos.                                                                  *)
(*                                                                         *)
(* The invariant is inductive for the configurations in which the buffer   *)
(* never holds a change across a reorg.                                    *)
(***************************************************************************)
EXTENDS LostCommit, FiniteSetTheorems, TLAPS

\* Either the endpoint sends no undo signal to the sink, or every block that
\* changes a row is flushed by its own handler.
SafeConfig == HandleReorgs => BatchRowFlushInterval = 0

-----------------------------------------------------------------------------
(* The inductive invariant.                                                *)

Working == phase \in {"ready", "apply", "flush", "complete"}
InBlock == phase \in {"apply", "flush"}

\* The stored block is part of the delivered chain, and below the block being
\* handled; a process that is down has nothing but the stored block.
CursorBehindHead ==
    /\ StoredBlock <= head
    /\ InBlock => StoredBlock < head
    /\ phase = "down" => head = StoredBlock /\ entries = NoEntries
    /\ phase = "revert" => HandleReorgs

\* Merging into a buffered update relies on the row it updates.
UpdatedRowsExist ==
    Working =>
        \A k \in Key : entries[k] # None /\ entries[k].type = "UPDATE"
                            => rows[k] # Absent

\* With reorgs, the buffer only ever holds changes of the current block, all
\* of them equally reversible, and the blocks since the stored one are empty.
BufferIsOneBlock ==
    HandleReorgs =>
        /\ ~InBlock /\ phase # "done" => entries = NoEntries
        /\ InBlock => \A k \in Key : entries[k] # None
                                        => entries[k].rev = ReversibleBlockNum
        /\ phase \in {"ready", "revert", "complete"} =>
             \A h \in Height : StoredBlock <= h /\ h <= head => truth[h] = rows
        /\ InBlock =>
             \A h \in Height : StoredBlock <= h /\ h < head => truth[h] = rows

HistoryInv ==
    HandleReorgs =>
        /\ phase # "done" => \A r \in history : r.block <= StoredBlock
        /\ HistoryRestores
        /\ HistoryComplete
        /\ OneHistoryRowPerKeyAndBlock

\* The open revert transaction: what was reverted is not older than what is
\* pending, and a row whose changes above h are all reverted, and no other, is
\* as it was at h.
RevertInv ==
    phase = "revert" =>
        /\ lib <= undoTo /\ undoTo < head
        /\ pending \subseteq ToRevert(undoTo)
        /\ \A r \in ToRevert(undoTo) \ pending : \A q \in pending : q.block <= r.block
        /\ \A k \in Key : \A h \in Height :
             /\ undoTo <= h /\ h <= head
             /\ \A r \in ToRevert(undoTo) : r.key = k => (r \in pending <=> r.block <= h)
             => txRows[k] = truth[h][k]

IInv ==
    /\ TypeOK
    /\ CursorBehindHead
    /\ RowsMatchCursor
    /\ BufferMatchesHead
    /\ UpdatedRowsExist
    /\ BufferIsOneBlock
    /\ HistoryInv
    /\ RevertInv

-----------------------------------------------------------------------------
(* Merging column values, and what the operators return.                   *)

\* mergeData of two sets of column values is one: the columns of both.
LEMMA MergeDataType ==
    ASSUME NEW a \in Data, NEW b \in Data
    PROVE  MergeData(a, b) \in Data
<1>1. PICK S \in SUBSET Col : a \in [S -> Val]
  BY DEF Data
<1>2. PICK T \in SUBSET Col : b \in [T -> Val]
  BY DEF Data
<1>3. MergeData(a, b) \in [S \cup T -> Val]
  BY <1>1, <1>2 DEF MergeData
<1> QED
  BY <1>3 DEF Data

\* Merging in the Loader and then in the database is merging in the database
\* twice: mergeOperation may postpone the merge to the flush.
LEMMA MergeDataAssoc ==
    ASSUME NEW a \in Data, NEW b \in Data, NEW c \in Data
    PROVE  MergeData(MergeData(a, b), c) = MergeData(a, MergeData(b, c))
BY DEF MergeData

\* The empty row is a row.
LEMMA NoDataType == NoData \in Data
<1>1. NoData \in [{} -> Val]
  BY DEF NoData
<1> QED
  BY <1>1 DEF Data

\* A statement leaves a row, or no row.
LEMMA ExecuteOnType ==
    ASSUME NEW type \in OpTypes, NEW data \in Data, NEW row \in Data \cup {Absent}
    PROVE  ExecuteOn(type, data, row) \in Data \cup {Absent}
BY MergeDataType DEF ExecuteOn, OpTypes

\* So does a buffered operation, or the lack of one.
LEMMA ExecuteType ==
    ASSUME NEW o \in Operation \cup {None}, NEW row \in Data \cup {Absent}
    PROVE  Execute(o, row) \in Data \cup {Absent}
<1>1. CASE o = None
  BY <1>1 DEF Execute
<1>2. CASE o # None
  BY <1>2, ExecuteOnType DEF Execute, Operation
<1> QED
  BY <1>1, <1>2

\* The Loader buffers an operation or rejects the change.
LEMMA BufferType ==
    ASSUME NEW e \in Operation \cup {None}, NEW c \in TableChange, NEW rev \in Height,
           Buffer(e, c, rev) # Rejected
    PROVE  Buffer(e, c, rev) \in Operation
<1> USE DEF TableChange, Operation, OpTypes
<1>1. CASE c.op = "INSERT"
  BY <1>1 DEF Buffer, Insert, NewOperation
<1>2. CASE c.op = "UPSERT"
  BY <1>2, MergeDataType DEF Buffer, Upsert, NewOperation
<1>3. CASE c.op = "UPDATE"
  BY <1>3, MergeDataType DEF Buffer, Update, NewOperation
<1>4. CASE c.op = "DELETE"
  BY <1>4, NoDataType DEF Buffer, Delete, NewOperation
<1> QED
  BY <1>1, <1>2, <1>3, <1>4

\* What a flush saves are history rows.
LEMMA SaveHistoryType ==
    ASSUME NEW k \in Key, NEW o \in Operation \cup {None}, NEW row \in Data \cup {Absent}
    PROVE  SaveHistory(k, o, row) \subseteq HistoryRow
BY DEF SaveHistory, SavedUpsertOp, HistoryRow, Operation, OpTypes

\* Reverting a history row leaves a row, or no row.
LEMMA RevertOpType ==
    ASSUME NEW r \in HistoryRow, NEW row \in Data \cup {Absent}
    PROVE  RevertOp(r, row) \in Data \cup {Absent}
BY DEF RevertOp, HistoryRow

-----------------------------------------------------------------------------
(* Type correctness.                                                       *)

\* The end of the process leaves a well-typed state.
LEMMA GoDownType ==
    ASSUME TypeOK, GoDown, faults' \in 0..MaxFaults
    PROVE  TypeOK'
<1>1. StoredBlock \in Height /\ 0 \in Height
  BY ConstantsAssumption DEF TypeOK, StoredBlock, Height, NoCursor
<1>2. NoRows \in Rows /\ NoEntries \in [Key -> Operation \cup {None}]
  BY DEF NoRows, Rows, NoEntries
<1>3. Truncate(truth, StoredBlock) \in [Height -> Rows]
  BY <1>2 DEF TypeOK, Truncate
<1>4. 0 \in 0..FlushRetryCount /\ 0 \in 0..MaxChanges
  BY ConstantsAssumption
<1> QED
  BY <1>1, <1>2, <1>3, <1>4 DEF TypeOK, GoDown, dbVars, Phases

\* A flush writes rows and history rows of their types, and moves the cursor
\* to a delivered block.
LEMMA LoaderFlushType ==
    ASSUME TypeOK, NEW final \in Height, LoaderFlush(final)
    PROVE  /\ rows' \in Rows
           /\ history' \in SUBSET HistoryRow
           /\ cursor' \in Height \cup {NoCursor}
           /\ entries' \in [Key -> Operation \cup {None}]
<1>1. rows' \in Rows
  BY ExecuteType DEF TypeOK, LoaderFlush, Rows
<1>2. \A k \in Key : SaveHistory(k, entries[k], rows[k]) \subseteq HistoryRow
  BY SaveHistoryType DEF TypeOK, Rows
<1> QED
  BY <1>1, <1>2
     DEF TypeOK, LoaderFlush, UpdateCursor, Reset, NoEntries, PruneReversibleSegment

\* Every step keeps the types, in every configuration.
LEMMA TypeStep ==
    ASSUME TypeOK, [Next]_vars
    PROVE  TypeOK'
<1> USE ConstantsAssumption
<1>0. CASE UNCHANGED vars
  BY <1>0 DEF vars, TypeOK
<1>1. CASE Run
  BY <1>1 DEF Run, TypeOK, StoredBlock, Phases, streamVars, txVars, Height, NoCursor
<1>2. ASSUME NEW final \in Height, ReceiveBlock(final) PROVE TypeOK'
  BY <1>2 DEF ReceiveBlock, TypeOK, Phases, txVars, dbVars, Height
<1>3. ASSUME NEW c \in Changes, ApplyChange(c) PROVE TypeOK'
  <2>1. c \in TableChange /\ c.key \in Key /\ c.op \in OpTypes /\ c.data \in Data
    BY DEF TableChange
  <2>2. ReversibleBlockNum \in Height
    BY DEF ReversibleBlockNum, NotReversible, Height, TypeOK
  <2>3. Buffer(entries[c.key], c, ReversibleBlockNum) \in Operation
    BY <1>3, <2>1, <2>2, BufferType DEF ApplyChange, TypeOK
  <2>4. entries' \in [Key -> Operation \cup {None}]
    BY <1>3, <2>3 DEF ApplyChange, TypeOK
  <2>5. truth[head][c.key] \in Data \cup {Absent}
    BY <2>1 DEF TypeOK, Rows
  <2>6. ExecuteOn(c.op, c.data, truth[head][c.key]) \in Data \cup {Absent}
    BY <2>1, <2>5, ExecuteOnType
  <2>7. [truth[head] EXCEPT ![c.key] = ExecuteOn(c.op, c.data, @)] \in Rows
    BY <2>6 DEF TypeOK, Rows
  <2>8. truth' \in [Height -> Rows]
    BY <1>3, <2>7 DEF ApplyChange, TypeOK
  <2> QED
    BY <1>3, <2>4, <2>8 DEF ApplyChange, TypeOK, txVars, dbVars
<1>4. ASSUME NEW c \in Changes, RejectChange(c) PROVE TypeOK'
  BY <1>4, GoDownType DEF RejectChange, TypeOK
<1>5. ASSUME NEW isLive \in BOOLEAN, NEW slow \in BOOLEAN, EndBlock(isLive, slow)
      PROVE TypeOK'
  <2>1. phase' \in Phases
    BY <1>5 DEF EndBlock, Phases
  <2> QED
    BY <1>5, <2>1 DEF EndBlock, TypeOK, streamVars, txVars, dbVars
<1>6. CASE RangeCompletion
  BY <1>6 DEF RangeCompletion, TypeOK, Phases, streamVars, txVars, dbVars
<1>7. CASE FlushCommit
  BY <1>7, LoaderFlushType DEF FlushCommit, TypeOK, Phases, streamVars, txVars
<1>8. CASE CompletionCommit
  BY <1>8, LoaderFlushType DEF CompletionCommit, TypeOK, Phases, streamVars, txVars
<1>9. CASE FlushFailure
  <2>1. faults' \in 0..MaxFaults
    BY <1>9 DEF FlushFailure, TypeOK
  <2>2. CASE MayRetry
    BY <1>9, <2>1, <2>2 DEF FlushFailure, MayRetry, TypeOK, streamVars, txVars, dbVars
  <2>3. CASE ~MayRetry
    BY <1>9, <2>1, <2>3, GoDownType DEF FlushFailure
  <2> QED
    BY <2>2, <2>3
<1>10. ASSUME NEW n \in Height, UndoSignal(n) PROVE TypeOK'
  BY <1>10 DEF UndoSignal, TypeOK, Phases, ToRevert, streamVars, dbVars
<1>11. ASSUME NEW r \in pending, RevertRow(r) PROVE TypeOK'
  <2>1. r \in HistoryRow /\ r.key \in Key
    BY DEF TypeOK, HistoryRow
  <2>2. RevertOp(r, txRows[r.key]) \in Data \cup {Absent}
    BY <2>1, RevertOpType DEF TypeOK, Rows
  <2>3. txRows' \in Rows
    BY <1>11, <2>1, <2>2 DEF RevertRow, TypeOK, Rows
  <2> QED
    BY <1>11, <2>3 DEF RevertRow, TypeOK, streamVars, dbVars
<1>12. CASE RevertCommit
  BY <1>12 DEF RevertCommit, UpdateCursor, PruneReverted, TypeOK, Phases, Truncate, NoRows,
               Rows, Height
<1>13. CASE RevertFailure
  <2>1. faults' \in 0..MaxFaults
    BY <1>13 DEF RevertFailure, TypeOK
  <2> QED
    BY <1>13, <2>1, GoDownType DEF RevertFailure
<1>14. CASE Crash
  BY <1>14, GoDownType DEF Crash, TypeOK
<1>15. CASE Terminated
  BY <1>15 DEF Terminated, vars, TypeOK
<1> QED
  BY <1>0, <1>1, <1>2, <1>3, <1>4, <1>5, <1>6, <1>7, <1>8, <1>9, <1>10, <1>11, <1>12,
     <1>13, <1>14, <1>15 DEF Next

\* The initial state is well typed.
LEMMA TypeInit == Init => TypeOK
<1>1. NoRows \in Rows /\ NoEntries \in [Key -> Operation \cup {None}]
  BY DEF NoRows, Rows, NoEntries
<1>2. 0 \in Height /\ 0 \in 0..FlushRetryCount /\ 0 \in 0..MaxChanges
      /\ 0 \in 0..MaxFaults /\ 0 \in 0..MaxUndos
  BY ConstantsAssumption DEF Height
<1> QED
  BY <1>1, <1>2 DEF Init, TypeOK, Phases

\* Every variable of the model, the buffered operations and the history rows
\* included, keeps its type under every configuration: retries stay within
\* --flush-retry-count, and no operation the Loader refused is buffered.
THEOREM TypeCorrect == Spec => []TypeOK
BY TypeInit, TypeStep, PTL DEF Spec

-----------------------------------------------------------------------------
(* What buffering and executing an operation do to one row.                *)

\* What each kind of statement leaves (prepareStatement).
LEMMA ExecuteOnCases ==
    ASSUME NEW data, NEW row
    PROVE  /\ ExecuteOn("INSERT", data, row) = data
           /\ ExecuteOn("UPSERT", data, row)
                = IF row = Absent THEN data ELSE MergeData(row, data)
           /\ ExecuteOn("UPDATE", data, row)
                = IF row = Absent THEN Absent ELSE MergeData(row, data)
           /\ ExecuteOn("DELETE", data, row) = Absent
BY DEF ExecuteOn

\* What reverting each kind of history row leaves (revertOp).
LEMMA RevertOpCases ==
    ASSUME NEW r, NEW row
    PROVE  /\ r.op = "I" => RevertOp(r, row) = Absent
           /\ r.op = "D" => RevertOp(r, row) = r.prev
           /\ r.op = "U" => RevertOp(r, row) = IF row = Absent THEN Absent ELSE r.prev
BY DEF RevertOp

\* Buffering a legal change does to the row what the change does to the
\* chain, whatever was buffered before: merging into a buffered operation
\* loses nothing.
LEMMA BufferExecutes ==
    ASSUME NEW e \in Operation \cup {None}, NEW c \in TableChange, NEW rev \in Height,
           NEW row \in Data \cup {Absent},
           Buffer(e, c, rev) # Rejected,
           c.op = "INSERT" => Execute(e, row) = Absent,
           c.op = "UPDATE" => Execute(e, row) # Absent,
           e # None /\ e.type = "UPDATE" => row # Absent
    PROVE  LET b == Buffer(e, c, rev)
           IN  /\ Execute(b, row) = ExecuteOn(c.op, c.data, Execute(e, row))
               /\ b # None /\ b.type = "UPDATE" => row # Absent
               /\ (e # None => e.rev = rev) => b.rev = rev
<1> DEFINE b == Buffer(e, c, rev)
<1>1. b \in Operation /\ b # None
  BY BufferType, ConstantsAssumption
<1>2. Execute(b, row) = ExecuteOn(b.type, b.data, row)
  BY <1>1 DEF Execute
<1>3. e # None => Execute(e, row) = ExecuteOn(e.type, e.data, row)
  BY DEF Execute
<1>4. e = None => Execute(e, row) = row
  BY DEF Execute
<1>5. c.data \in Data /\ (e # None => e.data \in Data /\ e.type \in OpTypes)
  BY DEF TableChange, Operation
<1>6. Absent \notin Data
  BY ConstantsAssumption
<1> HIDE DEF b
<1>7. CASE c.op = "INSERT"
  <2>1. b = Insert(e, c.data, rev)
    BY <1>7 DEF b, Buffer
  <2>2. e = None /\ b = NewOperation("INSERT", c.data, TRUE, rev)
    BY <2>1 DEF Insert, b
  <2> QED
    BY <1>2, <1>7, <2>2, ExecuteOnCases DEF NewOperation, b
<1>8. CASE c.op = "UPSERT"
  <2>1. b = Upsert(e, c.data, rev)
    BY <1>8 DEF b, Buffer
  <2>2. CASE e = None
    <3>1. b = NewOperation("UPSERT", c.data, TRUE, rev)
      BY <2>1, <2>2 DEF Upsert
    <3> QED
      BY <1>2, <1>4, <1>8, <2>2, <3>1, ExecuteOnCases DEF NewOperation, b
  <2>3. CASE e # None
    <3>1. /\ e.type \in {"UPDATE", "UPSERT"}
          /\ b = [e EXCEPT !.type = "UPSERT", !.data = MergeData(e.data, c.data)]
      BY <2>1, <2>3 DEF Upsert, b
    <3>2. b.type = "UPSERT" /\ b.data = MergeData(e.data, c.data) /\ b.rev = e.rev
      BY <2>3, <3>1 DEF Operation
    <3>3. row # Absent => MergeData(row, e.data) \in Data
      BY <1>5, <2>3, MergeDataType
    <3>4. row # Absent => MergeData(MergeData(row, e.data), c.data)
                            = MergeData(row, MergeData(e.data, c.data))
      BY <1>5, <2>3, MergeDataAssoc
    <3>5. ExecuteOn(b.type, b.data, row)
            = IF row = Absent THEN MergeData(e.data, c.data)
              ELSE MergeData(row, MergeData(e.data, c.data))
      BY <3>2, ExecuteOnCases
    <3>6. Execute(e, row) = IF row = Absent THEN e.data ELSE MergeData(row, e.data)
      BY <1>3, <2>3, <3>1, ExecuteOnCases
    <3>7. ExecuteOn(c.op, c.data, Execute(e, row)) = MergeData(Execute(e, row), c.data)
      BY <1>5, <1>6, <1>8, <2>3, <3>3, <3>6, ExecuteOnCases
    <3>8. Execute(b, row) = ExecuteOn(c.op, c.data, Execute(e, row))
      BY <1>2, <3>4, <3>5, <3>6, <3>7
    <3> QED
      BY <2>3, <3>2, <3>8 DEF b
  <2> QED
    BY <2>2, <2>3
<1>9. CASE c.op = "UPDATE"
  <2>1. b = Update(e, c.data, rev)
    BY <1>9 DEF b, Buffer
  <2>2. CASE e = None
    <3>1. b = NewOperation("UPDATE", c.data, FALSE, rev)
      BY <2>1, <2>2 DEF Update
    <3> QED
      BY <1>2, <1>4, <1>9, <2>2, <3>1, ExecuteOnCases DEF NewOperation, b
  <2>3. CASE e # None
    <3>1. e.type # "DELETE" /\ b = [e EXCEPT !.data = MergeData(e.data, c.data)]
      BY <2>1, <2>3 DEF Update, b
    <3>2. b.type = e.type /\ b.data = MergeData(e.data, c.data) /\ b.rev = e.rev
      BY <2>3, <3>1 DEF Operation
    <3>3. row # Absent => MergeData(MergeData(row, e.data), c.data)
                            = MergeData(row, MergeData(e.data, c.data))
      BY <1>5, <2>3, MergeDataAssoc
    <3>4. ExecuteOn(c.op, c.data, Execute(e, row)) = MergeData(Execute(e, row), c.data)
      BY <1>9, ExecuteOnCases
    <3>5. e.type = "INSERT" => Execute(b, row) = ExecuteOn(c.op, c.data, Execute(e, row))
      BY <1>2, <1>3, <2>3, <3>2, <3>4, ExecuteOnCases
    <3>6. e.type = "UPSERT" => Execute(b, row) = ExecuteOn(c.op, c.data, Execute(e, row))
      BY <1>2, <1>3, <2>3, <3>2, <3>3, <3>4, ExecuteOnCases
    <3>7. e.type = "UPDATE" => Execute(b, row) = ExecuteOn(c.op, c.data, Execute(e, row))
      BY <1>2, <1>3, <2>3, <3>2, <3>3, <3>4, ExecuteOnCases
    <3>8. Execute(b, row) = ExecuteOn(c.op, c.data, Execute(e, row))
      BY <1>5, <2>3, <3>1, <3>5, <3>6, <3>7 DEF OpTypes
    <3> QED
      BY <2>3, <3>2, <3>8 DEF b
  <2> QED
    BY <2>2, <2>3
<1>10. CASE c.op = "DELETE"
  <2>1. b = NewOperation("DELETE", NoData, FALSE, rev)
    BY <1>10 DEF b, Buffer, Delete
  <2> QED
    BY <1>2, <1>10, <2>1, ExecuteOnCases DEF NewOperation, b
<1> QED
  BY <1>7, <1>8, <1>9, <1>10 DEF TableChange, OpTypes

-----------------------------------------------------------------------------
(* The invariant holds initially.                                          *)

\* The stored cursor stands for a block of the range.
LEMMA StoredBlockType == TypeOK => StoredBlock \in Height
BY ConstantsAssumption DEF TypeOK, StoredBlock, Height, NoCursor

\* The initial state satisfies the inductive invariant.
LEMMA InitIInv == ASSUME Init PROVE IInv
<1>1. TypeOK
  BY TypeInit
<1>2. StoredBlock = 0
  BY DEF Init, StoredBlock, NoCursor
<1>3. CursorBehindHead /\ RowsMatchCursor
  BY <1>2, ConstantsAssumption DEF Init, CursorBehindHead, RowsMatchCursor, InBlock, Height
<1>4. BufferMatchesHead /\ UpdatedRowsExist /\ RevertInv
  BY DEF Init, BufferMatchesHead, UpdatedRowsExist, RevertInv, Working
<1>5. BufferIsOneBlock
  BY DEF Init, BufferIsOneBlock, InBlock
<1>6. HistoryInv
  BY <1>2, ConstantsAssumption
     DEF Init, HistoryInv, HistoryRestores, HistoryComplete, OneHistoryRowPerKeyAndBlock,
         Height
<1> QED
  BY <1>1, <1>3, <1>4, <1>5, <1>6 DEF IInv

-----------------------------------------------------------------------------
(* Steps that leave the stored blocks alone.                               *)

\* The history stays right while the blocks up to the stored one do not
\* change, whatever is delivered above them.
LEMMA HistoryKept ==
    ASSUME TypeOK, TypeOK', HistoryInv, phase # "done",
           history' = history, lib' >= lib, StoredBlock' = StoredBlock,
           \A h \in Height : h <= StoredBlock => truth'[h] = truth[h]
    PROVE  HistoryInv'
<1> SUFFICES ASSUME HandleReorgs PROVE HistoryInv'
  BY DEF HistoryInv
<1>0. StoredBlock \in Height /\ lib \in Height /\ lib' \in Height
  BY StoredBlockType DEF TypeOK
<1>1. \A r \in history : r.block \in Height /\ r.block <= StoredBlock
  BY DEF HistoryInv, TypeOK, HistoryRow
<1>2. HistoryRestores'
  <2> SUFFICES ASSUME NEW r \in history, r.block > lib'
               PROVE  /\ r.prev = truth'[r.block - 1][r.key]
                      /\ r.op = "I" <=> r.prev = Absent
                      /\ r.op = "U" => truth'[r.block][r.key] # Absent
                      /\ r.op = "D" => truth'[r.block][r.key] = Absent
    BY DEF HistoryRestores
  <2>1. r.block > lib /\ r.block \in Height /\ r.block <= StoredBlock
        /\ r.block - 1 \in Height /\ r.block - 1 <= StoredBlock
    BY <1>0, <1>1, ConstantsAssumption DEF Height
  <2>2. truth'[r.block - 1] = truth[r.block - 1] /\ truth'[r.block] = truth[r.block]
    BY <2>1
  <2> QED
    BY <2>1, <2>2 DEF HistoryInv, HistoryRestores
<1>3. HistoryComplete'
  <2> SUFFICES ASSUME NEW h \in Height, NEW g \in Height,
                      lib' <= h, h < g, g <= StoredBlock, NEW k \in Key,
                      \A r \in history : r.key = k => ~(h < r.block /\ r.block <= g)
               PROVE  truth'[h][k] = truth'[g][k]
    BY DEF HistoryComplete
  <2>1. truth[h][k] = truth[g][k]
    BY <1>0, ConstantsAssumption DEF HistoryInv, HistoryComplete, Height
  <2>2. truth'[h] = truth[h] /\ truth'[g] = truth[g]
    BY <1>0, ConstantsAssumption DEF Height
  <2> QED
    BY <2>1, <2>2
<1>4. OneHistoryRowPerKeyAndBlock'
  BY DEF HistoryInv, OneHistoryRowPerKeyAndBlock
<1> QED
  BY <1>1, <1>2, <1>3, <1>4 DEF HistoryInv

\* Losing the process loses nothing that is stored.
LEMMA GoDownIInv ==
    ASSUME IInv, TypeOK', GoDown, phase # "done"
    PROVE  IInv'
<1>0. StoredBlock' = StoredBlock /\ StoredBlock \in Height
  BY StoredBlockType DEF IInv, GoDown, dbVars, StoredBlock
<1>1. \A h \in Height : h <= StoredBlock => truth'[h] = truth[h]
  BY DEF GoDown, Truncate
<1>2. HistoryInv'
  BY <1>0, <1>1, HistoryKept, ConstantsAssumption
     DEF IInv, GoDown, dbVars, TypeOK, Height
<1>3. CursorBehindHead'
  BY <1>0, ConstantsAssumption DEF CursorBehindHead, GoDown, InBlock, Height
<1>4. RowsMatchCursor'
  BY <1>0, <1>1, ConstantsAssumption DEF IInv, RowsMatchCursor, GoDown, dbVars, Height
<1>5. BufferMatchesHead' /\ UpdatedRowsExist' /\ RevertInv'
  BY DEF BufferMatchesHead, UpdatedRowsExist, RevertInv, GoDown, Working
<1>6. BufferIsOneBlock'
  BY DEF BufferIsOneBlock, GoDown, InBlock
<1> QED
  BY <1>2, <1>3, <1>4, <1>5, <1>6 DEF IInv

\* Run keeps the invariant: the restarted process has an empty buffer and
\* stands at the stored block.
LEMMA RunIInv == ASSUME IInv, TypeOK', Run PROVE IInv'
<1>0. StoredBlock' = StoredBlock /\ StoredBlock \in Height
  <2>1. StoredBlock \in Height
    BY StoredBlockType DEF IInv
  <2> QED
    BY <2>1, ConstantsAssumption DEF Run, StoredBlock, NoCursor, Height
<1>1. /\ truth' = truth /\ head' = head /\ lib' = lib
      /\ entries' = entries /\ rows' = rows /\ history' = history
      /\ phase = "down" /\ phase' = "ready"
  BY DEF Run, streamVars
<1>2. HistoryInv'
  BY <1>0, <1>1, HistoryKept, ConstantsAssumption DEF IInv, TypeOK, Height
<1>3. head = StoredBlock /\ rows = truth[head]
  BY <1>1 DEF IInv, CursorBehindHead, RowsMatchCursor
<1>4. CursorBehindHead' /\ RowsMatchCursor' /\ RevertInv'
  BY <1>0, <1>1, <1>3
     DEF IInv, CursorBehindHead, RowsMatchCursor, RevertInv, InBlock, TypeOK, Height
<1>5. entries = NoEntries
  BY <1>1 DEF IInv, CursorBehindHead
<1>6. BufferMatchesHead' /\ UpdatedRowsExist'
  BY <1>1, <1>3, <1>5
     DEF BufferMatchesHead, UpdatedRowsExist, NoEntries, Execute
<1>7. BufferIsOneBlock'
  BY <1>0, <1>1, <1>3, <1>5, ConstantsAssumption DEF BufferIsOneBlock, InBlock, Height
<1> QED
  BY <1>2, <1>4, <1>6, <1>7 DEF IInv

\* A new block keeps the invariant: it starts as a copy of the one before.
LEMMA ReceiveBlockIInv ==
    ASSUME IInv, TypeOK', NEW final \in Height, ReceiveBlock(final)
    PROVE  IInv'
<1>0. StoredBlock' = StoredBlock /\ StoredBlock \in Height /\ StoredBlock <= head
      /\ head \in Height /\ head + 1 \in Height
  BY StoredBlockType, ConstantsAssumption
     DEF IInv, ReceiveBlock, dbVars, StoredBlock, CursorBehindHead, TypeOK, Height
<1>1. /\ head' = head + 1 /\ lib' = final /\ final >= lib
      /\ entries' = entries /\ rows' = rows /\ history' = history
      /\ phase = "ready" /\ phase' = "apply"
  BY DEF ReceiveBlock, dbVars
<1>2. /\ truth'[head + 1] = truth[head]
      /\ \A h \in Height : h <= head => truth'[h] = truth[h]
  BY <1>0, ConstantsAssumption DEF IInv, ReceiveBlock, TypeOK, Height
<1>3. HistoryInv'
  BY <1>0, <1>1, <1>2, HistoryKept, ConstantsAssumption DEF IInv, TypeOK, Height
<1>4. CursorBehindHead' /\ RowsMatchCursor' /\ RevertInv'
  BY <1>0, <1>1, <1>2, ConstantsAssumption
     DEF IInv, CursorBehindHead, RowsMatchCursor, RevertInv, InBlock, Height
<1>5. BufferMatchesHead' /\ UpdatedRowsExist'
  BY <1>1, <1>2 DEF IInv, BufferMatchesHead, UpdatedRowsExist, Working
<1>6. BufferIsOneBlock'
  <2> SUFFICES ASSUME HandleReorgs PROVE BufferIsOneBlock'
    BY DEF BufferIsOneBlock
  <2>1. entries = NoEntries
        /\ \A h \in Height : StoredBlock <= h /\ h <= head => truth[h] = rows
    BY <1>1 DEF IInv, BufferIsOneBlock, InBlock
  <2> QED
    BY <1>0, <1>1, <1>2, <2>1, ConstantsAssumption
       DEF BufferIsOneBlock, InBlock, NoEntries, Height
<1> QED
  BY <1>3, <1>4, <1>5, <1>6 DEF IInv

\* A table change keeps the invariant: merging it in the buffer has the
\* effect of executing it.
LEMMA ApplyChangeIInv ==
    ASSUME IInv, TypeOK', NEW c \in Changes, ApplyChange(c)
    PROVE  IInv'
<1>0. StoredBlock' = StoredBlock /\ StoredBlock \in Height /\ StoredBlock < head
      /\ head \in Height
  BY StoredBlockType
     DEF IInv, ApplyChange, dbVars, StoredBlock, CursorBehindHead, TypeOK, InBlock
<1>1. /\ head' = head /\ lib' = lib /\ rows' = rows /\ history' = history
      /\ phase = "apply" /\ phase' = "apply"
  BY DEF ApplyChange, dbVars
<1>2. c \in TableChange /\ c.key \in Key
  BY ConstantsAssumption DEF TableChange
<1>3. /\ \A h \in Height : h < head => truth'[h] = truth[h]
      /\ \A k \in Key : k # c.key => truth'[head][k] = truth[head][k]
      /\ truth'[head][c.key] = ExecuteOn(c.op, c.data, truth[head][c.key])
  BY <1>0, <1>2, ConstantsAssumption DEF IInv, ApplyChange, TypeOK, Rows, Height
<1>4. \A k \in Key : k # c.key => entries'[k] = entries[k]
  BY <1>2 DEF IInv, ApplyChange, TypeOK
<1>5. ReversibleBlockNum \in Height /\ ReversibleBlockNum' = ReversibleBlockNum
  BY <1>1, ConstantsAssumption DEF IInv, ReversibleBlockNum, NotReversible, Height, TypeOK
<1>6. /\ entries'[c.key] = Buffer(entries[c.key], c, ReversibleBlockNum)
      /\ entries'[c.key] # Rejected
  BY <1>2 DEF IInv, ApplyChange, TypeOK
<1>7. Execute(entries[c.key], rows[c.key]) = truth[head][c.key]
  BY <1>1, <1>2 DEF IInv, BufferMatchesHead
<1>8. /\ Execute(entries'[c.key], rows[c.key]) = truth'[head][c.key]
      /\ entries'[c.key] # None /\ entries'[c.key].type = "UPDATE" => rows[c.key] # Absent
      /\ (entries[c.key] # None => entries[c.key].rev = ReversibleBlockNum)
            => entries'[c.key].rev = ReversibleBlockNum
  <2>1. entries[c.key] \in Operation \cup {None} /\ rows[c.key] \in Data \cup {Absent}
    BY <1>2 DEF IInv, TypeOK, Rows
  <2>2. entries[c.key] # None /\ entries[c.key].type = "UPDATE" => rows[c.key] # Absent
    BY <1>1, <1>2 DEF IInv, UpdatedRowsExist, Working
  <2>3. /\ c.op = "INSERT" => truth[head][c.key] = Absent
        /\ c.op = "UPDATE" => truth[head][c.key] # Absent
    BY DEF ApplyChange, Legal
  <2> QED
    BY <1>2, <1>3, <1>5, <1>6, <1>7, <2>1, <2>2, <2>3, BufferExecutes
<1>9. HistoryInv'
  BY <1>0, <1>1, <1>3, HistoryKept, ConstantsAssumption DEF IInv, TypeOK, Height
<1>10. CursorBehindHead' /\ RowsMatchCursor' /\ RevertInv'
  BY <1>0, <1>1, <1>3, ConstantsAssumption
     DEF IInv, CursorBehindHead, RowsMatchCursor, RevertInv, InBlock, Height
<1>11. BufferMatchesHead' /\ UpdatedRowsExist'
  BY <1>1, <1>3, <1>4, <1>8 DEF IInv, BufferMatchesHead, UpdatedRowsExist, Working
<1>12. BufferIsOneBlock'
  <2> SUFFICES ASSUME HandleReorgs PROVE BufferIsOneBlock'
    BY DEF BufferIsOneBlock
  <2>1. /\ \A h \in Height : StoredBlock <= h /\ h < head => truth[h] = rows
        /\ \A k \in Key : entries[k] # None => entries[k].rev = ReversibleBlockNum
    BY <1>1 DEF IInv, BufferIsOneBlock, InBlock
  <2>2. \A k \in Key : entries'[k] # None => entries'[k].rev = ReversibleBlockNum
    BY <1>2, <1>4, <1>8, <2>1
  <2> QED
    BY <1>0, <1>1, <1>3, <1>5, <2>1, <2>2 DEF BufferIsOneBlock, InBlock
<1> QED
  BY <1>9, <1>10, <1>11, <1>12 DEF IInv

\* A block that is not flushed has left nothing in the buffer, when reorgs
\* have to be handled.
LEMMA EndBlockIInv ==
    ASSUME SafeConfig, IInv, TypeOK', NEW isLive \in BOOLEAN, NEW slow \in BOOLEAN,
           EndBlock(isLive, slow)
    PROVE  IInv'
<1>0. StoredBlock' = StoredBlock /\ StoredBlock \in Height /\ head \in Height
  BY StoredBlockType DEF IInv, EndBlock, dbVars, StoredBlock, TypeOK
<1>1. /\ head' = head /\ lib' = lib /\ truth' = truth
      /\ rows' = rows /\ history' = history /\ entries' = entries
      /\ phase = "apply" /\ phase' \in {"flush", "ready"}
      /\ phase' = "ready" => ~FlushNeeded
  BY DEF EndBlock, dbVars, streamVars
<1>2. HistoryInv'
  BY <1>0, <1>1, HistoryKept, ConstantsAssumption DEF IInv, TypeOK, Height
<1>3. CursorBehindHead' /\ RowsMatchCursor' /\ RevertInv'
  BY <1>0, <1>1, ConstantsAssumption
     DEF IInv, CursorBehindHead, RowsMatchCursor, RevertInv, InBlock, Height
<1>4. BufferMatchesHead' /\ UpdatedRowsExist'
  BY <1>1 DEF IInv, BufferMatchesHead, UpdatedRowsExist, Working
<1>5. BufferIsOneBlock'
  <2> SUFFICES ASSUME HandleReorgs PROVE BufferIsOneBlock'
    BY DEF BufferIsOneBlock
  <2>1. /\ \A h \in Height : StoredBlock <= h /\ h < head => truth[h] = rows
        /\ \A k \in Key : entries[k] # None => entries[k].rev = ReversibleBlockNum
    BY <1>1 DEF IInv, BufferIsOneBlock, InBlock
  <2>2. CASE phase' = "flush"
    BY <1>0, <1>1, <2>1, <2>2 DEF BufferIsOneBlock, InBlock, ReversibleBlockNum
  <2>3. CASE phase' = "ready"
    <3> DEFINE Buffered == {k \in Key : entries[k] # None}
    <3>1. IsFiniteSet(Buffered) /\ Cardinality(Buffered) \in Nat
      BY ConstantsAssumption, FS_Subset, FS_CardinalityType
    <3>2. Cardinality(Buffered) = 0
      BY <1>1, <2>3, <3>1 DEF FlushNeeded, SafeConfig
    <3>3. Buffered = {}
      BY <3>1, <3>2, FS_EmptySet
    <3>4. entries = NoEntries
      BY <3>3 DEF IInv, TypeOK, NoEntries
    <3>5. truth[head] = rows
      <4>1. \A k \in Key : truth[head][k] = rows[k]
        BY <1>1, <3>4 DEF IInv, BufferMatchesHead, NoEntries, Execute
      <4> QED
        BY <1>0, <4>1 DEF IInv, TypeOK, Rows
    <3> QED
      BY <1>0, <1>1, <2>1, <2>3, <3>4, <3>5, ConstantsAssumption
         DEF BufferIsOneBlock, InBlock, Height
  <2> QED
    BY <1>1, <2>2, <2>3
<1> QED
  BY <1>2, <1>3, <1>4, <1>5 DEF IInv

\* The end of the range, and another attempt at a flush, change nothing the
\* invariant speaks of.
LEMMA QuietIInv ==
    ASSUME IInv, TypeOK', UNCHANGED <<streamVars, entries, dbVars>>,
           \/ phase' = phase /\ phase \in {"flush", "complete"}
           \/ phase = "ready" /\ phase' = "complete"
    PROVE  IInv'
<1>0. StoredBlock' = StoredBlock /\ StoredBlock \in Height /\ head \in Height
  BY StoredBlockType DEF IInv, dbVars, StoredBlock, TypeOK
<1>1. /\ head' = head /\ lib' = lib /\ truth' = truth
      /\ rows' = rows /\ history' = history /\ entries' = entries
  BY DEF dbVars, streamVars
<1>2. HistoryInv'
  BY <1>0, <1>1, HistoryKept, ConstantsAssumption DEF IInv, TypeOK, Height
<1>3. CursorBehindHead' /\ RowsMatchCursor' /\ RevertInv'
  BY <1>0, <1>1 DEF IInv, CursorBehindHead, RowsMatchCursor, RevertInv, InBlock
<1>4. BufferMatchesHead' /\ UpdatedRowsExist'
  BY <1>1 DEF IInv, BufferMatchesHead, UpdatedRowsExist, Working
<1>5. BufferIsOneBlock'
  BY <1>0, <1>1 DEF IInv, BufferIsOneBlock, InBlock, ReversibleBlockNum
<1> QED
  BY <1>2, <1>3, <1>4, <1>5 DEF IInv

-----------------------------------------------------------------------------
(* A flush.                                                                *)

\* The history row a flush writes for a row: at most one, for the reversible
\* block of the operation, with the row as it is before the flush and the
\* operation that restores it.
LEMMA SavedRow ==
    ASSUME NEW k \in Key, NEW o \in Operation \cup {None}, NEW row \in Data \cup {Absent},
           Executable(o, row), NEW r \in SaveHistory(k, o, row)
    PROVE  /\ o # None /\ r.block = o.rev /\ r.key = k /\ r.prev = row
           /\ r.op = "I" <=> r.prev = Absent
           /\ r.op = "U" => Execute(o, row) # Absent
           /\ r.op = "D" => Execute(o, row) = Absent
           /\ \A q \in SaveHistory(k, o, row) : q = r
<1> DEFINE saved(op, prev) == [block |-> o.rev, key |-> k, op |-> op, prev |-> prev]
<1>1. o # None /\ o.rev # NotReversible
  BY DEF SaveHistory
<1>2. o.type \in OpTypes /\ o.data \in Data /\ Absent \notin Data
  BY <1>1, ConstantsAssumption DEF Operation
<1>3. Execute(o, row) = ExecuteOn(o.type, o.data, row)
  BY <1>1 DEF Execute
<1>4. CASE o.type = "INSERT"
  <2>1. SaveHistory(k, o, row) = {saved("I", Absent)}
    BY <1>1, <1>4 DEF SaveHistory
  <2>2. row = Absent
    BY <1>1, <1>4 DEF Executable
  <2> QED
    BY <1>1, <2>1, <2>2
<1>5. CASE o.type = "UPSERT"
  <2>1. SaveHistory(k, o, row) = {saved(IF row = Absent THEN "I" ELSE "U", row)}
    BY <1>1, <1>5 DEF SaveHistory, SavedUpsertOp
  <2>2. ExecuteOn(o.type, o.data, row) # Absent
    BY <1>2, <1>5, ExecuteOnCases, MergeDataType
  <2> QED
    BY <1>1, <1>3, <2>1, <2>2
<1>6. CASE o.type = "UPDATE"
  <2>1. SaveHistory(k, o, row) = IF row = Absent THEN {} ELSE {saved("U", row)}
    BY <1>1, <1>6 DEF SaveHistory
  <2>2. row # Absent => ExecuteOn(o.type, o.data, row) # Absent
    BY <1>2, <1>6, ExecuteOnCases, MergeDataType
  <2> QED
    BY <1>1, <1>3, <2>1, <2>2
<1>7. CASE o.type = "DELETE"
  <2>1. SaveHistory(k, o, row) = IF row = Absent THEN {} ELSE {saved("D", row)}
    BY <1>1, <1>7 DEF SaveHistory
  <2>2. ExecuteOn(o.type, o.data, row) = Absent
    BY <1>7, ExecuteOnCases
  <2> QED
    BY <1>1, <1>3, <2>1, <2>2
<1> QED
  BY <1>2, <1>4, <1>5, <1>6, <1>7 DEF OpTypes

\* A reversible operation that writes no history row does not change its row.
LEMMA UnsavedRow ==
    ASSUME NEW k \in Key, NEW o \in Operation \cup {None}, NEW row \in Data \cup {Absent},
           o # None => o.rev # NotReversible, SaveHistory(k, o, row) = {}
    PROVE  Execute(o, row) = row
<1> DEFINE saved(op, prev) == [block |-> o.rev, key |-> k, op |-> op, prev |-> prev]
<1>1. CASE o = None
  BY <1>1 DEF Execute
<1>2. CASE o # None
  <2>1. o.type \in OpTypes /\ Execute(o, row) = ExecuteOn(o.type, o.data, row)
    BY <1>2 DEF Operation, Execute
  <2>2. o.type # "INSERT"
    <3> SUFFICES ASSUME o.type = "INSERT" PROVE FALSE
      OBVIOUS
    <3>1. SaveHistory(k, o, row) = {saved("I", Absent)}
      BY <1>2 DEF SaveHistory
    <3> QED
      BY <3>1
  <2>3. o.type # "UPSERT"
    <3> SUFFICES ASSUME o.type = "UPSERT" PROVE FALSE
      OBVIOUS
    <3>1. SaveHistory(k, o, row) = {saved(IF row = Absent THEN "I" ELSE "U", row)}
      BY <1>2 DEF SaveHistory, SavedUpsertOp
    <3> QED
      BY <3>1
  <2>4. CASE o.type = "UPDATE"
    <3>1. SaveHistory(k, o, row) = IF row = Absent THEN {} ELSE {saved("U", row)}
      BY <1>2, <2>4 DEF SaveHistory
    <3>2. row = Absent
      BY <3>1
    <3> QED
      BY <2>1, <2>4, <3>2, ExecuteOnCases
  <2>5. CASE o.type = "DELETE"
    <3>1. SaveHistory(k, o, row) = IF row = Absent THEN {} ELSE {saved("D", row)}
      BY <1>2, <2>5 DEF SaveHistory
    <3>2. row = Absent
      BY <3>1
    <3> QED
      BY <2>1, <2>5, <3>2, ExecuteOnCases
  <2> QED
    BY <2>1, <2>2, <2>3, <2>4, <2>5 DEF OpTypes
<1> QED
  BY <1>1, <1>2

\* A flush stores the delivered chain up to the current block.
LEMMA FlushStoresHead ==
    ASSUME IInv, Working, NEW final \in Height, LoaderFlush(final)
    PROVE  rows' = truth[head]
<1>1. \A k \in Key : rows'[k] = truth[head][k]
  BY DEF IInv, BufferMatchesHead, Working, LoaderFlush
<1>2. rows' \in Rows /\ truth[head] \in Rows
  BY LoaderFlushType DEF IInv, TypeOK
<1> QED
  BY <1>1, <1>2 DEF Rows

\* A flush keeps the invariant: rows, history and cursor move together to
\* the current block.
LEMMA FlushCommitIInv ==
    ASSUME IInv, TypeOK', FlushCommit
    PROVE  IInv'
<1>0. /\ head \in Height /\ lib \in Height /\ StoredBlock \in Height
      /\ StoredBlock' = head /\ StoredBlock < head
  BY StoredBlockType, ConstantsAssumption
     DEF IInv, TypeOK, FlushCommit, LoaderFlush, UpdateCursor, StoredBlock, NoCursor,
         Height,
         CursorBehindHead, InBlock
<1>1. /\ head' = head /\ lib' = lib /\ truth' = truth /\ entries' = NoEntries
      /\ phase = "flush" /\ phase' = "ready"
  BY DEF FlushCommit, streamVars, LoaderFlush, Reset
<1>2. rows' = truth[head]
  BY <1>0, FlushStoresHead DEF FlushCommit, Working
<1>3. CursorBehindHead' /\ RowsMatchCursor' /\ RevertInv'
  BY <1>0, <1>1, <1>2, ConstantsAssumption
     DEF CursorBehindHead, RowsMatchCursor, RevertInv, InBlock, Height
<1>4. BufferMatchesHead' /\ UpdatedRowsExist'
  BY <1>1, <1>2 DEF BufferMatchesHead, UpdatedRowsExist, NoEntries, Execute
<1>5. BufferIsOneBlock'
  BY <1>0, <1>1, <1>2, ConstantsAssumption DEF BufferIsOneBlock, InBlock, Height
<1>6. HistoryInv'
  <2> SUFFICES ASSUME HandleReorgs PROVE HistoryInv'
    BY DEF HistoryInv
  <2> DEFINE New == UNION {SaveHistory(k, entries[k], rows[k]) : k \in Key}
  <2>1. history' = {r \in history \cup New : r.block > lib}
    BY DEF FlushCommit, LoaderFlush, PruneReversibleSegment
  <2>2. \A r \in history : r.block \in Height /\ r.block <= StoredBlock /\ r.key \in Key
    BY <1>1 DEF IInv, HistoryInv, TypeOK, HistoryRow
  <2>3. \A h \in Height : StoredBlock <= h /\ h < head => truth[h] = rows
    BY <1>1 DEF IInv, BufferIsOneBlock, InBlock
  <2>4. \A k \in Key : entries[k] # None => entries[k].rev = ReversibleBlockNum
    BY <1>1 DEF IInv, BufferIsOneBlock, InBlock
  <2>5. \A k \in Key : /\ entries[k] \in Operation \cup {None}
                       /\ rows[k] \in Data \cup {Absent}
                       /\ Executable(entries[k], rows[k])
                       /\ Execute(entries[k], rows[k]) = truth[head][k]
    BY <1>1 DEF IInv, TypeOK, Rows, FlushCommit, LoaderFlush, FlushExecutable,
                BufferMatchesHead
  <2>6. ASSUME NEW r \in New, r.block > lib
        PROVE  /\ r.block = head /\ r.key \in Key /\ head > lib
               /\ r.prev = rows[r.key]
               /\ r.op = "I" <=> r.prev = Absent
               /\ r.op = "U" => truth[head][r.key] # Absent
               /\ r.op = "D" => truth[head][r.key] = Absent
               /\ \A q \in New : q.key = r.key => q = r
    <3>1. PICK k \in Key : r \in SaveHistory(k, entries[k], rows[k])
      OBVIOUS
    <3>2. /\ entries[k] # None /\ r.block = entries[k].rev /\ r.key = k
          /\ r.prev = rows[k]
          /\ r.op = "I" <=> r.prev = Absent
          /\ r.op = "U" => Execute(entries[k], rows[k]) # Absent
          /\ r.op = "D" => Execute(entries[k], rows[k]) = Absent
          /\ \A q \in SaveHistory(k, entries[k], rows[k]) : q = r
      BY <2>5, <3>1, SavedRow
    <3>3. r.block = head /\ head > lib
      BY <1>0, <2>4, <2>6, <3>2 DEF ReversibleBlockNum, NotReversible, Height
    <3>4. ASSUME NEW q \in New, q.key = r.key PROVE q = r
      <4>1. PICK j \in Key : q \in SaveHistory(j, entries[j], rows[j])
        OBVIOUS
      <4>2. q.key = j
        BY <2>5, <4>1, SavedRow
      <4> QED
        BY <3>2, <3>4, <4>1, <4>2
    <3> QED
      BY <2>5, <3>2, <3>3, <3>4
  <2> HIDE DEF New
  <2>7. truth[head - 1] = rows /\ head - 1 \in Height
    BY <1>0, <2>3, ConstantsAssumption DEF Height
  <2>8. (phase # "done" => \A r \in history : r.block <= StoredBlock)'
    BY <1>0, <2>1, <2>2, <2>6 DEF Height
  <2>9. HistoryRestores'
    <3> SUFFICES ASSUME NEW r \in history', r.block > lib
                 PROVE  /\ r.prev = truth[r.block - 1][r.key]
                        /\ r.op = "I" <=> r.prev = Absent
                        /\ r.op = "U" => truth[r.block][r.key] # Absent
                        /\ r.op = "D" => truth[r.block][r.key] = Absent
      BY <1>1 DEF HistoryRestores
    <3>1. CASE r \in history
      BY <1>1, <3>1 DEF IInv, HistoryInv, HistoryRestores
    <3>2. CASE r \in New
      BY <2>6, <2>7, <3>2
    <3> QED
      BY <2>1, <3>1, <3>2
  <2>10. HistoryComplete'
    <3> SUFFICES ASSUME NEW h \in Height, NEW g \in Height,
                        lib <= h, h < g, g <= head, NEW k \in Key,
                        \A r \in history' : r.key = k => ~(h < r.block /\ r.block <= g)
                 PROVE  truth[h][k] = truth[g][k]
      BY <1>0, <1>1 DEF HistoryComplete
    <3>1. \A r \in history : r.key = k => ~(h < r.block /\ r.block <= g)
      BY <1>0, <2>1, <2>2 DEF Height
    <3>2. ASSUME h < StoredBlock, StoredBlock <= g PROVE truth[h][k] = rows[k]
      <4>1. truth[h][k] = truth[StoredBlock][k]
        <5>1. \A r \in history : r.key = k => ~(h < r.block /\ r.block <= StoredBlock)
          BY <1>0, <2>2, <3>1, <3>2 DEF Height
        <5>2. lib <= h /\ h < StoredBlock /\ StoredBlock <= StoredBlock
          BY <1>0, <3>2 DEF Height
        <5> QED
          BY <1>0, <1>1, <5>1, <5>2 DEF IInv, HistoryInv, HistoryComplete
      <4> QED
        BY <4>1 DEF IInv, RowsMatchCursor
    <3>3. CASE g <= StoredBlock
      BY <1>1, <3>1, <3>3 DEF IInv, HistoryInv, HistoryComplete
    <3>4. CASE StoredBlock < g
      <4>1. truth[h][k] = rows[k]
        BY <1>0, <2>3, <3>2, <3>4 DEF Height
      <4>2. CASE g < head
        BY <1>0, <2>3, <3>4, <4>1, <4>2 DEF Height
      <4>3. CASE g = head
        <5>1. entries[k] # None => entries[k].rev = head /\ head # NotReversible
          BY <1>0, <2>4, <4>3 DEF ReversibleBlockNum, NotReversible, Height
        <5>2. SaveHistory(k, entries[k], rows[k]) = {}
          <6> SUFFICES ASSUME NEW r \in SaveHistory(k, entries[k], rows[k]) PROVE FALSE
            OBVIOUS
          <6>1. r.block = head /\ r.key = k
            BY <2>5, <5>1, SavedRow
          <6>2. r \in history'
            BY <1>0, <2>1, <4>3, <6>1 DEF New, Height
          <6> QED
            BY <1>0, <4>3, <6>1, <6>2 DEF Height
        <5>3. Execute(entries[k], rows[k]) = rows[k]
          BY <2>5, <5>1, <5>2, UnsavedRow
        <5> QED
          BY <2>5, <4>1, <4>3, <5>3
      <4> QED
        BY <1>0, <4>2, <4>3 DEF Height
    <3> QED
      BY <1>0, <3>3, <3>4 DEF Height
  <2>11. OneHistoryRowPerKeyAndBlock'
    <3> SUFFICES ASSUME NEW r \in history', NEW q \in history',
                        r.key = q.key, r.block = q.block
                 PROVE  r = q
      BY DEF OneHistoryRowPerKeyAndBlock
    <3>2. CASE r \in history /\ q \in history
      BY <3>2 DEF IInv, HistoryInv, OneHistoryRowPerKeyAndBlock
    <3>3. CASE r \in New /\ q \in New
      BY <2>1, <2>6, <3>3
    <3>4. CASE r \in New /\ q \in history
      BY <1>0, <2>1, <2>2, <2>6, <3>4 DEF Height
    <3>5. CASE r \in history /\ q \in New
      BY <1>0, <2>1, <2>2, <2>6, <3>5 DEF Height
    <3> QED
      BY <2>1, <3>2, <3>3, <3>4, <3>5
  <2> QED
    BY <2>8, <2>9, <2>10, <2>11 DEF HistoryInv
<1> QED
  BY <1>3, <1>4, <1>5, <1>6 DEF IInv

\* The last flush of the range; the history is not needed any more.
LEMMA CompletionCommitIInv ==
    ASSUME IInv, TypeOK', CompletionCommit
    PROVE  IInv'
<1>0. head \in Height /\ StoredBlock' = head
  BY ConstantsAssumption
     DEF IInv, TypeOK, CompletionCommit, LoaderFlush, UpdateCursor, StoredBlock,
         NoCursor, Height
<1>1. /\ head' = head /\ truth' = truth /\ entries' = NoEntries
      /\ phase = "complete" /\ phase' = "done"
  BY DEF CompletionCommit, streamVars, LoaderFlush, Reset
<1>2. rows' = truth[head]
  BY <1>0, FlushStoresHead DEF CompletionCommit, Working
<1>3. CursorBehindHead' /\ RowsMatchCursor' /\ RevertInv'
  BY <1>0, <1>1, <1>2 DEF CursorBehindHead, RowsMatchCursor, RevertInv, InBlock, Height
<1>4. BufferMatchesHead' /\ UpdatedRowsExist' /\ BufferIsOneBlock'
  BY <1>1 DEF BufferMatchesHead, UpdatedRowsExist, BufferIsOneBlock, Working, InBlock
<1>5. HistoryInv'
  <2> SUFFICES ASSUME HandleReorgs PROVE OneHistoryRowPerKeyAndBlock'
    BY <1>1 DEF HistoryInv, HistoryRestores, HistoryComplete
  <2>1. \A k \in Key : SaveHistory(k, entries[k], rows[k]) = {}
    BY <1>1 DEF IInv, BufferIsOneBlock, InBlock, NoEntries, SaveHistory
  <2>2. history' \subseteq history
    BY <2>1 DEF CompletionCommit, LoaderFlush, PruneReversibleSegment
  <2> QED
    BY <2>2 DEF IInv, HistoryInv, OneHistoryRowPerKeyAndBlock
<1> QED
  BY <1>3, <1>4, <1>5 DEF IInv

-----------------------------------------------------------------------------
(* A reorg.                                                                *)

\* An undo signal keeps the invariant: the history read covers every change
\* above the last valid block.
LEMMA UndoSignalIInv ==
    ASSUME IInv, TypeOK', NEW n \in Height, UndoSignal(n)
    PROVE  IInv'
<1>0. /\ StoredBlock' = StoredBlock /\ StoredBlock \in Height
      /\ head \in Height /\ lib \in Height
  BY StoredBlockType DEF IInv, UndoSignal, dbVars, StoredBlock, TypeOK
<1>1. /\ head' = head /\ lib' = lib /\ truth' = truth
      /\ rows' = rows /\ history' = history /\ entries' = entries
      /\ phase = "ready" /\ phase' = "revert" /\ HandleReorgs
      /\ undoTo' = n /\ pending' = ToRevert(n) /\ txRows' = rows
      /\ lib <= n /\ n < head
  BY DEF UndoSignal, dbVars, streamVars
<1>2. HistoryInv'
  BY <1>0, <1>1, HistoryKept, ConstantsAssumption DEF IInv, TypeOK, Height
<1>3. CursorBehindHead' /\ RowsMatchCursor'
  BY <1>0, <1>1 DEF IInv, CursorBehindHead, RowsMatchCursor, InBlock
<1>4. BufferMatchesHead' /\ UpdatedRowsExist'
  BY <1>1 DEF BufferMatchesHead, UpdatedRowsExist, Working
<1>5. \A h \in Height : StoredBlock <= h /\ h <= head => truth[h] = rows
  BY <1>1 DEF IInv, BufferIsOneBlock
<1>6. BufferIsOneBlock'
  BY <1>0, <1>1, <1>5 DEF IInv, BufferIsOneBlock, InBlock
<1>7. RevertInv'
  <2>1. ToRevert(undoTo)' = ToRevert(n)
    BY <1>1 DEF ToRevert
  <2>2. ASSUME NEW k \in Key, NEW h \in Height, n <= h, h <= head,
               \A r \in ToRevert(n) : r.key = k => r.block <= h
        PROVE  rows[k] = truth[h][k]
    <3>1. CASE StoredBlock <= h
      BY <1>5, <2>2, <3>1
    <3>2. CASE h < StoredBlock
      <4>1. \A r \in history : r.block \in Height
        BY DEF IInv, TypeOK, HistoryRow
      <4>2. \A r \in history : r.key = k => ~(h < r.block /\ r.block <= StoredBlock)
        BY <2>2, <4>1 DEF ToRevert, Height
      <4>3. lib <= h /\ StoredBlock <= StoredBlock
        BY <1>0, <1>1, <2>2 DEF Height
      <4>4. truth[h][k] = truth[StoredBlock][k]
        BY <1>0, <1>1, <3>2, <4>2, <4>3 DEF IInv, HistoryInv, HistoryComplete
      <4> QED
        BY <4>4 DEF IInv, RowsMatchCursor
    <3> QED
      BY <1>0, <3>1, <3>2 DEF Height
  <2> QED
    BY <1>0, <1>1, <2>1, <2>2 DEF RevertInv
<1> QED
  BY <1>2, <1>3, <1>4, <1>6, <1>7 DEF IInv

\* The next history row finds the row as it was after the row's block, so its
\* statement applies and leaves the row as it was before that block.
LEMMA RevertRowRestores ==
    ASSUME IInv, phase = "revert", NEW r \in NextToRevert
    PROVE  /\ r \in history /\ r.key \in Key /\ r.block \in Height
           /\ undoTo < r.block /\ r.block <= StoredBlock /\ lib < r.block
           /\ txRows[r.key] = truth[r.block][r.key]
           /\ r.op = "D" => txRows[r.key] = Absent
           /\ r.op = "U" => txRows[r.key] # Absent
           /\ RevertOp(r, txRows[r.key]) = truth[r.block - 1][r.key]
<1>0. /\ HandleReorgs /\ StoredBlock \in Height /\ head \in Height /\ lib \in Height
      /\ undoTo \in Height /\ StoredBlock <= head
  BY StoredBlockType DEF IInv, CursorBehindHead, TypeOK
<1>1. r \in pending /\ \A q \in pending : q.block <= r.block
  BY DEF NextToRevert
<1>2. r \in history /\ r \in ToRevert(undoTo) /\ undoTo < r.block
  BY <1>1 DEF IInv, RevertInv, ToRevert
<1>3. r \in HistoryRow /\ r.key \in Key /\ r.block \in Height
  BY <1>2 DEF IInv, TypeOK, HistoryRow
<1>4. r.block <= StoredBlock /\ lib < r.block
  BY <1>0, <1>2, <1>3 DEF IInv, HistoryInv, RevertInv, Height
<1>5. ASSUME NEW s \in ToRevert(undoTo), s.key = r.key
      PROVE  s \in pending <=> s.block <= r.block
  <2>1. s \in history /\ s.block \in Height
    BY DEF IInv, TypeOK, HistoryRow, ToRevert
  <2>2. ASSUME s \notin pending, s.block <= r.block PROVE FALSE
    <3>1. r.block <= s.block
      BY <1>1, <2>2 DEF IInv, RevertInv
    <3>2. s.block = r.block
      BY <1>3, <2>1, <2>2, <3>1 DEF Height
    <3>3. s = r
      BY <1>0, <1>2, <1>5, <2>1, <3>2 DEF IInv, HistoryInv, OneHistoryRowPerKeyAndBlock
    <3> QED
      BY <1>1, <2>2, <3>3
  <2> QED
    BY <1>1, <2>2
<1>6. undoTo <= r.block /\ r.block <= head
  BY <1>0, <1>2, <1>3, <1>4 DEF Height
<1>7. txRows[r.key] = truth[r.block][r.key]
  BY <1>3, <1>5, <1>6 DEF IInv, RevertInv
<1>8. /\ r.prev = truth[r.block - 1][r.key]
      /\ r.op = "I" <=> r.prev = Absent
      /\ r.op = "U" => truth[r.block][r.key] # Absent
      /\ r.op = "D" => truth[r.block][r.key] = Absent
  BY <1>0, <1>2, <1>4 DEF IInv, HistoryInv, HistoryRestores
<1>9. RevertOp(r, txRows[r.key]) = r.prev
  BY <1>3, <1>7, <1>8, RevertOpCases DEF HistoryRow
<1> QED
  BY <1>2, <1>3, <1>4, <1>7, <1>8, <1>9

\* Reverting one history row keeps the invariant: its row goes back to what
\* it was before the block of the history row.
LEMMA RevertRowIInv ==
    ASSUME IInv, TypeOK', NEW r \in pending, RevertRow(r)
    PROVE  IInv'
<1>0. /\ StoredBlock' = StoredBlock /\ StoredBlock \in Height
      /\ head \in Height /\ lib \in Height /\ undoTo \in Height
  BY StoredBlockType DEF IInv, RevertRow, dbVars, StoredBlock, TypeOK
<1>1. /\ head' = head /\ lib' = lib /\ truth' = truth
      /\ rows' = rows /\ history' = history /\ entries' = entries
      /\ phase = "revert" /\ phase' = "revert" /\ undoTo' = undoTo
      /\ pending' = pending \ {r} /\ r \in NextToRevert
  BY DEF RevertRow, dbVars, streamVars
<1>2. /\ r \in history /\ r.key \in Key /\ r.block \in Height
      /\ undoTo < r.block /\ r.block <= StoredBlock /\ lib < r.block
      /\ RevertOp(r, txRows[r.key]) = truth[r.block - 1][r.key]
  BY <1>1, RevertRowRestores
<1>3. /\ txRows'[r.key] = truth[r.block - 1][r.key]
      /\ \A k \in Key : k # r.key => txRows'[k] = txRows[k]
  BY <1>2 DEF IInv, RevertRow, TypeOK, Rows
<1>4. HistoryInv'
  BY <1>0, <1>1, HistoryKept, ConstantsAssumption DEF IInv, TypeOK, Height
<1>5. CursorBehindHead' /\ RowsMatchCursor'
  BY <1>0, <1>1 DEF IInv, CursorBehindHead, RowsMatchCursor, InBlock
<1>6. BufferMatchesHead' /\ UpdatedRowsExist'
  BY <1>1 DEF BufferMatchesHead, UpdatedRowsExist, Working
<1>7. BufferIsOneBlock'
  BY <1>0, <1>1 DEF IInv, BufferIsOneBlock, InBlock
<1>8. RevertInv'
  <2>1. ToRevert(undoTo)' = ToRevert(undoTo)
    BY <1>1 DEF ToRevert
  <2>2. /\ lib <= undoTo /\ undoTo < head
        /\ pending \subseteq ToRevert(undoTo)
        /\ \A s \in ToRevert(undoTo) \ pending : \A q \in pending : q.block <= s.block
        /\ \A q \in pending : q.block <= r.block
    BY <1>1 DEF IInv, RevertInv, NextToRevert
  <2>3. \A s \in ToRevert(undoTo) : s \in history /\ s.block \in Height /\ undoTo < s.block
    BY DEF IInv, TypeOK, HistoryRow, ToRevert
  <2>4. \A s \in ToRevert(undoTo) \ pending' : \A q \in pending' : q.block <= s.block
    BY <1>1, <2>2
  <2>5. ASSUME NEW k \in Key, NEW h \in Height, undoTo <= h, h <= head,
               \A s \in ToRevert(undoTo) : s.key = k => (s \in pending' <=> s.block <= h)
        PROVE  txRows'[k] = truth[h][k]
    <3>1. CASE k # r.key
      <4>1. \A s \in ToRevert(undoTo) : s.key = k => (s \in pending <=> s.block <= h)
        BY <1>1, <2>5, <3>1
      <4>2. txRows[k] = truth[h][k]
        BY <1>1, <2>5, <4>1 DEF IInv, RevertInv
      <4> QED
        BY <1>3, <3>1, <4>2
    <3>2. CASE k = r.key
      <4>1. h < r.block
        BY <1>1, <1>2, <2>2, <2>5, <3>2 DEF Height
      <4>2. CASE h = r.block - 1
        BY <1>3, <3>2, <4>2
      <4>3. CASE h < r.block - 1
        <5>1. r.block - 1 \in Height /\ r.block - 1 <= StoredBlock /\ lib <= h
          BY <1>0, <1>2, <2>2, <2>5, ConstantsAssumption DEF Height
        <5>2. ASSUME NEW s \in history, s.key = k, h < s.block, s.block <= r.block - 1
              PROVE  FALSE
          <6>1. s.block \in Height
            BY DEF IInv, TypeOK, HistoryRow
          <6>2. s \in ToRevert(undoTo)
            BY <1>0, <2>5, <5>2, <6>1 DEF ToRevert, Height
          <6>3. s \notin pending' /\ s # r
            BY <1>2, <2>5, <5>2, <6>1, <6>2 DEF Height
          <6>4. r.block <= s.block
            BY <1>1, <2>2, <6>2, <6>3
          <6> QED
            BY <1>2, <5>2, <6>1, <6>4 DEF Height
        <5>3. HistoryComplete
          BY <1>1 DEF IInv, HistoryInv, CursorBehindHead
        <5>4. truth[h][k] = truth[r.block - 1][k]
          BY <1>1, <4>3, <5>1, <5>2, <5>3 DEF HistoryComplete
        <5> QED
          BY <1>3, <3>2, <5>4
      <4> QED
        BY <1>2, <4>1, <4>2, <4>3 DEF Height
    <3> QED
      BY <3>1, <3>2
  <2> QED
    BY <1>0, <1>1, <2>1, <2>2, <2>4, <2>5 DEF RevertInv
<1> QED
  BY <1>4, <1>5, <1>6, <1>7, <1>8 DEF IInv

\* A committed revert leaves the rows and the history of the last valid block.
LEMMA RevertCommitIInv ==
    ASSUME IInv, TypeOK', RevertCommit
    PROVE  IInv'
<1>0. /\ StoredBlock' = undoTo /\ StoredBlock \in Height /\ undoTo \in Height
      /\ head \in Height /\ lib \in Height
  BY StoredBlockType, ConstantsAssumption
     DEF IInv, RevertCommit, UpdateCursor, StoredBlock, TypeOK, Height, NoCursor
<1>1. /\ head' = undoTo /\ lib' = lib /\ rows' = txRows /\ entries' = entries
      /\ history' = history \ ToRevert(undoTo) /\ pending = {}
      /\ phase = "revert" /\ phase' = "ready"
  BY DEF RevertCommit, PruneReverted
<1>2. \A h \in Height : h <= undoTo => truth'[h] = truth[h]
  BY DEF RevertCommit, Truncate
<1>3. HandleReorgs /\ entries = NoEntries
      /\ (\A h \in Height : StoredBlock <= h /\ h <= head => truth[h] = rows)
      /\ lib <= undoTo /\ undoTo < head
  BY <1>1 DEF IInv, CursorBehindHead, BufferIsOneBlock, InBlock, RevertInv
<1>4. rows' = truth[undoTo]
  <2>0. \A r \in ToRevert(undoTo) : r.block \in Height /\ r.block > undoTo
    BY DEF IInv, TypeOK, HistoryRow, ToRevert
  <2>1. \A r \in ToRevert(undoTo) : ~(r.block <= undoTo)
    BY <1>0, <2>0 DEF Height
  <2>2. undoTo <= undoTo /\ undoTo <= head
    BY <1>0, <1>3 DEF Height
  <2>3. \A k \in Key : txRows[k] = truth[undoTo][k]
    BY <1>0, <1>1, <2>1, <2>2 DEF IInv, RevertInv
  <2> QED
    BY <1>0, <1>1, <2>3 DEF IInv, TypeOK, Rows
<1>5. truth'[undoTo] = truth[undoTo]
  BY <1>0, <1>2 DEF Height
<1>6. CursorBehindHead' /\ RowsMatchCursor' /\ RevertInv'
  BY <1>0, <1>1, <1>4, <1>5
     DEF CursorBehindHead, RowsMatchCursor, RevertInv, InBlock, Height
<1>7. BufferMatchesHead' /\ UpdatedRowsExist'
  BY <1>1, <1>3, <1>4, <1>5 DEF BufferMatchesHead, UpdatedRowsExist, NoEntries, Execute
<1>8. BufferIsOneBlock'
  BY <1>0, <1>1, <1>3, <1>4, <1>5 DEF BufferIsOneBlock, InBlock, Height
<1>9. HistoryInv'
  <2>1. \A r \in history : r.block \in Height /\ r.block <= StoredBlock
    BY <1>1, <1>3 DEF IInv, HistoryInv, TypeOK, HistoryRow
  <2>2. \A r \in history' : r \in history /\ r.block <= undoTo
    BY <1>0, <1>1, <2>1 DEF ToRevert, Height
  <2>3. \A r \in history : r.block <= undoTo => r \in history'
    BY <1>0, <1>1, <2>1 DEF ToRevert, Height
  <2>4. HistoryRestores'
    <3> SUFFICES ASSUME NEW r \in history', r.block > lib
                 PROVE  /\ r.prev = truth'[r.block - 1][r.key]
                        /\ r.op = "I" <=> r.prev = Absent
                        /\ r.op = "U" => truth'[r.block][r.key] # Absent
                        /\ r.op = "D" => truth'[r.block][r.key] = Absent
      BY <1>1 DEF HistoryRestores
    <3>1. r.block \in Height /\ r.block - 1 \in Height /\ r.block <= undoTo
          /\ r.block - 1 <= undoTo
      BY <1>0, <2>1, <2>2, ConstantsAssumption DEF Height
    <3>2. truth'[r.block - 1] = truth[r.block - 1] /\ truth'[r.block] = truth[r.block]
      BY <1>2, <3>1
    <3> QED
      BY <1>1, <1>3, <2>2, <3>2 DEF IInv, HistoryInv, HistoryRestores
  <2>5. HistoryComplete'
    <3> SUFFICES ASSUME NEW h \in Height, NEW g \in Height,
                        lib <= h, h < g, g <= undoTo, NEW k \in Key,
                        \A r \in history' : r.key = k => ~(h < r.block /\ r.block <= g)
                 PROVE  truth'[h][k] = truth'[g][k]
      BY <1>0, <1>1 DEF HistoryComplete
    <3>1. \A r \in history : r.key = k => ~(h < r.block /\ r.block <= g)
      BY <1>0, <2>1, <2>3 DEF Height
    <3>2. truth'[h] = truth[h] /\ truth'[g] = truth[g]
      BY <1>0, <1>2 DEF Height
    <3>3. HistoryComplete
      BY <1>3 DEF IInv, HistoryInv
    <3>4. CASE g <= StoredBlock
      BY <1>1, <3>1, <3>2, <3>3, <3>4 DEF HistoryComplete
    <3>5. CASE StoredBlock < g
      <4>1. truth[g] = rows
        BY <1>0, <1>3, <3>5 DEF Height
      <4>2. CASE StoredBlock <= h
        BY <1>0, <1>3, <3>2, <4>1, <4>2 DEF Height
      <4>3. CASE h < StoredBlock
        <5>1. \A r \in history : r.key = k => ~(h < r.block /\ r.block <= StoredBlock)
          BY <1>0, <2>1, <3>1, <3>5 DEF Height
        <5>2. StoredBlock <= StoredBlock
          BY <1>0 DEF Height
        <5>3. truth[h][k] = truth[StoredBlock][k]
          BY <1>0, <1>1, <3>3, <4>3, <5>1, <5>2 DEF HistoryComplete
        <5> QED
          BY <3>2, <4>1, <5>3 DEF IInv, RowsMatchCursor
      <4> QED
        BY <1>0, <4>2, <4>3 DEF Height
    <3> QED
      BY <1>0, <3>4, <3>5 DEF Height
  <2>6. OneHistoryRowPerKeyAndBlock'
    BY <1>3, <2>2 DEF IInv, HistoryInv, OneHistoryRowPerKeyAndBlock
  <2> QED
    BY <1>0, <2>2, <2>4, <2>5, <2>6 DEF HistoryInv
<1> QED
  BY <1>6, <1>7, <1>8, <1>9 DEF IInv

-----------------------------------------------------------------------------
(* The theorems.                                                           *)

\* Every step keeps the inductive invariant, in a safe configuration.
LEMMA NextIInv ==
    ASSUME SafeConfig, IInv, [Next]_vars
    PROVE  IInv'
<1>0. TypeOK'
  BY TypeStep DEF IInv
<1>1. CASE UNCHANGED vars
  BY <1>1
     DEF vars, IInv, TypeOK, CursorBehindHead, RowsMatchCursor, BufferMatchesHead,
         UpdatedRowsExist, BufferIsOneBlock, HistoryInv, RevertInv, HistoryRestores,
         HistoryComplete, OneHistoryRowPerKeyAndBlock, StoredBlock, Working, InBlock,
         ReversibleBlockNum, ToRevert
<1>2. CASE Run
  BY <1>0, <1>2, RunIInv
<1>3. ASSUME NEW final \in Height, ReceiveBlock(final) PROVE IInv'
  BY <1>0, <1>3, ReceiveBlockIInv
<1>4. ASSUME NEW c \in Changes, ApplyChange(c) PROVE IInv'
  BY <1>0, <1>4, ApplyChangeIInv
<1>5. ASSUME NEW c \in Changes, RejectChange(c) PROVE IInv'
  BY <1>0, <1>5, GoDownIInv DEF RejectChange
<1>6. ASSUME NEW isLive \in BOOLEAN, NEW slow \in BOOLEAN, EndBlock(isLive, slow)
      PROVE IInv'
  BY <1>0, <1>6, EndBlockIInv
<1>7. CASE RangeCompletion
  BY <1>0, <1>7, QuietIInv DEF RangeCompletion
<1>8. CASE FlushCommit
  BY <1>0, <1>8, FlushCommitIInv
<1>9. CASE CompletionCommit
  BY <1>0, <1>9, CompletionCommitIInv
<1>10. CASE FlushFailure
  <2>1. CASE MayRetry
    BY <1>0, <1>10, <2>1, QuietIInv DEF FlushFailure
  <2>2. CASE ~MayRetry
    BY <1>0, <1>10, <2>2, GoDownIInv DEF FlushFailure
  <2> QED
    BY <2>1, <2>2
<1>11. ASSUME NEW n \in Height, UndoSignal(n) PROVE IInv'
  BY <1>0, <1>11, UndoSignalIInv
<1>12. ASSUME NEW r \in pending, RevertRow(r) PROVE IInv'
  BY <1>0, <1>12, RevertRowIInv
<1>13. CASE RevertCommit
  BY <1>0, <1>13, RevertCommitIInv
<1>14. CASE RevertFailure
  BY <1>0, <1>14, GoDownIInv DEF RevertFailure
<1>15. CASE Crash
  BY <1>0, <1>15, GoDownIInv DEF Crash
<1>16. CASE Terminated
  BY <1>1, <1>16 DEF Terminated
<1> QED
  BY <1>1, <1>2, <1>3, <1>4, <1>5, <1>6, <1>7, <1>8, <1>9, <1>10, <1>11, <1>12, <1>13,
     <1>14, <1>15, <1>16 DEF Next

\* The invariant above is inductive, for every configuration in which no
\* buffered change survives to an undo signal.
THEOREM Invariance == ASSUME SafeConfig PROVE Spec => []IInv
<1>1. Init => IInv
  BY InitIInv
<1>2. IInv /\ [Next]_vars => IInv'
  BY NextIInv
<1> QED
  BY <1>1, <1>2, PTL DEF Spec

\* Exactly once: after any crashes, retries and reorgs the tables are the
\* changes of the blocks up to the stored cursor (Loader.Flush and Revert).
THEOREM ExactlyOnce == ASSUME SafeConfig PROVE Spec => []RowsMatchCursor
<1>1. IInv => RowsMatchCursor
  BY DEF IInv
<1> QED
  BY <1>1, Invariance, PTL

\* Rows plus buffer are the delivered chain: no merge in the Loader loses or
\* invents a change.
THEOREM BufferIsFaithful == ASSUME SafeConfig PROVE Spec => []BufferMatchesHead
<1>1. IInv => BufferMatchesHead
  BY DEF IInv
<1> QED
  BY <1>1, Invariance, PTL

\* Reverting the history never meets a row in the wrong state (revertOp).
THEOREM RevertsApply == ASSUME SafeConfig PROVE Spec => []RevertApplies
<1>1. IInv => RevertApplies
  BY RevertRowRestores DEF RevertApplies
<1> QED
  BY <1>1, Invariance, PTL

\* The history table holds what a revert of any reversible block needs, once
\* per row and block (saveInsert, saveUpsert, saveRow, pruneReversibleSegment).
THEOREM HistorySuffices ==
    ASSUME SafeConfig, HandleReorgs
    PROVE  Spec => []HistorySupportsUndo
<1>1. IInv => HistoryRestores /\ HistoryComplete /\ OneHistoryRowPerKeyAndBlock
  BY DEF IInv, HistoryInv
<1>2. IInv => RevertApplies
  BY RevertRowRestores DEF RevertApplies
<1>3. IInv => HistorySupportsUndo
  BY <1>1, <1>2 DEF HistorySupportsUndo
<1> QED
  BY <1>3, Invariance, PTL

-----------------------------------------------------------------------------
(* The database refuses no flush.                                          *)

\* No row is both updated and upserted: an update that becomes an upsert in
\* the buffer names no primary key.
NoUpsertOfUpdate ==
    \A c, d \in Changes : c.key = d.key /\ c.op = "UPDATE" => d.op # "UPSERT"

\* The changes name columns the tables have, and an update at least one.
KnownColumns ==
    \A c \in Changes : /\ DOMAIN c.data \cap Unknown = {}
                       /\ c.op = "UPDATE" => DOMAIN c.data # {}

\* The row accepts the buffered operation, and an update is buffered only for
\* a row that is updated.
Acceptable(k) ==
    /\ Executable(entries[k], rows[k])
    /\ entries[k] # None /\ entries[k].type = "UPDATE" =>
         \E c \in Changes : c.key = k /\ c.op = "UPDATE"

\* Merging adds columns and drops none.
LEMMA MergeColumns ==
    \A base, data : DOMAIN MergeData(base, data) = DOMAIN base \cup DOMAIN data
  BY DEF MergeData

\* Insert, Upsert, Update and Delete make of an operation the row accepts and
\* a legal change another one it accepts.
LEMMA BufferStaysExecutable ==
    ASSUME NEW e \in Operation \cup {None}, NEW c \in TableChange, NEW rev \in Height,
           NEW row \in Data \cup {Absent},
           Buffer(e, c, rev) # Rejected, Executable(e, row),
           c.op = "INSERT" => Execute(e, row) = Absent,
           DOMAIN c.data \cap Unknown = {},
           c.op = "UPDATE" => DOMAIN c.data # {},
           e # None /\ e.type = "UPDATE" => c.op # "UPSERT"
    PROVE  LET b == Buffer(e, c, rev)
           IN  /\ Executable(b, row)
               /\ b # None /\ b.type = "UPDATE" =>
                    c.op = "UPDATE" \/ (e # None /\ e.type = "UPDATE")
<1> DEFINE b == Buffer(e, c, rev)
<1>1. CASE c.op = "INSERT"
  <2>1. e = None /\ b = NewOperation("INSERT", c.data, TRUE, rev)
    BY <1>1 DEF Buffer, Insert
  <2>2. row = Absent
    BY <1>1, <2>1 DEF Execute
  <2>3. QED
    BY <2>1, <2>2 DEF NewOperation, Executable
<1>2. CASE c.op = "UPSERT"
  <2>1. CASE e = None
    <3>1. b = NewOperation("UPSERT", c.data, TRUE, rev)
      BY <1>2, <2>1 DEF Buffer, Upsert
    <3>2. QED
      BY <3>1 DEF NewOperation, Executable
  <2>2. CASE e # None
    <3>1. /\ e \in Operation /\ e.type = "UPSERT"
          /\ b = [e EXCEPT !.type = "UPSERT", !.data = MergeData(e.data, c.data)]
      BY <1>2, <2>2 DEF Buffer, Upsert
    <3>2. /\ b.type = "UPSERT" /\ b.pk = e.pk
          /\ DOMAIN b.data = DOMAIN e.data \cup DOMAIN c.data
      BY <3>1, MergeColumns DEF Operation
    <3>3. DOMAIN e.data \cap Unknown = {} /\ e.pk
      BY <2>2, <3>1 DEF Executable
    <3>4. Executable(b, row)
      BY <3>2, <3>3 DEF Executable
    <3>5. QED
      BY <3>2, <3>4
  <2>3. QED
    BY <2>1, <2>2
<1>3. CASE c.op = "UPDATE"
  <2>1. CASE e = None
    <3>1. b = NewOperation("UPDATE", c.data, FALSE, rev)
      BY <1>3, <2>1 DEF Buffer, Update
    <3>2. QED
      BY <1>3, <3>1 DEF NewOperation, Executable
  <2>2. CASE e # None
    <3>1. e \in Operation /\ b = [e EXCEPT !.data = MergeData(e.data, c.data)]
      BY <1>3, <2>2 DEF Buffer, Update
    <3>2. /\ b.type = e.type /\ b.pk = e.pk
          /\ DOMAIN b.data = DOMAIN e.data \cup DOMAIN c.data
      BY <3>1, MergeColumns DEF Operation
    <3>3. /\ DOMAIN e.data \cap Unknown = {}
          /\ e.type = "INSERT" => row = Absent
          /\ e.type = "UPSERT" => e.pk
      BY <2>2 DEF Executable
    <3>4. Executable(b, row)
      BY <1>3, <3>2, <3>3 DEF Executable
    <3>5. QED
      BY <1>3, <3>4
  <2>3. QED
    BY <2>1, <2>2
<1>4. CASE c.op = "DELETE"
  <2>1. b = NewOperation("DELETE", NoData, FALSE, rev)
    BY <1>4 DEF Buffer, Delete
  <2>2. DOMAIN NoData = {}
    BY DEF NoData
  <2>3. QED
    BY <2>1, <2>2 DEF NewOperation, Executable
<1>5. QED
  BY <1>1, <1>2, <1>3, <1>4 DEF TableChange, OpTypes

\* A change keeps what is buffered acceptable, if the buffer is the delivered
\* chain.
LEMMA ApplyChangeAcceptable ==
    ASSUME NoUpsertOfUpdate, KnownColumns, TypeOK, BufferMatchesHead, NEW c \in Changes,
           ApplyChange(c), \A k \in Key : Acceptable(k)
    PROVE  \A k \in Key : Acceptable(k)'
<1>1. /\ phase = "apply" /\ rows' = rows /\ Legal(c)
      /\ Buffer(entries[c.key], c, ReversibleBlockNum) # Rejected
      /\ entries' = [entries EXCEPT ![c.key] = Buffer(entries[c.key], c, ReversibleBlockNum)]
  BY DEF ApplyChange, dbVars
<1>2. c \in TableChange /\ c.key \in Key /\ ReversibleBlockNum \in Height
  BY ConstantsAssumption DEF TableChange, TypeOK, ReversibleBlockNum, NotReversible, Height
<1>3. ASSUME NEW k \in Key, k # c.key PROVE Acceptable(k)'
  <2>1. entries'[k] = entries[k]
    BY <1>1, <1>2, <1>3 DEF TypeOK
  <2>2. Acceptable(k)
    OBVIOUS
  <2>3. QED
    BY <1>1, <2>1, <2>2 DEF Acceptable
<1>4. Acceptable(c.key)'
  <2>1. PICK k \in Key : k = c.key
    BY <1>2
  <2>2. entries[k] \in Operation \cup {None} /\ rows[k] \in Data \cup {Absent}
    BY DEF TypeOK, Rows
  <2>3. Acceptable(k)
    OBVIOUS
  <2>4. Execute(entries[k], rows[k]) = truth[head][k]
    BY <1>1 DEF BufferMatchesHead
  <2>5. c.op = "INSERT" => Execute(entries[k], rows[k]) = Absent
    BY <1>1, <2>1, <2>4 DEF Legal
  <2>6. entries[k] # None /\ entries[k].type = "UPDATE" => c.op # "UPSERT"
    BY <2>1, <2>3 DEF Acceptable, NoUpsertOfUpdate
  <2>7. PICK e \in Operation \cup {None}, row \in Data \cup {Absent}, rev \in Height :
            e = entries[k] /\ row = rows[k] /\ rev = ReversibleBlockNum
    BY <1>2, <2>2
  <2>8. entries'[k] = Buffer(e, c, rev)
    BY <1>1, <2>1, <2>7 DEF TypeOK
  <2>9. /\ Buffer(e, c, rev) # Rejected /\ Executable(e, row)
        /\ c.op = "INSERT" => Execute(e, row) = Absent
        /\ e # None /\ e.type = "UPDATE" => c.op # "UPSERT"
    BY <1>1, <2>1, <2>3, <2>5, <2>6, <2>7 DEF Acceptable
  <2>10. /\ Executable(Buffer(e, c, rev), row)
         /\ Buffer(e, c, rev) # None /\ Buffer(e, c, rev).type = "UPDATE" =>
              c.op = "UPDATE" \/ (e # None /\ e.type = "UPDATE")
    <3>1. DOMAIN c.data \cap Unknown = {} /\ (c.op = "UPDATE" => DOMAIN c.data # {})
      BY DEF KnownColumns
    <3> QED
      BY <1>2, <2>9, <3>1, BufferStaysExecutable
  <2>11. Executable(entries'[k], rows'[k])
    BY <1>1, <2>7, <2>8, <2>10
  <2>12. ASSUME entries'[k] # None /\ entries'[k].type = "UPDATE"
         PROVE  \E d \in Changes : d.key = k /\ d.op = "UPDATE"
    BY <2>1, <2>3, <2>7, <2>8, <2>10, <2>12 DEF Acceptable
  <2>13. QED
    BY <2>1, <2>11, <2>12 DEF Acceptable
<1>5. QED
  BY <1>3, <1>4

\* Every step keeps what is buffered acceptable.
LEMMA AcceptableNext ==
    ASSUME SafeConfig, NoUpsertOfUpdate, KnownColumns, IInv,
           Working => \A k \in Key : Acceptable(k), [Next]_vars, Working'
    PROVE  \A k \in Key : Acceptable(k)'
<1>1. ASSUME UNCHANGED <<entries, rows>>, Working PROVE \A k \in Key : Acceptable(k)'
  BY <1>1 DEF Acceptable
<1>2. ASSUME entries' = NoEntries PROVE \A k \in Key : Acceptable(k)'
  BY <1>2 DEF NoEntries, Acceptable, Executable
<1>3. CASE UNCHANGED vars
  BY <1>1, <1>3 DEF vars, Working
<1>4. CASE Run
  BY <1>2, <1>4 DEF Run, IInv, CursorBehindHead
<1>5. ASSUME NEW final \in Height, ReceiveBlock(final) PROVE \A k \in Key : Acceptable(k)'
  BY <1>1, <1>5 DEF ReceiveBlock, Working, dbVars
<1>6. ASSUME NEW c \in Changes, ApplyChange(c) PROVE \A k \in Key : Acceptable(k)'
  <2>1. Working
    BY <1>6 DEF ApplyChange, Working
  <2>2. QED
    BY <1>6, <2>1, ApplyChangeAcceptable DEF IInv
<1>7. ASSUME GoDown PROVE \A k \in Key : Acceptable(k)'
  BY <1>2, <1>7 DEF GoDown
<1>8. ASSUME NEW isLive \in BOOLEAN, NEW slow \in BOOLEAN, EndBlock(isLive, slow)
      PROVE  \A k \in Key : Acceptable(k)'
  BY <1>1, <1>8 DEF EndBlock, Working, dbVars
<1>9. CASE RangeCompletion
  BY <1>1, <1>9 DEF RangeCompletion, Working, dbVars
<1>10. CASE FlushCommit
  BY <1>2, <1>10 DEF FlushCommit, LoaderFlush, Reset
<1>11. CASE CompletionCommit
  BY <1>2, <1>11 DEF CompletionCommit, LoaderFlush, Reset
<1>12. CASE FlushFailure
  BY <1>1, <1>7, <1>12 DEF FlushFailure, Working, dbVars
<1>13. ASSUME NEW n \in Height, UndoSignal(n) PROVE FALSE
  BY <1>13 DEF UndoSignal, Working
<1>14. ASSUME NEW r \in pending, RevertRow(r) PROVE FALSE
  BY <1>14 DEF RevertRow, Working
<1>15. CASE RevertCommit
  <2>1. entries' = entries /\ phase = "revert"
    BY <1>15 DEF RevertCommit
  <2>2. entries = NoEntries
    BY <2>1 DEF IInv, CursorBehindHead, BufferIsOneBlock, InBlock
  <2>3. QED
    BY <1>2, <2>1, <2>2
<1>16. QED
  BY <1>1, <1>2, <1>3, <1>4, <1>5, <1>6, <1>7, <1>8, <1>9, <1>10, <1>11, <1>12, <1>13,
     <1>14, <1>15 DEF Next, RejectChange, RevertFailure, Crash, Terminated

\* A flush of legal changes cannot be refused by the database: merging in the
\* Loader never makes an INSERT of a row that is there, an UPSERT without its
\* primary key, an UPDATE of no column or a statement on a column the table does
\* not have (prepareStatement), if no change is one of the last two and no row is
\* both updated and upserted.
THEOREM FlushesAreAccepted ==
    ASSUME SafeConfig, NoUpsertOfUpdate, KnownColumns
    PROVE  Spec => []BufferExecutable
<1> DEFINE Accepts == Working => \A k \in Key : Acceptable(k)
<1>1. Init => Accepts
  BY DEF Init, Working
<1>2. IInv /\ Accepts /\ [Next]_vars => Accepts'
  BY AcceptableNext DEF Acceptable, Working
<1>3. Accepts => BufferExecutable
  BY DEF BufferExecutable, FlushExecutable, Acceptable, Working
<1> QED
  BY <1>1, <1>2, <1>3, Invariance, PTL DEF Spec

-----------------------------------------------------------------------------
(* The sink implements the replica.                                        *)

\* A step that keeps the stored blocks delivers blocks, or is not visible.
LEMMA DeliverStep ==
    ASSUME TypeOK', StoredBlock' = StoredBlock, rows' = rows, lib' >= lib,
           StoredBlock \in Height,
           \A h \in Height : h <= StoredBlock => truth'[h] = truth[h]
    PROVE  Replica!Next
<1>1. \A h \in 0..StoredBlock : truth'[h] = truth[h]
  BY ConstantsAssumption DEF Height
<1>2. Replica!Deliver
  BY <1>1 DEF Replica!Deliver, Replica!SamePrefix, Replica!Height, TypeOK, Height
<1> QED
  BY <1>2 DEF Replica!Next

\* The end of the process only gives up blocks that are not stored.
LEMMA GoDownDelivers ==
    ASSUME IInv, TypeOK', GoDown
    PROVE  Replica!Next
<1>1. StoredBlock' = StoredBlock /\ rows' = rows /\ StoredBlock \in Height /\ lib' >= lib
  BY StoredBlockType DEF IInv, GoDown, dbVars, StoredBlock, TypeOK, Height
<1>2. \A h \in Height : h <= StoredBlock => truth'[h] = truth[h]
  BY DEF GoDown, Truncate
<1> QED
  BY <1>1, <1>2, DeliverStep

\* Every step is a step of TableReplica, or changes nothing a reader sees.
LEMMA ReplicaStep ==
    ASSUME IInv, [Next]_vars
    PROVE  [Replica!Next]_(Replica!vars)
<1>0. TypeOK'
  BY TypeStep DEF IInv
<1>1. /\ StoredBlock \in Height /\ StoredBlock <= head /\ head \in Height
      /\ lib \in Height
  BY StoredBlockType DEF IInv, TypeOK, CursorBehindHead
<1>2. ASSUME UNCHANGED <<truth, lib, rows, cursor>> PROVE [Replica!Next]_(Replica!vars)
  BY <1>2 DEF Replica!vars, StoredBlock
<1>3. CASE UNCHANGED vars
  BY <1>2, <1>3 DEF vars
<1>4. CASE Run
  <2>1. StoredBlock' = StoredBlock
    BY <1>1, <1>4, ConstantsAssumption DEF Run, StoredBlock, NoCursor, Height
  <2> QED
    BY <1>4, <2>1 DEF Run, streamVars, Replica!vars
<1>5. ASSUME NEW final \in Height, ReceiveBlock(final) PROVE [Replica!Next]_(Replica!vars)
  <2>1. StoredBlock' = StoredBlock /\ rows' = rows /\ lib' >= lib
    BY <1>5 DEF ReceiveBlock, dbVars, StoredBlock
  <2>2. \A h \in Height : h <= StoredBlock => truth'[h] = truth[h]
    BY <1>1, <1>5, ConstantsAssumption DEF IInv, TypeOK, ReceiveBlock, Height
  <2> QED
    BY <1>0, <1>1, <2>1, <2>2, DeliverStep
<1>6. ASSUME NEW c \in Changes, ApplyChange(c) PROVE [Replica!Next]_(Replica!vars)
  <2>1. StoredBlock' = StoredBlock /\ rows' = rows /\ lib' >= lib /\ StoredBlock < head
    BY <1>1, <1>6
       DEF IInv, ApplyChange, dbVars, StoredBlock, CursorBehindHead, InBlock, Height
  <2>2. \A h \in Height : h <= StoredBlock => truth'[h] = truth[h]
    BY <1>1, <1>6, <2>1, ConstantsAssumption DEF IInv, TypeOK, ApplyChange, Height
  <2> QED
    BY <1>0, <1>1, <2>1, <2>2, DeliverStep
<1>7. ASSUME NEW c \in Changes, RejectChange(c) PROVE [Replica!Next]_(Replica!vars)
  BY <1>0, <1>7, GoDownDelivers DEF RejectChange
<1>8. ASSUME NEW isLive \in BOOLEAN, NEW slow \in BOOLEAN, EndBlock(isLive, slow)
      PROVE [Replica!Next]_(Replica!vars)
  BY <1>2, <1>8 DEF EndBlock, streamVars, dbVars
<1>9. CASE RangeCompletion
  BY <1>2, <1>9 DEF RangeCompletion, streamVars, dbVars
<1>10. ASSUME Working, NEW final \in Height, LoaderFlush(final), UNCHANGED streamVars
       PROVE  [Replica!Next]_(Replica!vars)
  <2>1. rows' = truth[head]
    BY <1>10, FlushStoresHead
  <2>2. StoredBlock' = head
    BY <1>1, <1>10, ConstantsAssumption
       DEF LoaderFlush, UpdateCursor, StoredBlock, NoCursor, Height
  <2>3. CASE StoredBlock = head
    BY <1>10, <2>1, <2>2, <2>3 DEF IInv, RowsMatchCursor, Replica!vars, streamVars
  <2>4. CASE StoredBlock < head
    <3>1. Replica!Store(head)
      BY <1>10, <2>1, <2>2, <2>4 DEF Replica!Store, streamVars
    <3> QED
      BY <1>1, <3>1 DEF Replica!Next, Replica!Height, Height
  <2> QED
    BY <1>1, <2>3, <2>4 DEF Height
<1>11. CASE FlushCommit
  BY <1>1, <1>10, <1>11 DEF FlushCommit, Working
<1>12. CASE CompletionCommit
  BY <1>1, <1>10, <1>12 DEF CompletionCommit, Working
<1>13. CASE FlushFailure
  <2>1. CASE MayRetry
    BY <1>2, <1>13, <2>1 DEF FlushFailure, streamVars, dbVars
  <2>2. CASE ~MayRetry
    BY <1>0, <1>13, <2>2, GoDownDelivers DEF FlushFailure
  <2> QED
    BY <2>1, <2>2
<1>14. ASSUME NEW n \in Height, UndoSignal(n) PROVE [Replica!Next]_(Replica!vars)
  BY <1>2, <1>14 DEF UndoSignal, streamVars, dbVars
<1>15. ASSUME NEW r \in pending, RevertRow(r) PROVE [Replica!Next]_(Replica!vars)
  BY <1>2, <1>15 DEF RevertRow, streamVars, dbVars
<1>16. CASE RevertCommit
  <2>1. undoTo \in Height /\ lib <= undoTo
    BY <1>16 DEF IInv, TypeOK, RevertInv, RevertCommit
  <2>2. StoredBlock' = undoTo
    BY <1>16, <2>1, ConstantsAssumption
       DEF RevertCommit, UpdateCursor, StoredBlock, NoCursor, Height
  <2>3. IInv'
    BY <1>0, <1>16, RevertCommitIInv
  <2>4. \A h \in 0..undoTo : truth'[h] = truth[h]
    BY <1>16, <2>1, ConstantsAssumption DEF RevertCommit, Truncate, Height
  <2>5. rows' = truth[undoTo]
    BY <2>1, <2>2, <2>3, <2>4, ConstantsAssumption DEF IInv, RowsMatchCursor, Height
  <2>6. Replica!Undo(undoTo)
    BY <1>0, <1>1, <1>16, <2>1, <2>2, <2>4, <2>5
       DEF Replica!Undo, Replica!SamePrefix, Replica!Height, RevertCommit, TypeOK, Height
  <2> QED
    BY <2>1, <2>6 DEF Replica!Next, Replica!Height, Height
<1>17. CASE RevertFailure
  BY <1>0, <1>17, GoDownDelivers DEF RevertFailure
<1>18. CASE Crash
  BY <1>0, <1>18, GoDownDelivers DEF Crash
<1>19. CASE Terminated
  BY <1>3, <1>19 DEF Terminated
<1> QED
  BY <1>3, <1>4, <1>5, <1>6, <1>7, <1>8, <1>9, <1>11, <1>12, <1>13, <1>14, <1>15, <1>16,
     <1>17, <1>18, <1>19 DEF Next

\* The sink implements TableReplica: whatever the process does, a reader of
\* the database sees whole prefixes of the chain only, and stored blocks
\* disappear only when they are undone.
THEOREM Refinement == ASSUME SafeConfig PROVE Spec => ImplementsReplica
<1>1. Init => Replica!Init
  BY DEF Init, Replica!Init, Replica!Height, Height, StoredBlock, NoCursor
<1>2. IInv /\ [Next]_vars => [Replica!Next]_(Replica!vars)
  BY ReplicaStep
<1> QED
  BY <1>1, <1>2, Invariance, PTL DEF Spec, ImplementsReplica, Replica!Spec

-----------------------------------------------------------------------------
(* LostCommit: what is kept when the answer to a COMMIT is lost and the    *)
(* same operations are flushed again.  The endpoint sends no undo signals  *)
(* here (--undo-buffer-size > 0).                                          *)

\* The flush has been committed and the process does not know it
Unacknowledged == phase \in {"flush", "complete"} /\ StoredBlock = head

LostInv ==
    /\ TypeOK
    /\ StoredBlock <= head
    /\ phase = "apply" => StoredBlock < head
    /\ phase = "down" => head = StoredBlock /\ entries = NoEntries
    /\ phase # "down" => cursor # NoCursor
    /\ phase # "revert"
    /\ phase = "ready" /\ StoredBlock = head => entries = NoEntries
    /\ RowsMatchCursor
    /\ BufferMatchesHead
    /\ UpdatedRowsExist

\* As long as a flush is not stored its operations are ones the rows accept
Accepts == Working /\ ~Unacknowledged => \A k \in Key : Acceptable(k)

-----------------------------------------------------------------------------
(* Flushing twice.                                                         *)

\* A statement executed again on the row it left changes nothing more, and an
\* update still finds its row.
LEMMA ExecuteTwice ==
    ASSUME NEW o \in Operation \cup {None}, NEW row \in Data \cup {Absent},
           o # None /\ o.type = "UPDATE" => row # Absent
    PROVE  /\ Execute(o, Execute(o, row)) = Execute(o, row)
           /\ o # None /\ o.type = "UPDATE" => Execute(o, row) # Absent
<1>1. CASE o = None
  BY <1>1 DEF Execute
<1>2. CASE o # None
  <2>1. o.type \in OpTypes /\ o.data \in Data
    BY <1>2 DEF Operation
  <2>2. \A r : Execute(o, r) = ExecuteOn(o.type, o.data, r)
    BY <1>2 DEF Execute
  <2>3. Absent \notin Data
    BY ConstantsAssumption
  <2>4. MergeData(o.data, o.data) = o.data
    BY <2>1 DEF MergeData, Data
  <2>5. row # Absent => /\ MergeData(row, o.data) \in Data
                        /\ MergeData(MergeData(row, o.data), o.data) = MergeData(row, o.data)
    BY <2>1, <2>4, MergeDataType, MergeDataAssoc
  <2>6. CASE o.type = "INSERT"
    BY <2>2, <2>6, ExecuteOnCases
  <2>7. CASE o.type = "UPSERT"
    BY <2>2, <2>3, <2>4, <2>5, <2>7, <2>1, ExecuteOnCases
  <2>8. CASE o.type = "UPDATE"
    BY <1>2, <2>2, <2>3, <2>5, <2>8, ExecuteOnCases
  <2>9. CASE o.type = "DELETE"
    BY <2>2, <2>9, ExecuteOnCases
  <2>10. QED
    BY <2>1, <2>6, <2>7, <2>8, <2>9 DEF OpTypes
<1>3. QED
  BY <1>1, <1>2

-----------------------------------------------------------------------------
(* The invariant.                                                          *)

\* A commit whose answer is lost stores the block and leaves a buffer that
\* changes nothing any more, or, after the last attempt, no process.
LEMMA CommitUnacknowledgedInv ==
    ASSUME LostInv, CommitUnacknowledged
    PROVE  /\ LostInv' /\ StoredBlock' = head /\ rows' = truth[head]
           /\ Unacknowledged' \/ phase' = "down"
<1>1. /\ phase \in {"flush", "complete"} /\ cursor' = head
      /\ faults < MaxFaults /\ faults' = faults + 1
      /\ rows' = [k \in Key |-> Execute(entries[k], rows[k])]
      /\ history' = PruneReversibleSegment(
                      history \cup UNION {SaveHistory(k, entries[k], rows[k]) : k \in Key},
                      FlushFinal)
      /\ head' = head
  BY DEF CommitUnacknowledged, Committed, GoDownStored, UpdateCursor, streamVars
<1>2. /\ rows \in Rows /\ entries \in [Key -> Operation \cup {None}]
      /\ head \in Height /\ head \in Nat /\ truth \in [Height -> Rows]
  BY ConstantsAssumption DEF LostInv, TypeOK, Height
<1>3. ASSUME NEW k \in Key
      PROVE  /\ rows'[k] = truth[head][k] /\ rows'[k] \in Data \cup {Absent}
             /\ Execute(entries[k], rows'[k]) = rows'[k]
             /\ entries[k] # None /\ entries[k].type = "UPDATE" => rows'[k] # Absent
  <2>1. rows'[k] = Execute(entries[k], rows[k])
    BY <1>1
  <2>2. entries[k] \in Operation \cup {None} /\ rows[k] \in Data \cup {Absent}
    BY <1>2 DEF Rows
  <2>3. entries[k] # None /\ entries[k].type = "UPDATE" => rows[k] # Absent
    BY <1>1 DEF LostInv, UpdatedRowsExist, Working
  <2>4. Execute(entries[k], rows[k]) = truth[head][k]
    BY <1>1 DEF LostInv, BufferMatchesHead
  <2>5. QED
    BY <2>1, <2>2, <2>3, <2>4, ExecuteTwice, ExecuteType
<1>4. rows' \in Rows
  BY <1>1, <1>3 DEF Rows
<1>5. rows' = truth[head]
  BY <1>2, <1>3, <1>4 DEF Rows
<1>6. history' \subseteq HistoryRow
  <2>1. \A k \in Key : SaveHistory(k, entries[k], rows[k]) \subseteq HistoryRow
    BY <1>2, SaveHistoryType DEF Rows
  <2>2. QED
    BY <1>1, <2>1 DEF LostInv, TypeOK, PruneReversibleSegment
<1>7. cursor' # NoCursor /\ StoredBlock' = head
  BY <1>1, <1>2 DEF StoredBlock, NoCursor
<1>8. faults' \in 0 .. MaxFaults
  BY <1>1, ConstantsAssumption DEF LostInv, TypeOK
<1>9. CASE MayRetry
  <2>1. /\ attempt < FlushRetryCount /\ attempt' = attempt + 1
        /\ UNCHANGED <<head, truth, lib, phase, entries, lastApplied, flushed, applied,
                       undoTo, pending, txRows, undos>>
    BY <1>9 DEF CommitUnacknowledged, MayRetry, streamVars, txVars
  <2>2. attempt' \in 0 .. FlushRetryCount
    BY <2>1, ConstantsAssumption DEF LostInv, TypeOK
  <2>3. TypeOK'
    BY <1>1, <1>2, <1>4, <1>6, <1>8, <2>1, <2>2 DEF LostInv, TypeOK
  <2>4. RowsMatchCursor' /\ BufferMatchesHead' /\ UpdatedRowsExist'
    BY <1>1, <1>3, <1>5, <1>7, <2>1
       DEF RowsMatchCursor, BufferMatchesHead, UpdatedRowsExist
  <2>5. QED
    BY <1>1, <1>2, <1>5, <1>7, <2>1, <2>3, <2>4 DEF LostInv, Unacknowledged
<1>10. CASE ~ MayRetry
  <2>1. GoDownStored
    BY <1>10 DEF CommitUnacknowledged
  <2>2. /\ phase' = "down" /\ entries' = NoEntries /\ truth' = truth
    BY <2>1 DEF GoDownStored, streamVars
  <2>3. NoRows \in Rows /\ 0 \in Height /\ 0 \in 0 .. FlushRetryCount /\ 0 \in 0 .. MaxChanges
    BY ConstantsAssumption DEF NoRows, Rows, Height
  <2>4. TypeOK'
    BY <1>1, <1>2, <1>4, <1>6, <1>8, <2>1, <2>3
       DEF LostInv, TypeOK, GoDownStored, NoEntries, Phases, streamVars
  <2>5. RowsMatchCursor' /\ BufferMatchesHead' /\ UpdatedRowsExist'
    BY <1>1, <1>5, <1>7, <2>2
       DEF RowsMatchCursor, BufferMatchesHead, UpdatedRowsExist, Working
  <2>6. QED
    BY <1>1, <1>2, <1>5, <1>7, <2>2, <2>4, <2>5, ConstantsAssumption DEF LostInv, Height
<1>11. QED
  BY <1>9, <1>10

\* The process starts at the stored block.
LEMMA RunLost == ASSUME LostInv, TypeOK', Run PROVE LostInv'
<1>0. StoredBlock \in Height
  BY StoredBlockType DEF LostInv
<1>1. StoredBlock' = StoredBlock /\ StoredBlock \in Height
  BY <1>0, ConstantsAssumption DEF Run, StoredBlock, NoCursor, Height
<1>2. /\ phase = "down" /\ phase' = "ready" /\ cursor' = StoredBlock
      /\ UNCHANGED <<head, truth, entries, rows>>
  BY DEF Run, streamVars
<1>3. \A k \in Key : entries[k] = None
  BY <1>2 DEF LostInv, NoEntries
<1>4. rows = truth[head]
  BY <1>2 DEF LostInv, RowsMatchCursor
<1>5. BufferMatchesHead' /\ UpdatedRowsExist' /\ RowsMatchCursor'
  BY <1>1, <1>2, <1>3, <1>4
     DEF LostInv, BufferMatchesHead, UpdatedRowsExist, RowsMatchCursor, Execute
<1>6. cursor' # NoCursor
  BY <1>1, <1>2, ConstantsAssumption DEF Height, NoCursor
<1>7. QED
  BY <1>1, <1>2, <1>5, <1>6 DEF LostInv

\* The end of the process loses the buffer and goes back to the stored block.
LEMMA GoDownLost == ASSUME LostInv, TypeOK', GoDown PROVE LostInv'
<1>1. StoredBlock' = StoredBlock /\ StoredBlock \in Height
  BY StoredBlockType DEF LostInv, GoDown, dbVars, StoredBlock
<1>2. /\ phase' = "down" /\ head' = StoredBlock /\ entries' = NoEntries /\ rows' = rows
      /\ truth' = Truncate(truth, StoredBlock)
  BY DEF GoDown, dbVars
<1>3. truth'[StoredBlock] = truth[StoredBlock]
  BY <1>1, <1>2, ConstantsAssumption DEF Truncate, Height
<1>4. RowsMatchCursor' /\ BufferMatchesHead' /\ UpdatedRowsExist'
  BY <1>1, <1>2, <1>3
     DEF LostInv, RowsMatchCursor, BufferMatchesHead, UpdatedRowsExist, Working
<1>5. QED
  BY <1>1, <1>2, <1>4, ConstantsAssumption DEF LostInv, Height

\* A block is empty when it arrives.
LEMMA ReceiveBlockLost ==
    ASSUME LostInv, TypeOK', NEW final \in Height, ReceiveBlock(final)
    PROVE  LostInv'
<1>1. StoredBlock' = StoredBlock /\ StoredBlock \in Height /\ StoredBlock <= head
      /\ head \in Height /\ head + 1 \in Height
  BY StoredBlockType, ConstantsAssumption
     DEF LostInv, ReceiveBlock, dbVars, StoredBlock, TypeOK, Height
<1>2. /\ phase = "ready" /\ phase' = "apply" /\ head' = head + 1
      /\ truth' = [truth EXCEPT ![head + 1] = truth[head]]
      /\ UNCHANGED <<entries, rows, cursor>>
  BY DEF ReceiveBlock, dbVars
<1>3. truth'[StoredBlock] = truth[StoredBlock] /\ truth'[head + 1] = truth[head]
  BY <1>1, <1>2, ConstantsAssumption DEF LostInv, TypeOK, Height
<1>4. RowsMatchCursor'
  BY <1>1, <1>2, <1>3 DEF LostInv, RowsMatchCursor
<1>5. BufferMatchesHead' /\ UpdatedRowsExist'
  BY <1>2, <1>3 DEF LostInv, BufferMatchesHead, UpdatedRowsExist, Working
<1>6. StoredBlock' < head'
  BY <1>1, <1>2, ConstantsAssumption DEF Height
<1>7. QED
  BY <1>1, <1>2, <1>4, <1>5, <1>6, ConstantsAssumption DEF LostInv, Height

\* A change changes the chain and the buffer alike.
LEMMA ApplyChangeLost ==
    ASSUME LostInv, TypeOK', NEW c \in Changes, ApplyChange(c)
    PROVE  LostInv'
<1>1. /\ phase = "apply" /\ UNCHANGED <<head, phase, rows, cursor>> /\ Legal(c)
      /\ Buffer(entries[c.key], c, ReversibleBlockNum) # Rejected
      /\ entries' = [entries EXCEPT ![c.key] = Buffer(entries[c.key], c, ReversibleBlockNum)]
      /\ truth' = [truth EXCEPT ![head][c.key] = ExecuteOn(c.op, c.data, @)]
  BY DEF ApplyChange, dbVars
<1>2. c \in TableChange /\ c.key \in Key /\ ReversibleBlockNum \in Height
  BY ConstantsAssumption
     DEF LostInv, TableChange, TypeOK, ReversibleBlockNum, NotReversible, Height
<1>3. StoredBlock' = StoredBlock /\ StoredBlock \in Height /\ StoredBlock < head
      /\ head \in Height
  BY <1>1, StoredBlockType DEF LostInv, StoredBlock, TypeOK
<1>4. /\ truth'[StoredBlock] = truth[StoredBlock]
      /\ \A k \in Key : k # c.key => truth'[head][k] = truth[head][k]
      /\ truth'[head][c.key] = ExecuteOn(c.op, c.data, truth[head][c.key])
  <2>1. truth \in [Height -> Rows] /\ truth[head] \in Rows
    BY <1>3 DEF LostInv, TypeOK
  <2>2. StoredBlock # head
    BY <1>3, ConstantsAssumption DEF Height
  <2>3. DOMAIN truth = Height /\ DOMAIN truth[head] = Key
    BY <2>1 DEF Rows
  <2>4. /\ truth'[StoredBlock] = truth[StoredBlock]
        /\ truth'[head] = [truth[head] EXCEPT ![c.key] = ExecuteOn(c.op, c.data, @)]
    BY <1>1, <1>3, <2>2, <2>3
  <2>5. QED
    BY <1>2, <2>3, <2>4
<1>5. ASSUME NEW k \in Key
      PROVE  /\ Execute(entries'[k], rows[k]) = truth'[head][k]
             /\ entries'[k] # None /\ entries'[k].type = "UPDATE" => rows[k] # Absent
  <2>1. /\ Execute(entries[k], rows[k]) = truth[head][k]
        /\ entries[k] # None /\ entries[k].type = "UPDATE" => rows[k] # Absent
    BY <1>1 DEF LostInv, BufferMatchesHead, UpdatedRowsExist, Working
  <2>2. CASE k # c.key
    BY <1>1, <1>2, <1>4, <2>1, <2>2 DEF LostInv, TypeOK
  <2>3. CASE k = c.key
    <3>1. entries[k] \in Operation \cup {None} /\ rows[k] \in Data \cup {Absent}
      BY DEF LostInv, TypeOK, Rows
    <3>2. entries'[k] = Buffer(entries[k], c, ReversibleBlockNum)
      BY <1>1, <2>3 DEF LostInv, TypeOK
    <3>3. QED
      BY <1>1, <1>2, <1>4, <2>1, <2>3, <3>1, <3>2, BufferExecutes DEF Legal
  <2>4. QED
    BY <2>2, <2>3
<1>6. RowsMatchCursor' /\ BufferMatchesHead' /\ UpdatedRowsExist'
  BY <1>1, <1>3, <1>4, <1>5 DEF LostInv, RowsMatchCursor, BufferMatchesHead, UpdatedRowsExist
<1>7. QED
  BY <1>1, <1>3, <1>6 DEF LostInv

\* A block that is not flushed stays in the buffer.
LEMMA EndBlockLost ==
    ASSUME LostInv, TypeOK', NEW isLive \in BOOLEAN, NEW slow \in BOOLEAN,
           EndBlock(isLive, slow)
    PROVE  LostInv'
<1>1. /\ phase = "apply" /\ phase' \in {"flush", "ready"}
      /\ UNCHANGED <<head, truth, entries, rows, cursor>>
  BY DEF EndBlock, streamVars, dbVars
<1>2. StoredBlock' = StoredBlock /\ StoredBlock \in Height /\ StoredBlock < head
  BY <1>1, StoredBlockType DEF LostInv, StoredBlock
<1>3. StoredBlock # head
  BY <1>2, ConstantsAssumption DEF LostInv, TypeOK, Height
<1>4. RowsMatchCursor' /\ BufferMatchesHead' /\ UpdatedRowsExist'
  BY <1>1, <1>2 DEF LostInv, RowsMatchCursor, BufferMatchesHead, UpdatedRowsExist, Working
<1>5. QED
  BY <1>1, <1>2, <1>3, <1>4 DEF LostInv

\* The end of the range, and another attempt at a flush.
LEMMA QuietLost ==
    ASSUME LostInv, TypeOK', UNCHANGED <<streamVars, entries, dbVars>>,
           \/ phase' = phase /\ phase \in {"flush", "complete"}
           \/ phase = "ready" /\ phase' = "complete"
    PROVE  LostInv'
<1>1. UNCHANGED <<head, truth, entries, rows, cursor>>
  BY DEF streamVars, dbVars
<1>2. StoredBlock' = StoredBlock
  BY <1>1 DEF StoredBlock
<1>3. RowsMatchCursor' /\ BufferMatchesHead' /\ UpdatedRowsExist'
  BY <1>1, <1>2 DEF LostInv, RowsMatchCursor, BufferMatchesHead, UpdatedRowsExist, Working
<1>4. QED
  BY <1>1, <1>2, <1>3 DEF LostInv

\* A flush, the first or a repeated one, leaves the rows of the current block.
LEMMA LoaderFlushLost ==
    ASSUME LostInv, TypeOK', Working, NEW final \in Height, LoaderFlush(final),
           UNCHANGED streamVars, phase' \in {"ready", "done"}
    PROVE  LostInv' /\ rows' = truth[head] /\ StoredBlock' = head
<1>1. /\ entries' = NoEntries /\ cursor' = head /\ UNCHANGED <<head, truth>>
      /\ rows' = [k \in Key |-> Execute(entries[k], rows[k])]
  BY DEF LoaderFlush, Reset, UpdateCursor, streamVars
<1>2. head \in Height /\ truth \in [Height -> Rows]
  BY DEF LostInv, TypeOK
<1>3. \A k \in Key : rows'[k] = truth[head][k]
  BY <1>1 DEF LostInv, BufferMatchesHead, Working
<1>4. rows' = truth[head]
  BY <1>2, <1>3 DEF TypeOK, Rows
<1>5. StoredBlock' = head /\ cursor' # NoCursor
  BY <1>1, <1>2, ConstantsAssumption DEF StoredBlock, NoCursor, Height
<1>6. \A k \in Key : entries'[k] = None
  BY <1>1 DEF NoEntries
<1>7. RowsMatchCursor' /\ BufferMatchesHead' /\ UpdatedRowsExist'
  BY <1>1, <1>4, <1>5, <1>6
     DEF RowsMatchCursor, BufferMatchesHead, UpdatedRowsExist, Execute
<1>8. LostInv'
  BY <1>1, <1>2, <1>5, <1>7, ConstantsAssumption DEF LostInv, Height
<1>9. QED
  BY <1>4, <1>5, <1>8

\* The invariant holds at first,
LEMMA LostInit == ASSUME Init PROVE LostInv
<1>1. TypeOK
  BY TypeInit
<1>2. StoredBlock = 0
  BY DEF Init, StoredBlock, NoCursor
<1>3. RowsMatchCursor /\ BufferMatchesHead /\ UpdatedRowsExist
  BY <1>2, ConstantsAssumption
     DEF Init, RowsMatchCursor, BufferMatchesHead, UpdatedRowsExist, Working, Height
<1>4. QED
  BY <1>1, <1>2, <1>3 DEF Init, LostInv

\* and every step keeps it.
LEMMA LostNextInv ==
    ASSUME ~HandleReorgs, LostInv, [LostNext]_vars
    PROVE  LostInv'
<1>1. CASE CommitUnacknowledged
  BY <1>1, CommitUnacknowledgedInv
<1>2. CASE UNCHANGED vars
  BY <1>2 DEF vars, LostInv, TypeOK, RowsMatchCursor, BufferMatchesHead, UpdatedRowsExist,
              StoredBlock, Working
<1>3. CASE Next
  <2>0. TypeOK'
    BY <1>3, TypeStep DEF LostInv
  <2>1. CASE Run
    BY <2>0, <2>1, RunLost
  <2>2. ASSUME NEW final \in Height, ReceiveBlock(final) PROVE LostInv'
    BY <2>0, <2>2, ReceiveBlockLost
  <2>3. ASSUME NEW c \in Changes, ApplyChange(c) PROVE LostInv'
    BY <2>0, <2>3, ApplyChangeLost
  <2>4. ASSUME GoDown PROVE LostInv'
    BY <2>0, <2>4, GoDownLost
  <2>5. ASSUME NEW isLive \in BOOLEAN, NEW slow \in BOOLEAN, EndBlock(isLive, slow)
        PROVE  LostInv'
    BY <2>0, <2>5, EndBlockLost
  <2>6. CASE RangeCompletion
    BY <2>0, <2>6, QuietLost DEF RangeCompletion
  <2>7. CASE FlushCommit
    BY <2>0, <2>7, LoaderFlushLost DEF FlushCommit, LostInv, TypeOK, Working
  <2>8. CASE CompletionCommit
    BY <2>0, <2>8, LoaderFlushLost DEF CompletionCommit, LostInv, TypeOK, Working
  <2>9. CASE FlushFailure
    BY <2>0, <2>4, <2>9, QuietLost DEF FlushFailure
  <2>10. ASSUME NEW n \in Height, UndoSignal(n) PROVE FALSE
    BY <2>10 DEF UndoSignal
  <2>11. ASSUME NEW r \in pending, RevertRow(r) PROVE FALSE
    BY <2>11 DEF RevertRow, LostInv
  <2>12. ~ RevertCommit
    BY DEF RevertCommit, LostInv
  <2>13. CASE Terminated
    BY <1>2, <2>13 DEF Terminated
  <2>14. QED
    BY <1>3, <2>1, <2>2, <2>3, <2>4, <2>5, <2>6, <2>7, <2>8, <2>9, <2>10, <2>11, <2>12, <2>13
       DEF Next, RejectChange, RevertFailure, Crash
<1>4. QED
  BY <1>1, <1>2, <1>3 DEF LostNext

\* The invariant holds under every loss of an answer: rows and cursor move
\* together, and a repeated flush changes nothing.
THEOREM LostInvariance == ASSUME ~HandleReorgs PROVE LostSpec => []LostInv
<1>1. Init => LostInv
  BY LostInit
<1>2. LostInv /\ [LostNext]_vars => LostInv'
  BY LostNextInv
<1>3. QED
  BY <1>1, <1>2, PTL DEF LostSpec

-----------------------------------------------------------------------------
(* A flush that is not stored is accepted.                                 *)

\* Every step keeps the operations of a flush that is not stored acceptable.
LEMMA AcceptsNext ==
    ASSUME ~HandleReorgs, NoUpsertOfUpdate, KnownColumns, LostInv, Accepts, [LostNext]_vars
    PROVE  Accepts'
<1>1. SUFFICES ASSUME Working', ~Unacknowledged' PROVE \A k \in Key : Acceptable(k)'
  BY DEF Accepts
<1>2. ASSUME UNCHANGED <<entries, rows>>, Working, ~Unacknowledged
      PROVE  \A k \in Key : Acceptable(k)'
  BY <1>2 DEF Accepts, Acceptable
<1>3. ASSUME entries' = NoEntries PROVE \A k \in Key : Acceptable(k)'
  BY <1>3 DEF NoEntries, Acceptable, Executable
<1>4. ~ CommitUnacknowledged
  BY <1>1, CommitUnacknowledgedInv DEF Working
<1>5. CASE UNCHANGED vars
  BY <1>1, <1>2, <1>5 DEF vars, Working, Unacknowledged, StoredBlock
<1>6. CASE Run
  BY <1>3, <1>6 DEF Run, LostInv
<1>7. ASSUME NEW final \in Height, ReceiveBlock(final) PROVE \A k \in Key : Acceptable(k)'
  <2>1. phase = "ready" /\ UNCHANGED <<entries, rows>>
    BY <1>7 DEF ReceiveBlock, dbVars
  <2>2. QED
    BY <1>2, <2>1 DEF Working, Unacknowledged
<1>8. ASSUME NEW c \in Changes, ApplyChange(c) PROVE \A k \in Key : Acceptable(k)'
  <2>1. phase = "apply"
    BY <1>8 DEF ApplyChange
  <2>2. \A k \in Key : Acceptable(k)
    BY <2>1 DEF Accepts, Working, Unacknowledged
  <2>3. QED
    BY <1>8, <2>2, ApplyChangeAcceptable DEF LostInv
<1>9. ASSUME GoDown PROVE \A k \in Key : Acceptable(k)'
  BY <1>3, <1>9 DEF GoDown
<1>10. ASSUME NEW isLive \in BOOLEAN, NEW slow \in BOOLEAN, EndBlock(isLive, slow)
       PROVE  \A k \in Key : Acceptable(k)'
  BY <1>2, <1>10 DEF EndBlock, Working, Unacknowledged, dbVars
<1>11. CASE RangeCompletion
  BY <1>2, <1>11 DEF RangeCompletion, Working, Unacknowledged, dbVars
<1>12. CASE FlushCommit
  BY <1>3, <1>12 DEF FlushCommit, LoaderFlush, Reset
<1>13. CASE CompletionCommit
  BY <1>3, <1>13 DEF CompletionCommit, LoaderFlush, Reset
<1>14. CASE FlushFailure
  <2>1. CASE MayRetry
    <3>1. UNCHANGED <<phase, head, cursor, entries, rows>>
      BY <1>14, <2>1 DEF FlushFailure, streamVars, dbVars
    <3>2. QED
      BY <1>1, <1>2, <3>1 DEF Working, Unacknowledged, StoredBlock
  <2>2. CASE ~ MayRetry
    BY <1>9, <1>14, <2>2 DEF FlushFailure
  <2>3. QED
    BY <2>1, <2>2
<1>15. ASSUME NEW n \in Height, UndoSignal(n) PROVE FALSE
  BY <1>15 DEF UndoSignal
<1>16. ASSUME NEW r \in pending, RevertRow(r) PROVE FALSE
  BY <1>16 DEF RevertRow, LostInv
<1>17. ~ RevertCommit
  BY DEF RevertCommit, LostInv
<1>18. QED
  BY <1>4, <1>5, <1>6, <1>7, <1>8, <1>9, <1>10, <1>11, <1>12, <1>13, <1>14, <1>15, <1>16,
     <1>17 DEF LostNext, Next, RejectChange, RevertFailure, Crash, Terminated

\* What is not stored yet is always accepted, even when the answers to earlier
\* commits were lost: only a flush that is stored already can be refused
\* (flushWithRetry then ends the process, which resumes behind it).
THEOREM LostFlushesAreAccepted ==
    ASSUME ~HandleReorgs, NoUpsertOfUpdate, KnownColumns
    PROVE  LostSpec => []BufferExecutable
<1>1. Init => Accepts
  BY DEF Init, Accepts, Working
<1>2. LostInv /\ Accepts /\ [LostNext]_vars => Accepts'
  BY AcceptsNext
<1>3. LostInv /\ Accepts => BufferExecutable
  <2> SUFFICES ASSUME LostInv, Accepts, Working, cursor < head
               PROVE  FlushExecutable
    BY DEF BufferExecutable, Working
  <2>1. StoredBlock # head
    BY ConstantsAssumption DEF LostInv, TypeOK, StoredBlock, Working, NoCursor, Height
  <2>2. QED
    BY <2>1 DEF Accepts, Unacknowledged, FlushExecutable, Acceptable
<1>4. QED
  BY <1>1, <1>2, <1>3, LostInvariance, PTL DEF LostSpec

-----------------------------------------------------------------------------
(* The sink still implements the replica.                                  *)

\* Every step is a step of TableReplica, or changes nothing a reader sees: a
\* commit whose answer is lost is the Store step, its repetition a stutter.
LEMMA LostReplicaStep ==
    ASSUME ~HandleReorgs, LostInv, [LostNext]_vars
    PROVE  [Replica!Next]_(Replica!vars)
<1>1. /\ StoredBlock \in Height /\ StoredBlock <= head /\ head \in Height /\ lib \in Height
      /\ rows = truth[StoredBlock] /\ LostInv' /\ TypeOK'
  BY StoredBlockType, LostNextInv DEF LostInv, TypeOK, RowsMatchCursor
<1>2. ASSUME UNCHANGED <<truth, lib, rows, cursor>> PROVE [Replica!Next]_(Replica!vars)
  BY <1>2 DEF Replica!vars, StoredBlock
<1>3. ASSUME GoDown PROVE [Replica!Next]_(Replica!vars)
  <2>1. StoredBlock' = StoredBlock /\ rows' = rows /\ lib' >= lib
    BY <1>1, <1>3 DEF GoDown, dbVars, StoredBlock, Height
  <2>2. \A h \in Height : h <= StoredBlock => truth'[h] = truth[h]
    BY <1>3 DEF GoDown, Truncate
  <2>3. QED
    BY <1>1, <2>1, <2>2, DeliverStep
<1>4. ASSUME rows' = truth[head], StoredBlock' = head, UNCHANGED streamVars
      PROVE  [Replica!Next]_(Replica!vars)
  <2>1. CASE StoredBlock = head
    BY <1>1, <1>4, <2>1 DEF Replica!vars, streamVars
  <2>2. CASE StoredBlock < head
    <3>1. Replica!Store(head)
      BY <1>4, <2>2 DEF Replica!Store, streamVars
    <3>2. QED
      BY <1>1, <3>1 DEF Replica!Next, Replica!Height, Height
  <2>3. QED
    BY <1>1, <2>1, <2>2 DEF Height
<1>5. CASE CommitUnacknowledged
  <2>1. rows' = truth[head] /\ StoredBlock' = head
    BY <1>5, CommitUnacknowledgedInv
  <2>2. UNCHANGED streamVars
    BY <1>5 DEF CommitUnacknowledged, GoDownStored
  <2>3. QED
    BY <1>4, <2>1, <2>2
<1>6. CASE UNCHANGED vars
  BY <1>2, <1>6 DEF vars
<1>7. CASE Run
  <2>1. StoredBlock' = StoredBlock
    BY <1>1, <1>7, ConstantsAssumption DEF Run, StoredBlock, NoCursor, Height
  <2>2. QED
    BY <1>7, <2>1 DEF Run, streamVars, Replica!vars
<1>8. ASSUME NEW final \in Height, ReceiveBlock(final) PROVE [Replica!Next]_(Replica!vars)
  <2>1. StoredBlock' = StoredBlock /\ rows' = rows /\ lib' >= lib
    BY <1>8 DEF ReceiveBlock, dbVars, StoredBlock
  <2>2. \A h \in Height : h <= StoredBlock => truth'[h] = truth[h]
    BY <1>1, <1>8, ConstantsAssumption DEF LostInv, TypeOK, ReceiveBlock, Height
  <2>3. QED
    BY <1>1, <2>1, <2>2, DeliverStep
<1>9. ASSUME NEW c \in Changes, ApplyChange(c) PROVE [Replica!Next]_(Replica!vars)
  <2>1. StoredBlock' = StoredBlock /\ rows' = rows /\ lib' >= lib /\ StoredBlock < head
    BY <1>1, <1>9 DEF LostInv, ApplyChange, dbVars, StoredBlock, Height
  <2>2. \A h \in Height : h <= StoredBlock => truth'[h] = truth[h]
    BY <1>1, <1>9, <2>1, ConstantsAssumption DEF LostInv, TypeOK, ApplyChange, Height
  <2>3. QED
    BY <1>1, <2>1, <2>2, DeliverStep
<1>10. ASSUME NEW isLive \in BOOLEAN, NEW slow \in BOOLEAN, EndBlock(isLive, slow)
       PROVE  [Replica!Next]_(Replica!vars)
  BY <1>2, <1>10 DEF EndBlock, streamVars, dbVars
<1>11. CASE RangeCompletion
  BY <1>2, <1>11 DEF RangeCompletion, streamVars, dbVars
<1>12. CASE FlushCommit
  BY <1>1, <1>4, <1>12, LoaderFlushLost DEF FlushCommit, Working
<1>13. CASE CompletionCommit
  BY <1>1, <1>4, <1>13, LoaderFlushLost DEF CompletionCommit, Working
<1>14. CASE FlushFailure
  BY <1>2, <1>3, <1>14 DEF FlushFailure, streamVars, dbVars
<1>15. ASSUME NEW n \in Height, UndoSignal(n) PROVE FALSE
  BY <1>15 DEF UndoSignal
<1>16. ASSUME NEW r \in pending, RevertRow(r) PROVE FALSE
  BY <1>16 DEF RevertRow, LostInv
<1>17. ~ RevertCommit
  BY DEF RevertCommit, LostInv
<1>18. QED
  BY <1>3, <1>5, <1>6, <1>7, <1>8, <1>9, <1>10, <1>11, <1>12, <1>13, <1>14, <1>15, <1>16,
     <1>17 DEF LostNext, Next, RejectChange, RevertFailure, Crash, Terminated

\* A reader of the database sees whole prefixes of the chain, exactly once
\* each, although a flush may be committed, reported as failed and committed
\* again (Loader.Flush, flushWithRetry).
THEOREM LostRefinement == ASSUME ~HandleReorgs PROVE LostSpec => ImplementsReplica
<1>1. Init => Replica!Init
  BY DEF Init, Replica!Init, Replica!Height, Height, StoredBlock, NoCursor
<1>2. LostInv /\ [LostNext]_vars => [Replica!Next]_(Replica!vars)
  BY LostReplicaStep
<1>3. QED
  BY <1>1, <1>2, LostInvariance, PTL DEF LostSpec, ImplementsReplica, Replica!Spec
=============================================================================
