------------------------ MODULE ClickhouseSinkProofs ------------------------
(***************************************************************************)
(* Theorems about ClickhouseSink, for every chain, number of tables,       *)
(* failure and crash: the tables implement LaggingReplica, and no row is   *)
(* repeated without a reason.                                              *)
(***************************************************************************)
EXTENDS ClickhouseSink, FiniteSetTheorems, TLAPS

Shows(v, t, k, h) == Replica!Shows(v, t, k, h)

\* The process is never behind its cursor, nor the highest flush.
PositionInv ==
    /\ cursor <= ahead
    /\ phase # "down" => cursor <= pos
    /\ phase = "down" => entries = NoRows
    /\ phase = "flush" /\ todo # Table => pos <= ahead

\* A buffered row is that of the last block that wrote the key; without one no block
\* after the cursor wrote it.
BufferInv ==
    \A t \in Table, k \in Key :
        /\ entries[t][k] > 0 => Shows(entries[t][k], t, k, pos)
        /\ entries[t][k] = 0 => \A b \in (cursor + 1) .. pos : k \notin chain[b][t]

\* A table the flush has committed is not behind the block the cursor will move to.
FlushedInv ==
    phase = "flush" =>
        \A t \in Table \ todo, k \in Key :
            Replica!CellBetween(stored[t][k], t, k, pos, ahead)

\* Where nothing fails, copies are counted against the blocks of the cursor, or of the
\* flush for a table it has committed.
Trouble == faults # 0 \/ refused.unconvertible # {}

WritersUpTo(t, k, h) == {b \in 1 .. h : k \in chain[b][t]}

CopiesInv ==
    ~Trouble =>
        \A t \in Table, k \in Key :
            /\ entries[t][k] > 0 => entries[t][k] > cursor
            /\ copies[t][k] <= Cardinality(WritersUpTo(t, k,
                    IF phase = "flush" /\ t \notin todo THEN pos ELSE cursor))

IInv ==
    /\ TypeOK /\ PositionInv /\ BufferInv /\ NeverBehindCursor /\ FlushedInv
    /\ OnlyConvertible /\ CopiesInv

-----------------------------------------------------------------------------
(* Types *)

LEMMA NoRowsTyped == NoRows \in [Table -> [Key -> Height]]
  BY ClickhouseAssumption DEF NoRows, Height, ClickhouseAssumption

LEMMA InitTypeOK == Init => TypeOK
<1> SUFFICES ASSUME Init PROVE TypeOK
  OBVIOUS
<1> USE ClickhouseAssumption DEF ClickhouseAssumption, Height
<1>1. copies \in [Table -> [Key -> 0 .. MaxCopies]]
  BY DEF Init, NoRows
<1> QED BY <1>1, NoRowsTyped DEF Init, TypeOK

\* Inserting the rows of a table and starting over keep the types.
LEMMA CommitRowsTyped ==
    ASSUME TypeOK, NEW t \in Table, CommitRows(t)
    PROVE  /\ stored' \in [Table -> [Key -> Height]]
           /\ copies' \in [Table -> [Key -> 0 .. MaxCopies]]
           /\ ahead' \in Height
<1> USE ClickhouseAssumption DEF ClickhouseAssumption
<1>1. stored' \in [Table -> [Key -> Height]]
  BY DEF TypeOK, CommitRows
<1>2. copies' \in [Table -> [Key -> 0 .. MaxCopies]]
  BY DEF TypeOK, CommitRows
<1>3. ahead' \in Height
  BY DEF TypeOK, CommitRows
<1> QED BY <1>1, <1>2, <1>3

LEMMA GoDownTyped ==
    ASSUME GoDown
    PROVE  /\ phase' = "down" /\ pos' = 0 /\ pos' \in Height
           /\ entries' = NoRows /\ entries' \in [Table -> [Key -> Height]]
           /\ todo' = {} /\ attempt' = 0 /\ attempt' \in 0 .. FlushRetryCount
  BY NoRowsTyped, ClickhouseAssumption DEF GoDown, Height, ClickhouseAssumption

LEMMA RetryTyped ==
    ASSUME TypeOK, phase = "flush", Retry
    PROVE  /\ phase' \in {"down", "flush"}
           /\ pos' \in Height
           /\ entries' \in [Table -> [Key -> Height]]
           /\ todo' \subseteq Table
           /\ attempt' \in 0 .. FlushRetryCount
<1> USE ClickhouseAssumption DEF ClickhouseAssumption
<1>1. CASE attempt < FlushRetryCount
  BY <1>1 DEF Retry, TypeOK
<1>2. CASE ~(attempt < FlushRetryCount)
  BY <1>2, GoDownTyped DEF Retry
<1> QED BY <1>1, <1>2

LEMMA NextTypeOK == TypeOK /\ [Next]_vars => TypeOK'
<1> SUFFICES ASSUME TypeOK, [Next]_vars PROVE TypeOK'
  OBVIOUS
<1> USE ClickhouseAssumption DEF ClickhouseAssumption, dbVars
<1>1. CASE Run
  BY <1>1 DEF Run, TypeOK
<1>2. ASSUME NEW due \in BOOLEAN, HandleBlock(due) PROVE TypeOK'
  <2>1. pos + 1 \in Height /\ pos + 1 \in 1 .. StopBlock
    BY <1>2 DEF HandleBlock, TypeOK, Height
  <2>2. BufferBlock(pos + 1) \in [Table -> [Key -> Height]]
    BY <2>1 DEF BufferBlock, TypeOK
  <2> QED BY <1>2, <2>1, <2>2 DEF HandleBlock, TypeOK
<1>3. CASE RejectBlock
  BY <1>3, GoDownTyped DEF RejectBlock, TypeOK
<1>4. CASE RangeCompletion
  BY <1>4 DEF RangeCompletion, TypeOK
<1>5. ASSUME NEW t \in Table, CommitTable(t) PROVE TypeOK'
  BY <1>5, CommitRowsTyped DEF CommitTable, TypeOK
<1>6. ASSUME NEW t \in Table, ConversionFails(t) PROVE TypeOK'
  BY <1>6, RetryTyped DEF ConversionFails, TypeOK
<1>7. CASE UpdateCursor
  <2>1. attempt' \in 0 .. FlushRetryCount /\ ahead' \in Height
    BY <1>7 DEF UpdateCursor, TypeOK
  <2> QED BY <1>7, <2>1, NoRowsTyped DEF UpdateCursor, TypeOK
<1>8. ASSUME NEW t \in Table, NEW applied \in BOOLEAN, TableFails(t, applied) PROVE TypeOK'
  <2>1. /\ stored' \in [Table -> [Key -> Height]]
        /\ copies' \in [Table -> [Key -> 0 .. MaxCopies]]
        /\ ahead' \in Height
    BY <1>8, CommitRowsTyped DEF TableFails, TypeOK
  <2>2. Retry /\ phase = "flush" /\ faults' \in Nat
    BY <1>8 DEF TableFails, TypeOK
  <2>3. UNCHANGED <<chain, refused, cursor>>
    BY <1>8 DEF TableFails
  <2> QED BY <2>1, <2>2, <2>3, RetryTyped DEF TypeOK
<1>9. ASSUME NEW applied \in BOOLEAN, CursorFails(applied) PROVE TypeOK'
  <2>1. cursor' \in Height /\ ahead' \in Height
    BY <1>9 DEF CursorFails, TypeOK
  <2> QED BY <1>9, <2>1, RetryTyped DEF CursorFails, TypeOK
<1>10. CASE Crash
  BY <1>10, GoDownTyped DEF Crash, TypeOK
<1>11. CASE Finished \/ UNCHANGED vars
  BY <1>11 DEF Finished, vars, processVars, TypeOK
<1> QED BY <1>1, <1>2, <1>3, <1>4, <1>5, <1>6, <1>7, <1>8, <1>9, <1>10, <1>11
        DEF Next, Progress, Flush

\* The variables keep their types in every behaviour; a flush is never attempted more
\* often than --flush-retry-count allows.
THEOREM ClickhouseTyped == Spec => []TypeOK
<1>1. TypeOK /\ [Next]_vars => TypeOK'
  BY NextTypeOK
<1> QED BY InitTypeOK, <1>1, PTL DEF Spec

-----------------------------------------------------------------------------
(* Cells *)

\* A cell that shows the chain at h shows it up to the next block that writes it.
LEMMA ShowsLater ==
    ASSUME NEW t \in Table, NEW k \in Key, NEW v \in Height,
           NEW h \in Height, NEW p \in Height, h <= p, Shows(v, t, k, h),
           \A b \in (h + 1) .. p : k \notin chain[b][t]
    PROVE  Shows(v, t, k, p)
<1> USE ClickhouseAssumption DEF ClickhouseAssumption, Height
<1>1. v \in 0 .. p /\ (v > 0 => k \in chain[v][t])
  BY DEF Shows, Replica!Shows
<1>2. ASSUME NEW b \in (v + 1) .. p PROVE k \notin chain[b][t]
  <2>1. CASE b <= h
    BY <1>2, <2>1 DEF Shows, Replica!Shows
  <2>2. CASE b > h
    BY <1>2, <2>2 DEF Shows, Replica!Shows
  <2> QED BY <2>1, <2>2
<1> QED BY <1>1, <1>2 DEF Shows, Replica!Shows

LEMMA CellWidens ==
    ASSUME NEW t \in Table, NEW k \in Key, NEW v \in Height,
           NEW low \in Height, NEW high \in Height, NEW low2 \in Height, NEW high2 \in Height,
           low2 <= low, high <= high2, Replica!CellBetween(v, t, k, low, high)
    PROVE  Replica!CellBetween(v, t, k, low2, high2)
<1> USE ClickhouseAssumption DEF ClickhouseAssumption, Height
<1>1. PICK h \in low .. high : Replica!Shows(v, t, k, h)
  BY DEF Replica!CellBetween
<1>2. h \in low2 .. high2
  OBVIOUS
<1> QED BY <1>1, <1>2 DEF Replica!CellBetween

\* The batch of a table: its cells reach the last block received and the others stay.
LEMMA CommitRowsMoves ==
    ASSUME IInv, NEW t \in Table, phase = "flush", Convertible(t), CommitRows(t)
    PROVE  /\ pos <= ahead' /\ ahead <= ahead'
           /\ \A k \in Key : Replica!CellBetween(stored'[t][k], t, k, pos, ahead')
           /\ \A u \in Table \ {t} : stored'[u] = stored[u] /\ copies'[u] = copies[u]
           /\ \A k \in Key : stored'[t][k] \notin refused.unconvertible
<1> USE ClickhouseAssumption DEF ClickhouseAssumption
<1>1. /\ pos \in Height /\ cursor \in Height /\ ahead \in Height /\ ahead' \in Height
      /\ entries \in [Table -> [Key -> Height]] /\ stored \in [Table -> [Key -> Height]]
      /\ copies \in [Table -> [Key -> 0 .. MaxCopies]] /\ cursor <= pos
  BY CommitRowsTyped DEF IInv, TypeOK, PositionInv
<1>2. pos <= ahead' /\ ahead <= ahead'
  BY <1>1 DEF CommitRows, Height
<1>3. \A u \in Table \ {t} : stored'[u] = stored[u] /\ copies'[u] = copies[u]
  BY <1>1 DEF CommitRows
<1>4. \A k \in Key : stored'[t][k] = IF entries[t][k] > 0 THEN entries[t][k] ELSE stored[t][k]
  BY <1>1 DEF CommitRows
<1>5. ASSUME NEW k \in Key
      PROVE  Replica!CellBetween(stored'[t][k], t, k, pos, ahead')
  <2>1. CASE entries[t][k] > 0
    <3>1. Replica!Shows(stored'[t][k], t, k, pos)
      BY <1>4, <2>1 DEF IInv, BufferInv, Shows
    <3>2. pos \in pos .. ahead'
      BY <1>1, <1>2 DEF Height
    <3> QED BY <3>1, <3>2 DEF Replica!CellBetween
  <2>2. CASE entries[t][k] = 0
    <3>1. stored'[t][k] = stored[t][k]
      BY <1>4, <2>2
    <3>2. PICK h \in cursor .. ahead : Replica!Shows(stored[t][k], t, k, h)
      BY DEF IInv, NeverBehindCursor, Replica!TablesBetween, Replica!CellBetween
    <3>3. h \in Height
      BY <1>1 DEF Height
    <3>4. CASE h >= pos
      <4>1. h \in pos .. ahead'
        BY <1>1, <1>2, <3>4 DEF Height
      <4> QED BY <3>1, <3>2, <4>1 DEF Replica!CellBetween
    <3>5. CASE h < pos
      <4>1. \A b \in (h + 1) .. pos : k \notin chain[b][t]
        BY <1>1, <2>2, <3>3 DEF IInv, BufferInv, Height
      <4>2. stored[t][k] \in Height /\ h <= pos
        BY <1>1, <3>3, <3>5 DEF Height
      <4>3. Shows(stored[t][k], t, k, pos)
        BY <1>1, <3>2, <3>3, <4>1, <4>2, ShowsLater DEF Shows
      <4>4. pos \in pos .. ahead'
        BY <1>1, <1>2 DEF Height
      <4> QED BY <3>1, <4>3, <4>4 DEF Replica!CellBetween, Shows
    <3> QED BY <1>1, <3>3, <3>4, <3>5 DEF Height
  <2> QED BY <1>1, <2>1, <2>2 DEF Height
<1>6. \A k \in Key : stored'[t][k] \notin refused.unconvertible
  BY <1>4 DEF Convertible, IInv, OnlyConvertible
<1> QED BY <1>2, <1>3, <1>5, <1>6

-----------------------------------------------------------------------------
(* The invariant *)

LEMMA DownProcess ==
    ASSUME GoDown, cursor' \in Height
    PROVE  BufferInv' /\ FlushedInv'
<1>1. \A t \in Table, k \in Key : entries'[t][k] = 0
  BY GoDownTyped DEF NoRows
<1>2. BufferInv'
  BY <1>1, GoDownTyped DEF BufferInv, Height
<1> QED BY <1>2, GoDownTyped DEF FlushedInv

\* A failed flush is begun again from its first table, or the process ends.
LEMMA RetryProcess ==
    ASSUME IInv, phase = "flush", Retry, chain' = chain,
           cursor' \in Height, ahead' \in Height, cursor' \in {cursor, pos}, cursor' <= ahead'
    PROVE  PositionInv' /\ BufferInv' /\ FlushedInv'
<1>1. CASE attempt < FlushRetryCount
  <2>1. todo' = Table /\ UNCHANGED <<phase, pos, entries>>
    BY <1>1 DEF Retry
  <2>2. PositionInv'
    BY <2>1 DEF IInv, TypeOK, PositionInv, Height
  <2>3. ASSUME NEW t \in Table, NEW k \in Key
        PROVE  /\ entries'[t][k] > 0 => Shows(entries[t][k], t, k, pos)'
               /\ entries'[t][k] = 0 => \A b \in (cursor' + 1) .. pos' : k \notin chain'[b][t]
    <3>1. entries[t][k] > 0 => Shows(entries[t][k], t, k, pos)'
      BY <2>1 DEF IInv, BufferInv, Shows, Replica!Shows
    <3>2. cursor \in Nat /\ pos \in Nat /\ cursor <= pos
      BY ClickhouseAssumption DEF IInv, TypeOK, PositionInv, Height, ClickhouseAssumption
    <3>3. ASSUME NEW b \in (cursor' + 1) .. pos PROVE b \in (cursor + 1) .. pos
      <4>1. CASE cursor' = cursor
        BY <4>1
      <4>2. CASE cursor' = pos
        BY <3>2, <4>2
      <4> QED BY <4>1, <4>2
    <3> QED BY <2>1, <3>1, <3>3 DEF IInv, BufferInv
  <2>5. BufferInv'
    BY <2>3 DEF BufferInv
  <2>4. FlushedInv'
    BY <2>1 DEF FlushedInv
  <2> QED BY <2>2, <2>4, <2>5
<1>2. CASE ~(attempt < FlushRetryCount)
  <2>1. GoDown
    BY <1>2 DEF Retry
  <2>2. PositionInv'
    BY <2>1, GoDownTyped DEF PositionInv
  <2> QED BY <2>1, <2>2, DownProcess
<1> QED BY <1>1, <1>2

LEMMA InitIInv == Init => IInv
<1> SUFFICES ASSUME Init PROVE IInv
  OBVIOUS
<1> USE ClickhouseAssumption DEF ClickhouseAssumption, Height
<1>1. TypeOK
  BY InitTypeOK
<1>2. /\ cursor = 0 /\ ahead = 0 /\ pos = 0 /\ phase = "down" /\ entries = NoRows
      /\ \A t \in Table, k \in Key : entries[t][k] = 0 /\ stored[t][k] = 0 /\ copies[t][k] = 0
  BY DEF Init, NoRows
<1>3. PositionInv
  BY <1>2 DEF PositionInv
<1>4. BufferInv
  BY <1>2 DEF BufferInv
<1>5. NeverBehindCursor
  BY <1>2 DEF NeverBehindCursor, Replica!TablesBetween, Replica!CellBetween, Replica!Shows
<1>6. FlushedInv
  BY <1>2 DEF FlushedInv
<1>7. OnlyConvertible
  <2>1. 0 \notin refused.unconvertible
    BY <1>1 DEF TypeOK, Refusal
  <2> QED BY <1>2, <2>1 DEF OnlyConvertible
<1>8. CopiesInv
  <2>1. \A t \in Table, k \in Key : WritersUpTo(t, k, 0) = {}
    BY DEF WritersUpTo
  <2> QED BY <1>2, <2>1, FS_EmptySet DEF CopiesInv
<1> QED BY <1>1, <1>3, <1>4, <1>5, <1>6, <1>7, <1>8 DEF IInv

\* The blocks that write a cell: more blocks count more, and a writer counts one.
LEMMA WritersCount ==
    ASSUME NEW t, NEW k, NEW l \in Nat, NEW h \in Nat, l <= h
    PROVE  /\ Cardinality(WritersUpTo(t, k, l)) \in Nat
           /\ Cardinality(WritersUpTo(t, k, h)) \in Nat
           /\ Cardinality(WritersUpTo(t, k, l)) <= Cardinality(WritersUpTo(t, k, h))
           /\ \A e \in (l + 1) .. h : k \in chain[e][t] =>
                  Cardinality(WritersUpTo(t, k, l)) + 1 <= Cardinality(WritersUpTo(t, k, h))
<1>1. /\ IsFiniteSet(1 .. h)
      /\ WritersUpTo(t, k, h) \subseteq 1 .. h
      /\ WritersUpTo(t, k, l) \subseteq WritersUpTo(t, k, h)
  BY FS_Interval DEF WritersUpTo
<1>2. IsFiniteSet(WritersUpTo(t, k, h)) /\ IsFiniteSet(WritersUpTo(t, k, l))
  BY <1>1, FS_Subset
<1>3. /\ Cardinality(WritersUpTo(t, k, l)) \in Nat
      /\ Cardinality(WritersUpTo(t, k, h)) \in Nat
      /\ Cardinality(WritersUpTo(t, k, l)) <= Cardinality(WritersUpTo(t, k, h))
  BY <1>1, <1>2, FS_Subset, FS_CardinalityType
<1>4. ASSUME NEW e \in (l + 1) .. h, k \in chain[e][t]
      PROVE  Cardinality(WritersUpTo(t, k, l)) + 1 <= Cardinality(WritersUpTo(t, k, h))
  <2> DEFINE one == WritersUpTo(t, k, l) \union {e}
  <2>1. e \notin WritersUpTo(t, k, l) /\ one \subseteq WritersUpTo(t, k, h)
    BY <1>1, <1>4 DEF WritersUpTo
  <2>2. Cardinality(one) = Cardinality(WritersUpTo(t, k, l)) + 1 /\ IsFiniteSet(one)
    BY <1>2, <2>1, FS_AddElement
  <2>3. Cardinality(one) <= Cardinality(WritersUpTo(t, k, h))
    BY <1>2, <2>1, FS_Subset
  <2> QED BY <2>2, <2>3
<1> QED BY <1>3, <1>4

\* Steps that leave the database as it is.
LEMMA QuietIInv ==
    ASSUME IInv, UNCHANGED <<chain, refused, dbVars>>
    PROVE  NeverBehindCursor' /\ OnlyConvertible'
<1>1. NeverBehindCursor'
  BY DEF dbVars, IInv, NeverBehindCursor, Replica!TablesBetween, Replica!CellBetween,
         Replica!Shows
<1>2. OnlyConvertible'
  BY DEF dbVars, IInv, OnlyConvertible
<1> QED BY <1>1, <1>2

LEMMA RunIInv == ASSUME IInv, TypeOK', Run PROVE IInv'
<1> USE ClickhouseAssumption DEF ClickhouseAssumption
<1>1. /\ UNCHANGED <<chain, refused, dbVars>> /\ phase = "down" /\ phase' = "idle"
      /\ pos' = cursor /\ entries' = NoRows /\ faults' = faults
      /\ cursor \in Height /\ ahead \in Height /\ cursor <= ahead
  BY DEF Run, IInv, TypeOK, PositionInv
<1>2. \A t \in Table, k \in Key : entries'[t][k] = 0
  BY <1>1 DEF NoRows
<1>3. PositionInv' /\ FlushedInv'
  BY <1>1 DEF PositionInv, FlushedInv, Height, dbVars
<1>4. BufferInv'
  BY <1>1, <1>2 DEF BufferInv, Height, dbVars
<1>5. CopiesInv'
  BY <1>1, <1>2 DEF IInv, CopiesInv, Trouble, WritersUpTo, dbVars
<1> QED BY <1>1, <1>3, <1>4, <1>5, QuietIInv DEF IInv

LEMMA HandleBlockIInv ==
    ASSUME IInv, TypeOK', NEW due \in BOOLEAN, HandleBlock(due)
    PROVE  IInv'
<1> USE ClickhouseAssumption DEF ClickhouseAssumption
<1>1. /\ UNCHANGED <<chain, refused, dbVars>> /\ phase = "idle"
      /\ pos' = pos + 1 /\ entries' = BufferBlock(pos + 1) /\ faults' = faults
      /\ phase' = "idle" \/ (phase' = "flush" /\ todo' = Table)
  BY DEF HandleBlock
<1>2. /\ cursor \in Nat /\ ahead \in Nat /\ pos \in Nat /\ cursor <= ahead /\ cursor <= pos
      /\ pos' \in Nat
      /\ entries \in [Table -> [Key -> Height]]
  BY <1>1 DEF IInv, TypeOK, PositionInv, Height
<1>3. \A t \in Table, k \in Key :
         entries'[t][k] = IF k \in chain[pos + 1][t] THEN pos + 1 ELSE entries[t][k]
  BY <1>1 DEF BufferBlock
<1>4. PositionInv' /\ FlushedInv'
  BY <1>1, <1>2 DEF PositionInv, FlushedInv, dbVars
<1>5. ASSUME NEW t \in Table, NEW k \in Key
      PROVE  /\ entries'[t][k] > 0 => Shows(entries[t][k], t, k, pos)'
             /\ entries'[t][k] = 0 => \A b \in (cursor' + 1) .. pos' : k \notin chain'[b][t]
  <2>1. CASE k \in chain[pos + 1][t]
    BY <1>1, <1>2, <1>3, <2>1 DEF Shows, Replica!Shows, dbVars
  <2>2. CASE k \notin chain[pos + 1][t]
    <3>1. entries'[t][k] = entries[t][k] /\ entries[t][k] \in Nat
      BY <1>2, <1>3, <2>2 DEF Height
    <3>2. \A b \in Nat : b <= pos + 1 => b <= pos \/ k \notin chain[b][t]
      BY <1>2, <2>2
    <3>3. ASSUME entries[t][k] > 0 PROVE Shows(entries[t][k], t, k, pos)'
      <4>1. Shows(entries[t][k], t, k, pos)
        BY <3>3 DEF IInv, BufferInv
      <4>2. entries[t][k] \in 0 .. pos'
        BY <1>1, <1>2, <3>1, <4>1 DEF Shows, Replica!Shows
      <4>3. \A b \in (entries[t][k] + 1) .. pos' : k \notin chain[b][t]
        BY <1>1, <1>2, <3>1, <3>2, <4>1 DEF Shows, Replica!Shows
      <4> QED BY <1>1, <3>1, <4>1, <4>2, <4>3 DEF Shows, Replica!Shows
    <3>4. entries[t][k] = 0 => \A b \in (cursor + 1) .. pos' : k \notin chain[b][t]
      BY <1>1, <1>2, <3>2 DEF IInv, BufferInv
    <3> QED BY <1>1, <3>1, <3>3, <3>4 DEF dbVars
  <2> QED BY <2>1, <2>2
<1>6. BufferInv'
  BY <1>5 DEF BufferInv
<1>7. CopiesInv'
  <2>1. SUFFICES ASSUME ~Trouble', NEW t \in Table, NEW k \in Key
                 PROVE  /\ entries'[t][k] > 0 => entries'[t][k] > cursor
                        /\ copies[t][k] <= Cardinality(WritersUpTo(t, k, cursor))
    BY <1>1 DEF CopiesInv, WritersUpTo, dbVars
  <2>2. /\ entries[t][k] > 0 => entries[t][k] > cursor
        /\ copies[t][k] <= Cardinality(WritersUpTo(t, k, cursor))
    BY <1>1, <2>1 DEF IInv, CopiesInv, Trouble
  <2> QED BY <1>2, <1>3, <2>2
<1> QED BY <1>1, <1>4, <1>6, <1>7, QuietIInv DEF IInv

\* A block that is refused, a crash, a flush that gives up before the database changed.
LEMMA EndIInv ==
    ASSUME IInv, TypeOK',
           \/ RejectBlock \/ Crash
           \/ \E t \in Table : ConversionFails(t)
    PROVE  IInv'
<1>1. UNCHANGED <<chain, refused, dbVars>>
  BY DEF RejectBlock, Crash, ConversionFails
<1>2. PositionInv' /\ BufferInv' /\ FlushedInv'
  <2>1. CASE RejectBlock \/ Crash
    <3>1. GoDown /\ cursor' \in Height /\ cursor' <= ahead'
      BY <1>1, <2>1 DEF RejectBlock, Crash, dbVars, IInv, TypeOK, PositionInv
    <3>2. PositionInv'
      BY <3>1, GoDownTyped DEF PositionInv
    <3> QED BY <3>1, <3>2, DownProcess
  <2>2. CASE \E t \in Table : ConversionFails(t)
    <3>1. phase = "flush" /\ Retry /\ cursor' = cursor /\ cursor' <= ahead'
      BY <1>1, <2>2 DEF ConversionFails, dbVars, IInv, PositionInv
    <3> QED BY <1>1, <3>1, RetryProcess DEF TypeOK
  <2> QED BY <2>1, <2>2
<1>3. CopiesInv'
  <2>1. CASE RejectBlock
    <3>1. \A t \in Table, k \in Key : entries'[t][k] = 0
      BY <2>1, GoDownTyped DEF RejectBlock, NoRows
    <3>2. phase = "idle" /\ phase' = "down" /\ faults' = faults
      BY <2>1, GoDownTyped DEF RejectBlock
    <3> QED BY <1>1, <3>1, <3>2 DEF IInv, CopiesInv, Trouble, WritersUpTo, dbVars
  <2>2. CASE Crash
    BY <2>2 DEF Crash, CopiesInv, Trouble, IInv, TypeOK
  <2>3. CASE \E t \in Table : ConversionFails(t)
    <3>1. refused'.unconvertible # {}
      BY <1>1, <2>3 DEF ConversionFails, Convertible
    <3> QED BY <3>1 DEF CopiesInv, Trouble
  <2> QED BY <2>1, <2>2, <2>3
<1> QED BY <1>1, <1>2, <1>3, QuietIInv DEF IInv

LEMMA RangeCompletionIInv ==
    ASSUME IInv, TypeOK', RangeCompletion \/ Finished \/ UNCHANGED vars
    PROVE  IInv'
<1>1. UNCHANGED <<chain, refused, dbVars, pos, entries, faults>>
  BY DEF RangeCompletion, Finished, vars, processVars
<1>2. \/ phase = "idle" /\ phase' = "flush" /\ todo' = Table
      \/ UNCHANGED <<phase, todo>>
  BY DEF RangeCompletion, Finished, vars, processVars
<1>3. PositionInv'
  BY <1>1, <1>2 DEF IInv, PositionInv, dbVars
<1>4. BufferInv'
  BY <1>1 DEF IInv, BufferInv, Shows, Replica!Shows, dbVars
<1>5. FlushedInv'
  BY <1>1, <1>2 DEF IInv, FlushedInv, Replica!CellBetween, Replica!Shows, dbVars
<1>6. CopiesInv'
  BY <1>1, <1>2 DEF IInv, CopiesInv, Trouble, WritersUpTo, dbVars
<1> QED BY <1>1, <1>3, <1>4, <1>5, <1>6, QuietIInv DEF IInv

\* A table is committed; whether its answer is lost or not, its cells reach the block.
LEMMA RowsIInv ==
    ASSUME IInv, TypeOK', NEW t \in Table, phase = "flush", Convertible(t), CommitRows(t),
           UNCHANGED <<chain, refused, cursor>>
    PROVE  NeverBehindCursor' /\ OnlyConvertible'
<1> USE ClickhouseAssumption DEF ClickhouseAssumption
<1>1. /\ pos \in Height /\ cursor \in Height /\ ahead \in Height /\ ahead' \in Height
      /\ stored \in [Table -> [Key -> Height]] /\ stored' \in [Table -> [Key -> Height]]
      /\ cursor <= pos
  BY CommitRowsTyped DEF IInv, TypeOK, PositionInv
<1>2. ASSUME NEW u \in Table, NEW k \in Key
      PROVE  Replica!CellBetween(stored'[u][k], u, k, cursor, ahead')
  <2>1. CASE u = t
    <3>1. Replica!CellBetween(stored'[u][k], u, k, pos, ahead')
      BY <2>1, CommitRowsMoves
    <3>2. stored'[u][k] \in Height /\ ahead' <= ahead'
      BY <1>1 DEF Height
    <3> QED BY <1>1, <3>1, <3>2, CellWidens
  <2>2. CASE u # t
    <3>1. stored'[u][k] = stored[u][k] /\ ahead <= ahead' /\ stored[u][k] \in Height
      BY <1>1, <2>2, CommitRowsMoves
    <3>2. Replica!CellBetween(stored[u][k], u, k, cursor, ahead)
      BY DEF IInv, NeverBehindCursor, Replica!TablesBetween
    <3>3. cursor <= cursor
      BY <1>1 DEF Height
    <3> QED BY <1>1, <3>1, <3>2, <3>3, CellWidens
  <2> QED BY <2>1, <2>2
<1>3. NeverBehindCursor'
  BY <1>2 DEF NeverBehindCursor, Replica!TablesBetween, Replica!CellBetween, Replica!Shows
<1>4. OnlyConvertible'
  <2>1. ASSUME NEW u \in Table, NEW k \in Key PROVE stored'[u][k] \notin refused.unconvertible
    BY CommitRowsMoves DEF IInv, OnlyConvertible
  <2> QED BY <2>1 DEF OnlyConvertible
<1> QED BY <1>3, <1>4

LEMMA CommitTableIInv ==
    ASSUME IInv, TypeOK', NEW t \in Table, CommitTable(t)
    PROVE  IInv'
<1> USE ClickhouseAssumption DEF ClickhouseAssumption
<1>1. /\ phase = "flush" /\ phase' = "flush" /\ t \in todo /\ todo' = todo \ {t}
      /\ Convertible(t) /\ CommitRows(t)
      /\ UNCHANGED <<chain, refused, pos, entries, cursor, faults>>
  BY DEF CommitTable
<1>2. /\ pos \in Height /\ cursor \in Height /\ ahead \in Height /\ ahead' \in Height
      /\ stored \in [Table -> [Key -> Height]] /\ cursor <= pos /\ cursor <= ahead
      /\ pos <= ahead' /\ ahead <= ahead'
  BY <1>1, CommitRowsTyped, CommitRowsMoves DEF IInv, TypeOK, PositionInv
<1>3. PositionInv'
  BY <1>1, <1>2 DEF PositionInv, Height
<1>4. BufferInv'
  BY <1>1 DEF IInv, BufferInv, Shows, Replica!Shows
<1>5. FlushedInv'
  <2>1. ASSUME NEW u \in Table \ todo', NEW k \in Key
        PROVE  Replica!CellBetween(stored'[u][k], u, k, pos, ahead')
    <3>1. CASE u = t
      BY <1>1, <3>1, CommitRowsMoves
    <3>2. CASE u # t
      <4>1. /\ u \in Table \ todo /\ stored'[u][k] = stored[u][k] /\ stored[u][k] \in Height
            /\ pos <= pos
        BY <1>1, <1>2, <2>1, <3>2, CommitRowsMoves DEF Height
      <4>2. Replica!CellBetween(stored[u][k], u, k, pos, ahead)
        BY <1>1, <4>1 DEF IInv, FlushedInv
      <4> QED BY <1>2, <4>1, <4>2, CellWidens
    <3> QED BY <3>1, <3>2
  <2> QED BY <1>1, <2>1 DEF FlushedInv, Replica!CellBetween, Replica!Shows
<1>6. CopiesInv'
  <2>1. SUFFICES ASSUME ~Trouble', NEW u \in Table, NEW k \in Key
                 PROVE  /\ entries[u][k] > 0 => entries[u][k] > cursor
                        /\ copies'[u][k] <= Cardinality(WritersUpTo(u, k,
                                IF u \notin todo' THEN pos ELSE cursor))
    BY <1>1 DEF CopiesInv, WritersUpTo
  <2>2. /\ entries[u][k] > 0 => entries[u][k] > cursor
        /\ copies[u][k] <= Cardinality(WritersUpTo(u, k,
                IF u \notin todo THEN pos ELSE cursor))
    BY <1>1, <2>1 DEF IInv, CopiesInv, Trouble
  <2>3. CASE u # t
    <3>1. copies'[u][k] = copies[u][k] /\ (u \in todo <=> u \in todo')
      BY <1>1, <2>3, CommitRowsMoves
    <3> QED BY <2>2, <3>1
  <2>4. CASE u = t
    <3>1. /\ u \notin todo' /\ u \in todo /\ copies[u][k] \in Nat
          /\ copies'[u][k] = IF entries[u][k] > 0 /\ copies[u][k] < MaxCopies
                             THEN copies[u][k] + 1 ELSE copies[u][k]
      BY <1>1, <2>4 DEF CommitRows, IInv, TypeOK
    <3>2. cursor \in Nat /\ pos \in Nat /\ cursor <= pos
      BY <1>2 DEF Height
    <3>3. copies[u][k] <= Cardinality(WritersUpTo(u, k, cursor))
      BY <2>2, <3>1
    <3>4. CASE entries[u][k] > 0
      <4>1. Shows(entries[u][k], u, k, pos)
        BY <3>4 DEF IInv, BufferInv
      <4>2. entries[u][k] \in (cursor + 1) .. pos /\ k \in chain[entries[u][k]][u]
        BY <2>2, <3>2, <3>4, <4>1 DEF Shows, Replica!Shows
      <4>3. Cardinality(WritersUpTo(u, k, cursor)) + 1 <= Cardinality(WritersUpTo(u, k, pos))
        BY <3>2, <4>2, WritersCount
      <4>4. /\ Cardinality(WritersUpTo(u, k, cursor)) \in Nat
            /\ Cardinality(WritersUpTo(u, k, pos)) \in Nat
        BY <3>2, WritersCount
      <4> QED BY <2>2, <3>1, <3>3, <4>3, <4>4
    <3>5. CASE ~(entries[u][k] > 0)
      <4>1. /\ Cardinality(WritersUpTo(u, k, cursor)) \in Nat
            /\ Cardinality(WritersUpTo(u, k, pos)) \in Nat
            /\ Cardinality(WritersUpTo(u, k, cursor)) <= Cardinality(WritersUpTo(u, k, pos))
        BY <3>2, WritersCount
      <4> QED BY <3>1, <3>3, <3>5, <4>1
    <3> QED BY <3>4, <3>5
  <2> QED BY <2>3, <2>4
<1> QED BY <1>1, <1>3, <1>4, <1>5, <1>6, RowsIInv DEF IInv

LEMMA TableFailsIInv ==
    ASSUME IInv, TypeOK', NEW t \in Table, NEW applied \in BOOLEAN, TableFails(t, applied)
    PROVE  IInv'
<1>1. /\ phase = "flush" /\ Retry /\ faults' = faults + 1
      /\ UNCHANGED <<chain, refused, cursor>>
      /\ \/ Convertible(t) /\ CommitRows(t)
         \/ UNCHANGED <<stored, copies, ahead>>
  BY DEF TableFails
<1>2. NeverBehindCursor' /\ OnlyConvertible'
  <2>1. CASE Convertible(t) /\ CommitRows(t)
    BY <1>1, <2>1, RowsIInv
  <2>2. CASE UNCHANGED <<stored, copies, ahead>>
    BY <1>1, <2>2, QuietIInv DEF dbVars
  <2> QED BY <1>1, <2>1, <2>2
<1>3. cursor' \in Height /\ ahead' \in Height /\ cursor' <= ahead'
  <2>1. cursor \in Nat /\ ahead \in Nat /\ ahead' \in Nat /\ cursor <= ahead
    BY DEF IInv, TypeOK, PositionInv, Height
  <2>2. ahead <= ahead'
    BY <1>1, <2>1, CommitRowsMoves
  <2> QED BY <1>1, <2>1, <2>2 DEF TypeOK
<1>4. PositionInv' /\ BufferInv' /\ FlushedInv'
  BY <1>1, <1>3, RetryProcess
<1>5. CopiesInv'
  BY <1>1 DEF CopiesInv, Trouble, IInv, TypeOK
<1> QED BY <1>2, <1>4, <1>5 DEF IInv

\* The cursor moves once every table is committed: no cell is behind it.
LEMMA CursorMoves ==
    ASSUME IInv, phase = "flush", todo = {}
    PROVE  /\ pos \in Height /\ ahead \in Height /\ cursor \in Height
           /\ pos <= ahead /\ cursor <= pos
           /\ Replica!TablesBetween(stored, pos, ahead)
  BY ClickhouseAssumption
     DEF IInv, TypeOK, PositionInv, FlushedInv, Replica!TablesBetween, ClickhouseAssumption

LEMMA UpdateCursorIInv == ASSUME IInv, TypeOK', UpdateCursor PROVE IInv'
<1> USE ClickhouseAssumption DEF ClickhouseAssumption
<1>1. /\ phase = "flush" /\ todo = {} /\ phase' = "idle" /\ cursor' = pos /\ pos' = pos
      /\ entries' = NoRows
      /\ UNCHANGED <<chain, refused, todo, stored, copies, faults>>
      /\ ahead' = IF pos > ahead THEN pos ELSE ahead
  BY DEF UpdateCursor
<1>2. /\ pos \in Height /\ ahead' = ahead /\ cursor' <= ahead'
      /\ Replica!TablesBetween(stored, pos, ahead)
      /\ \A t \in Table, k \in Key : entries'[t][k] = 0
  BY <1>1, CursorMoves DEF Height, NoRows
<1>3. PositionInv' /\ FlushedInv'
  BY <1>1, <1>2 DEF PositionInv, FlushedInv, Height
<1>4. BufferInv'
  BY <1>1, <1>2 DEF BufferInv, Height
<1>5. NeverBehindCursor'
  BY <1>1, <1>2 DEF NeverBehindCursor, Replica!TablesBetween, Replica!CellBetween,
                    Replica!Shows
<1>6. OnlyConvertible'
  BY <1>1 DEF IInv, OnlyConvertible
<1>7. CopiesInv'
  BY <1>1, <1>2 DEF IInv, CopiesInv, Trouble, WritersUpTo
<1> QED BY <1>3, <1>4, <1>5, <1>6, <1>7 DEF IInv

LEMMA CursorFailsIInv ==
    ASSUME IInv, TypeOK', NEW applied \in BOOLEAN, CursorFails(applied)
    PROVE  IInv'
<1>1. /\ phase = "flush" /\ todo = {} /\ Retry /\ faults' = faults + 1
      /\ UNCHANGED <<chain, refused, stored, copies>>
      /\ \/ cursor' = pos /\ ahead' = IF pos > ahead THEN pos ELSE ahead
         \/ UNCHANGED <<cursor, ahead>>
  BY DEF CursorFails
<1>2. /\ cursor' \in {cursor, pos} /\ ahead' = ahead /\ cursor' <= ahead'
      /\ Replica!TablesBetween(stored, pos, ahead)
  BY <1>1, CursorMoves DEF Height, IInv, PositionInv
<1>3. PositionInv' /\ BufferInv' /\ FlushedInv'
  BY <1>1, <1>2, RetryProcess DEF TypeOK
<1>4. Replica!TablesBetween(stored, cursor', ahead)
  BY <1>2 DEF IInv, NeverBehindCursor
<1>5. NeverBehindCursor'
  BY <1>1, <1>2, <1>4 DEF NeverBehindCursor, Replica!TablesBetween, Replica!CellBetween,
                          Replica!Shows
<1>6. OnlyConvertible'
  BY <1>1 DEF IInv, OnlyConvertible
<1>7. CopiesInv'
  BY <1>1 DEF CopiesInv, Trouble, IInv, TypeOK
<1> QED BY <1>3, <1>5, <1>6, <1>7 DEF IInv

LEMMA NextIInv == IInv /\ [Next]_vars => IInv'
<1> SUFFICES ASSUME IInv, [Next]_vars PROVE IInv'
  OBVIOUS
<1>0. TypeOK'
  BY NextTypeOK DEF IInv
<1>1. CASE Run
  BY <1>0, <1>1, RunIInv
<1>2. ASSUME NEW due \in BOOLEAN, HandleBlock(due) PROVE IInv'
  BY <1>0, <1>2, HandleBlockIInv
<1>3. CASE RejectBlock \/ Crash \/ (\E t \in Table : ConversionFails(t))
  BY <1>0, <1>3, EndIInv
<1>4. CASE RangeCompletion \/ Finished \/ UNCHANGED vars
  BY <1>0, <1>4, RangeCompletionIInv
<1>5. ASSUME NEW t \in Table, CommitTable(t) PROVE IInv'
  BY <1>0, <1>5, CommitTableIInv
<1>6. CASE UpdateCursor
  BY <1>0, <1>6, UpdateCursorIInv
<1>7. ASSUME NEW t \in Table, NEW applied \in BOOLEAN, TableFails(t, applied) PROVE IInv'
  BY <1>0, <1>7, TableFailsIInv
<1>8. ASSUME NEW applied \in BOOLEAN, CursorFails(applied) PROVE IInv'
  BY <1>0, <1>8, CursorFailsIInv
<1> QED BY <1>1, <1>2, <1>3, <1>4, <1>5, <1>6, <1>7, <1>8 DEF Next, Progress, Flush

LEMMA FlushInvariant == Spec => []IInv
  BY InitIInv, NextIInv, PTL DEF Spec

-----------------------------------------------------------------------------
(* Theorems *)

LEMMA CopiesCounted == IInv => CopiesBounded
<1> SUFFICES ASSUME IInv, ~Trouble, NEW t \in Table, NEW k \in Key
             PROVE  copies[t][k] <= Cardinality({b \in 1 .. StopBlock : k \in chain[b][t]})
  BY DEF CopiesBounded, Trouble
<1> DEFINE h == IF phase = "flush" /\ t \notin todo THEN pos ELSE cursor
<1>1. h \in Nat /\ StopBlock \in Nat /\ h <= StopBlock /\ copies[t][k] \in Nat
  BY ClickhouseAssumption DEF IInv, TypeOK, Height, ClickhouseAssumption
<1>2. copies[t][k] <= Cardinality(WritersUpTo(t, k, h))
  BY DEF IInv, CopiesInv
<1> HIDE DEF h
<1>3. /\ Cardinality(WritersUpTo(t, k, h)) \in Nat
      /\ Cardinality(WritersUpTo(t, k, StopBlock)) \in Nat
      /\ Cardinality(WritersUpTo(t, k, h)) <= Cardinality(WritersUpTo(t, k, StopBlock))
  BY <1>1, WritersCount
<1>4. copies[t][k] <= Cardinality(WritersUpTo(t, k, StopBlock))
  BY <1>1, <1>2, <1>3
<1> QED BY <1>4 DEF WritersUpTo

\* For every chain, number of tables and sequence of failures, retries and restarts: no
\* cell is behind the cursor that is stored, no refused value is inserted, and without a
\* fault no row is inserted twice (tables are committed one by one and the cursor last).
THEOREM CellsSafe == Spec => []CellsFollowCursor
<1>1. IInv => CellsFollowCursor
  BY CopiesCounted DEF IInv, CellsFollowCursor
<1> QED BY <1>1, FlushInvariant, PTL

LEMMA InitImplements == Init => Replica!Init
  BY DEF Init, Replica!Init, NoRows

\* A batch is a Write of the abstract specification, the cursor a Commit.
LEMMA NextImplements == IInv /\ IInv' /\ [Next]_vars => [Replica!Next]_(Replica!vars)
<1> SUFFICES ASSUME IInv, IInv', [Next]_vars PROVE [Replica!Next]_(Replica!vars)
  OBVIOUS
<1>1. CASE UNCHANGED <<chain, dbVars>>
  BY <1>1 DEF dbVars, Replica!vars
<1>2. ASSUME NEW t \in Table, phase = "flush", Convertible(t), CommitRows(t),
             UNCHANGED <<chain, refused, cursor>>
      PROVE  Replica!Write
  <2>1. /\ ahead \in Height /\ ahead' \in Height /\ ahead <= ahead'
        /\ stored' \in [Table -> [Key -> Height]]
    BY <1>2, CommitRowsTyped, CommitRowsMoves DEF IInv, TypeOK
  <2>2. ahead' \in ahead .. StopBlock /\ Height = Replica!Height
    BY <2>1, ClickhouseAssumption DEF Height, Replica!Height, ClickhouseAssumption
  <2>3. Replica!TablesBetween(stored', cursor, ahead')
    BY <1>2 DEF IInv, NeverBehindCursor, Replica!TablesBetween, Replica!CellBetween,
                Replica!Shows
  <2> QED BY <1>2, <2>1, <2>2, <2>3 DEF Replica!Write
<1>3. ASSUME phase = "flush", todo = {}, cursor' = pos, UNCHANGED <<chain, stored>>,
             ahead' = IF pos > ahead THEN pos ELSE ahead
      PROVE  Replica!Commit(pos) \/ UNCHANGED Replica!vars
  <2>1. /\ pos \in Height /\ ahead' = ahead /\ cursor \in Height /\ pos <= ahead
        /\ cursor <= pos /\ Replica!TablesBetween(stored, pos, ahead)
    BY <1>3, CursorMoves DEF Height
  <2>2. CASE pos > cursor
    BY <1>3, <2>1, <2>2 DEF Replica!Commit
  <2>3. CASE pos = cursor
    BY <1>3, <2>1, <2>3 DEF Replica!vars
  <2> QED BY <2>1, <2>2, <2>3 DEF Height
<1>4. \A b \in Height : Replica!Commit(b) => Replica!Next
  BY DEF Replica!Next, Height, Replica!Height
<1>5. ASSUME NEW t \in Table, CommitTable(t) PROVE [Replica!Next]_(Replica!vars)
  BY <1>2, <1>5 DEF CommitTable, Replica!Next
<1>6. ASSUME NEW t \in Table, NEW applied \in BOOLEAN, TableFails(t, applied)
      PROVE  [Replica!Next]_(Replica!vars)
  <2>1. /\ phase = "flush" /\ UNCHANGED <<chain, refused, cursor>>
        /\ \/ Convertible(t) /\ CommitRows(t)
           \/ UNCHANGED <<stored, ahead>>
    BY <1>6 DEF TableFails
  <2> QED BY <1>2, <2>1 DEF Replica!Next, Replica!vars
<1>7. CASE UpdateCursor
  <2>1. pos \in Height
    BY DEF IInv, TypeOK
  <2> QED BY <1>3, <1>4, <1>7, <2>1 DEF UpdateCursor
<1>8. ASSUME NEW applied \in BOOLEAN, CursorFails(applied)
      PROVE  [Replica!Next]_(Replica!vars)
  <2>1. /\ phase = "flush" /\ todo = {} /\ UNCHANGED <<chain, stored>> /\ pos \in Height
        /\ \/ cursor' = pos /\ ahead' = IF pos > ahead THEN pos ELSE ahead
           \/ UNCHANGED <<cursor, ahead>>
    BY <1>8 DEF CursorFails, IInv, TypeOK
  <2> QED BY <1>3, <1>4, <2>1 DEF Replica!vars
<1>9. CASE \/ Run \/ (\E due \in BOOLEAN : HandleBlock(due)) \/ RejectBlock
           \/ RangeCompletion \/ (\E t \in Table : ConversionFails(t)) \/ Crash \/ Finished
           \/ UNCHANGED vars
  BY <1>1, <1>9 DEF Run, HandleBlock, RejectBlock, RangeCompletion, ConversionFails, Crash,
                    Finished, vars, dbVars
<1> QED BY <1>5, <1>6, <1>7, <1>8, <1>9 DEF Next, Progress, Flush

\* The tables and the cursor implement LaggingReplica: cells move on their own, but the
\* cursor passes a block only once no cell is behind it, whatever is retried or restarted.
THEOREM RefinesLaggingReplica == Spec => LaggingReplicaSpec
  BY InitImplements, NextImplements, FlushInvariant, PTL
     DEF Spec, LaggingReplicaSpec, Replica!Spec
=============================================================================
