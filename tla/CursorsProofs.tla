--------------------------- MODULE CursorsProofs ---------------------------
(* Theorems about Cursors.                                                 *)
EXTENDS Cursors, TLAPS

\* The rows and the tables agree: no row is ahead of the tables, one is level
\* with them, and so is the row of the deployed package if it has one.
RowsInv ==
    /\ me \in used /\ GetAllCursors \subseteq used
    /\ GetAllCursors = {} => at = 0
    /\ \A h \in GetAllCursors : cursors[h] <= at
    /\ GetAllCursors # {} => \E h \in GetAllCursors : cursors[h] = at
    /\ me \in GetAllCursors => cursors[me] = at

\* A package that is not refused takes the place of the only one before it.
RefusesInv ==
    Refuses => \A g, h \in GetAllCursors : g = h

\* The process, while it lives, stands where the tables stand.
ProcessInv ==
    /\ phase = "insert" => /\ pos = at
                           /\ me \notin GetAllCursors
                           /\ Refuses => GetAllCursors = {}
    /\ phase = "running" => pos = at /\ me \in GetAllCursors

CInv == TypeOK /\ RowsInv /\ RefusesInv /\ ProcessInv

-----------------------------------------------------------------------------
\* The initial state satisfies the invariant: no row, tables at block 0.
LEMMA InitCInv == ASSUME Init PROVE CInv
  BY CursorsAssumption
     DEF Init, CInv, TypeOK, RowsInv, RefusesInv, ProcessInv, GetAllCursors, Block, NoCursor

\* The cursor GetCursor returns is level with the tables.
LEMMA GetCursorAtTables ==
    ASSUME CInv, NEW b \in GetCursor
    PROVE  b = at /\ (NeedsInsert <=> me \notin GetAllCursors)
                  /\ (NeedsInsert /\ Refuses => GetAllCursors = {})
<1>1. NeedsInsert <=> me \notin GetAllCursors
  BY DEF CInv, TypeOK, NeedsInsert, GetAllCursors
<1>2. CASE GetAllCursors = {}
  BY <1>1, <1>2 DEF CInv, RowsInv, GetCursor
<1>3. CASE me \in GetAllCursors
  BY <1>1, <1>3 DEF CInv, RowsInv, GetCursor
<1>4. CASE GetAllCursors # {} /\ me \notin GetAllCursors
  <2>1. ~Refuses /\ b \in CursorAtHighestBlock
    BY <1>4 DEF GetCursor
  <2>2. PICK g \in GetAllCursors :
               b = cursors[g] /\ \A i \in GetAllCursors : cursors[i] <= cursors[g]
    BY <2>1 DEF CursorAtHighestBlock
  <2>3. PICK h \in GetAllCursors : cursors[h] = at
    BY <1>4 DEF CInv, RowsInv
  <2>4. cursors[g] \in Int /\ at \in Int
    BY CursorsAssumption DEF CInv, TypeOK, GetAllCursors, Block, NoCursor
  <2>5. cursors[g] <= at /\ at <= cursors[g]
    BY <2>2, <2>3 DEF CInv, RowsInv
  <2> QED
    BY <1>1, <2>1, <2>2, <2>4, <2>5
<1> QED
  BY <1>2, <1>3, <1>4

\* Writing block b in the row of the deployed package, with the tables at b,
\* keeps the rows in step when no other row is ahead of b.
LEMMA WriteRow ==
    ASSUME CInv, TypeOK', NEW b \in Block,
           cursors' = [cursors EXCEPT ![me] = b], at' = b,
           UNCHANGED <<policy, me, used>>,
           \A h \in GetAllCursors \ {me} : cursors[h] <= b,
           Refuses => GetAllCursors \subseteq {me}
    PROVE  RowsInv' /\ RefusesInv' /\ me' \in GetAllCursors'
<1>1. me \in Hash /\ b # NoCursor /\ DOMAIN cursors = Hash
  BY CursorsAssumption DEF CInv, TypeOK, Block, NoCursor
<1>2. GetAllCursors' = GetAllCursors \cup {me}
  BY <1>1 DEF GetAllCursors, NoCursor
<1>3. \A h \in GetAllCursors' : cursors'[h] = IF h = me THEN b ELSE cursors[h]
  BY <1>1 DEF GetAllCursors
<1>4. RowsInv'
  BY <1>1, <1>2, <1>3, CursorsAssumption DEF RowsInv, CInv, Block
<1>5. RefusesInv'
  BY <1>2 DEF RefusesInv, Refuses
<1> QED
  BY <1>2, <1>4, <1>5

\* No step changes the policy.
LEMMA PolicyRigid == ASSUME [Next]_vars PROVE policy' = policy
  BY DEF Next, vars, Run, RunRefused, InsertCursor, Flush, Revert, Crash, Deploy, Idle

\* Every step keeps the types.
LEMMA NextTypeOK == ASSUME TypeOK, [Next]_vars PROVE TypeOK'
<1>1. ASSUME NEW b \in GetCursor, Run(b) PROVE TypeOK'
  <2>1. b \in Block
    BY <1>1, CursorsAssumption DEF GetCursor, CursorAtHighestBlock, GetAllCursors, TypeOK, Block
  <2> QED
    BY <1>1, <2>1 DEF Run, TypeOK
<1>2. CASE InsertCursor
  BY <1>2 DEF InsertCursor, TypeOK
<1>3. ASSUME NEW b \in Block, Flush(b) \/ Revert(b) PROVE TypeOK'
  BY <1>3, CursorsAssumption DEF Flush, Revert, UpdateCursor, TypeOK, Block
<1>4. CASE Crash
  BY <1>4, CursorsAssumption DEF Crash, TypeOK, Block
<1>5. ASSUME NEW h \in Hash, Deploy(h) PROVE TypeOK'
  BY <1>5, CursorsAssumption DEF Deploy, TypeOK, Block
<1>6. CASE UNCHANGED vars
  BY <1>6 DEF vars, TypeOK
<1> QED
  BY <1>1, <1>2, <1>3, <1>4, <1>5, <1>6 DEF Next, RunRefused, Idle

\* Under a safe policy every step keeps the invariant.
LEMMA NextCInv == ASSUME SafePolicy, CInv, [Next]_vars PROVE CInv'
<1>0. policy' = policy /\ Refuses \in BOOLEAN /\ (Refuses' <=> Refuses)
  BY PolicyRigid DEF Refuses
<1>1. ASSUME NEW b \in GetCursor, Run(b) PROVE CInv'
  <2>1. GetAllCursors' = GetAllCursors /\ UNCHANGED <<cursors, at, me, used>>
    BY <1>1 DEF Run, GetAllCursors
  <2>2. b = at /\ (NeedsInsert <=> me \notin GetAllCursors)
               /\ (NeedsInsert /\ Refuses => GetAllCursors = {})
    BY <1>1, GetCursorAtTables
  <2>3. TypeOK'
    BY <1>1, <2>2 DEF Run, CInv, TypeOK
  <2>4. RowsInv' /\ RefusesInv'
    BY <1>0, <2>1 DEF CInv, RowsInv, RefusesInv
  <2>5. ProcessInv'
    BY <1>0, <1>1, <2>1, <2>2 DEF Run, ProcessInv
  <2> QED
    BY <2>3, <2>4, <2>5 DEF CInv
<1>2. CASE InsertCursor
  <2>1. TypeOK'
    BY <1>2 DEF InsertCursor, CInv, TypeOK
  <2>2. /\ pos \in Block /\ pos = at /\ pos' = pos /\ at' = pos
        /\ cursors' = [cursors EXCEPT ![me] = pos]
        /\ UNCHANGED <<policy, me, used>> /\ phase' = "running"
        /\ Refuses => GetAllCursors = {}
    BY <1>2 DEF InsertCursor, CInv, TypeOK, ProcessInv
  <2>3. \A h \in GetAllCursors \ {me} : cursors[h] <= pos
    BY <2>2 DEF CInv, RowsInv
  <2>4. RowsInv' /\ RefusesInv' /\ me' \in GetAllCursors'
    BY <2>1, <2>2, <2>3, WriteRow
  <2>5. ProcessInv'
    BY <2>2, <2>4 DEF ProcessInv
  <2> QED
    BY <2>1, <2>4, <2>5 DEF CInv
<1>3. ASSUME NEW b \in Block, Flush(b) \/ Revert(b) PROVE CInv'
  <2>1. /\ phase = "running" /\ pos = at /\ me \in GetAllCursors
        /\ UNCHANGED <<policy, me, used, deploys, crashes>> /\ UpdateCursor(b)
        /\ b > at \/ (b < at /\ b >= at - policy.undoDepth)
    BY <1>3 DEF Flush, Revert, CInv, ProcessInv
  <2>2. /\ cursors' = [cursors EXCEPT ![me] = b] /\ at' = b /\ pos' = b
        /\ phase' = "running"
    BY <2>1 DEF UpdateCursor, GetAllCursors
  <2>3. TypeOK'
    BY <2>1, <2>2 DEF CInv, TypeOK
  <2>4. Refuses => GetAllCursors \subseteq {me}
    BY <2>1 DEF CInv, RefusesInv
  <2>5. \A h \in GetAllCursors \ {me} : cursors[h] <= b
    <3>1. CASE b > at
      <4>1. \A h \in GetAllCursors : cursors[h] \in Int /\ cursors[h] <= at
        BY CursorsAssumption DEF CInv, RowsInv, TypeOK, GetAllCursors, Block, NoCursor
      <4> QED
        BY <3>1, <4>1, CursorsAssumption DEF CInv, TypeOK, Block
    <3>2. CASE b < at
      <4>1. policy.undoDepth # 0
        BY <2>1, <3>2, CursorsAssumption DEF CInv, TypeOK, Block
      <4>2. Refuses
        BY <4>1 DEF SafePolicy
      <4> QED
        BY <2>4, <4>2
    <3> QED
      BY <2>1, <3>1, <3>2
  <2>6. RowsInv' /\ RefusesInv' /\ me' \in GetAllCursors'
    BY <2>1, <2>2, <2>3, <2>4, <2>5, WriteRow
  <2>7. ProcessInv'
    BY <2>2, <2>6 DEF ProcessInv
  <2> QED
    BY <2>3, <2>6, <2>7 DEF CInv
<1>4. CASE Crash
  BY <1>0, <1>4, CursorsAssumption
     DEF Crash, CInv, TypeOK, RowsInv, RefusesInv, ProcessInv, GetAllCursors, Block
<1>5. ASSUME NEW h \in Hash, Deploy(h) PROVE CInv'
  <2>1. /\ GetAllCursors' = GetAllCursors /\ UNCHANGED <<cursors, at>>
        /\ me' = h /\ used' = used \cup {h} /\ phase' = "down"
    BY <1>5 DEF Deploy, GetAllCursors
  <2>2. TypeOK'
    BY <1>5, CursorsAssumption DEF Deploy, CInv, TypeOK, Block
  <2>3. h \in GetAllCursors => cursors[h] = at
    <3>1. CASE Refuses
      BY <3>1 DEF CInv, RowsInv, RefusesInv
    <3>2. CASE ~policy.rollbacks
      BY <1>5, <3>2 DEF Deploy, CInv, RowsInv
    <3> QED
      BY <3>1, <3>2 DEF SafePolicy
  <2>4. RowsInv'
    BY <2>1, <2>3 DEF CInv, RowsInv
  <2>5. RefusesInv' /\ ProcessInv'
    BY <1>0, <2>1 DEF CInv, RefusesInv, ProcessInv
  <2> QED
    BY <2>2, <2>4, <2>5 DEF CInv
<1>6. CASE UNCHANGED vars
  BY <1>0, <1>6 DEF vars, CInv, TypeOK, RowsInv, RefusesInv, ProcessInv, GetAllCursors
<1> QED
  BY <1>1, <1>2, <1>3, <1>4, <1>5, <1>6 DEF Next, RunRefused, Idle

-----------------------------------------------------------------------------
\* The variables of Cursors keep their types.
THEOREM CursorsTyped == Spec => []TypeOK
<1>1. Init => TypeOK
  BY CursorsAssumption DEF Init, TypeOK, Block, NoCursor
<1>2. TypeOK /\ [Next]_vars => TypeOK'
  BY NextTypeOK
<1> QED
  BY <1>1, <1>2, PTL DEF Spec

\* Under a safe policy a sink that runs stands where the tables stand, for any
\* number of packages, deployments and crashes: the cursor GetCursor returns
\* neither skips nor repeats a block.
THEOREM CursorTrusted == Spec => []ResumesAtTables
<1> DEFINE I == SafePolicy => CInv
<1>1. Init => I
  BY InitCInv
<1>2. I /\ [Next]_vars => I'
  BY NextCInv, PolicyRigid DEF SafePolicy, Refuses
<1>3. I => ResumesAtTables
  BY DEF CInv, ProcessInv, ResumesAtTables
<1> QED
  BY <1>1, <1>2, <1>3, PTL DEF Spec

\* Under every policy the row UpdateCursor needs has been written by Run at the
\* block the process resumed from: a flush never fails with ErrCursorNotFound.
THEOREM RowWritten == Spec => []UpdateFindsRow
<1> DEFINE I == TypeOK /\ UpdateFindsRow
<1>1. Init => I
  BY CursorsAssumption DEF Init, TypeOK, UpdateFindsRow, Block, NoCursor
<1>2. ASSUME I, [Next]_vars PROVE I'
  <2>1. SUFFICES UpdateFindsRow'
    BY <1>2, NextTypeOK
  <2>2. ASSUME NEW b \in GetCursor, Run(b) PROVE UpdateFindsRow'
    <3>1. CASE cursors[me] = NoCursor
      BY <2>2, <3>1 DEF Run, NeedsInsert, UpdateFindsRow
    <3>2. CASE cursors[me] # NoCursor
      <4>1. me \in GetAllCursors
        BY <1>2, <3>2 DEF TypeOK, GetAllCursors
      <4>2. b = cursors[me]
        BY <2>2, <4>1 DEF GetCursor
      <4> QED
        BY <2>2, <4>2 DEF Run, UpdateFindsRow
    <3> QED
      BY <3>1, <3>2
  <2>3. CASE InsertCursor
    BY <1>2, <2>3 DEF InsertCursor, TypeOK, UpdateFindsRow
  <2>4. ASSUME NEW b \in Block, Flush(b) \/ Revert(b) PROVE UpdateFindsRow'
    BY <1>2, <2>4 DEF Flush, Revert, UpdateCursor, TypeOK, UpdateFindsRow
  <2>5. CASE Crash
    BY <2>5 DEF Crash, UpdateFindsRow
  <2>6. ASSUME NEW h \in Hash, Deploy(h) PROVE UpdateFindsRow'
    BY <2>6 DEF Deploy, UpdateFindsRow
  <2>7. CASE UNCHANGED vars
    BY <1>2, <2>7 DEF vars, UpdateFindsRow
  <2> QED
    BY <1>2, <2>2, <2>3, <2>4, <2>5, <2>6, <2>7 DEF Next, RunRefused, Idle
<1>3. I => UpdateFindsRow
  OBVIOUS
<1> QED
  BY <1>1, <1>2, <1>3, PTL DEF Spec
=============================================================================
