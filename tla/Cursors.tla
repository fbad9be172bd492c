------------------------------- MODULE Cursors -------------------------------
(***************************************************************************)
(* The cursors table of the `run` command and what SQLSinker.Run makes of  *)
(* it (db_changes/db/cursor.go, the first part of Run in                   *)
(* db_changes/sinker/sinker.go).  The table has one row per module hash;   *)
(* the user tables are shared by all of them.  The operator deploys one    *)
(* package after the other on the same database.                           *)
(*                                                                         *)
(* Flush and Revert are the transactions of SqlSinker; here only what they *)
(* do to the cursor row, and the block the tables stand at, matters.       *)
(***************************************************************************)
EXTENDS Integers, FiniteSets

CONSTANTS
    Hash,                  \* module hashes of the packages
    Policies,              \* the ways the sink may be operated
    LastBlock,             \* bound: blocks of the chain
    MaxDeploys,            \* bound: changes of package
    MaxCrashes             \* bound: crashes

Block == 0..LastBlock
NoCursor == -1

\* How the sink is operated: --on-module-hash-mistmatch, whether an earlier
\* package may be deployed again, and how many blocks an undo may go back.
Policy == [mismatch : {"ignore", "warn", "error"}, rollbacks : BOOLEAN, undoDepth : Nat]

ASSUME CursorsAssumption ==
    /\ Hash # {}
    /\ Policies \subseteq Policy
    /\ LastBlock \in Nat \ {0}
    /\ MaxDeploys \in Nat
    /\ MaxCrashes \in Nat

VARIABLES
    policy,    \* the policy of this operator; it never changes
    cursors,   \* the cursors table: block of the row of each module hash
    at,        \* the block the user tables stand at
    me,        \* OutputModuleHash of the deployed package
    used,      \* the packages deployed so far
    phase,     \* "down", "insert" (in Run, before InsertCursor) or "running"
    pos,       \* the block the process has reached
    deploys, crashes

vars == <<policy, cursors, at, me, used, phase, pos, deploys, crashes>>

TypeOK ==
    /\ policy \in Policies
    /\ cursors \in [Hash -> Block \cup {NoCursor}]
    /\ at \in Block
    /\ me \in Hash
    /\ used \in SUBSET Hash
    /\ phase \in {"down", "insert", "running"}
    /\ pos \in Block
    /\ deploys \in 0..MaxDeploys
    /\ crashes \in 0..MaxCrashes

-----------------------------------------------------------------------------
\* The module hashes GetAllCursors returns.
GetAllCursors == {h \in Hash : cursors[h] # NoCursor}

\* Mutant: the cursor at the lowest block.
CursorAtLowestBlock ==
    {cursors[h] : h \in {g \in GetAllCursors :
                           \A i \in GetAllCursors : cursors[i] >= cursors[g]}}

\* The block of the cursor that cursorAtHighestBlock picks.
CursorAtHighestBlock ==
    {cursors[h] : h \in {g \in GetAllCursors :
                           \A i \in GetAllCursors : cursors[i] <= cursors[g]}}

\* GetCursor: is a mismatch an error?
Refuses == policy.mismatch = "error"

\* Mutant: the blank cursor is not written.
NeedsInsertMismatch == cursors[me] = NoCursor /\ GetAllCursors # {}

\* Run: UpdateCursor only updates, so the row of a new hash is written first,
\* with the blank cursor or with the one GetCursor took over.
NeedsInsert == cursors[me] = NoCursor

\* Mutant: the row of our hash is used without checking that there is one.
GetCursorUnchecked == IF GetAllCursors = {} THEN {0} ELSE {cursors[me]}

\* The cursors GetCursor may return: the blank one, the one of our hash, or
\* one at the highest block.
GetCursor ==
    IF GetAllCursors = {} THEN {0}
    ELSE IF me \in GetAllCursors THEN {cursors[me]}
    ELSE IF Refuses THEN {} ELSE CursorAtHighestBlock

\* Run with the cursor b of GetCursor, up to the point where the row of our
\* hash is known to exist.
Run(b) ==
    /\ phase = "down"
    /\ pos' = b
    /\ phase' = IF NeedsInsert THEN "insert" ELSE "running"
    /\ UNCHANGED <<policy, cursors, at, me, used, deploys, crashes>>

\* GetCursor returns an error: Run shuts the sinker down.
RunRefused ==
    /\ phase = "down"
    /\ GetCursor = {}
    /\ UNCHANGED vars

InsertCursor ==
    /\ phase = "insert"
    /\ cursors' = [cursors EXCEPT ![me] = pos]
    /\ phase' = "running"
    /\ UNCHANGED <<policy, at, me, used, pos, deploys, crashes>>

\* UpdateCursor inside the transaction of a Flush or Revert that takes the
\* tables to block b.  An UPDATE that finds no row is ErrCursorNotFound: the
\* transaction is rolled back and the sinker ends.
UpdateCursor(b) ==
    IF cursors[me] = NoCursor
    THEN /\ phase' = "down"
         /\ pos' = 0
         /\ UNCHANGED <<cursors, at>>
    ELSE /\ cursors' = [cursors EXCEPT ![me] = b]
         /\ at' = b
         /\ pos' = b
         /\ UNCHANGED phase

\* Loader.Flush at block b.
Flush(b) ==
    /\ phase = "running"
    /\ b > pos
    /\ UpdateCursor(b)
    /\ UNCHANGED <<policy, me, used, deploys, crashes>>

\* Loader.Revert to block b.
Revert(b) ==
    /\ phase = "running"
    /\ b < pos
    /\ b >= pos - policy.undoDepth
    /\ UpdateCursor(b)
    /\ UNCHANGED <<policy, me, used, deploys, crashes>>

\* The process dies, is stopped, or ends on a SQL error, which rolls back.
Crash ==
    /\ phase # "down"
    /\ crashes < MaxCrashes
    /\ crashes' = crashes + 1
    /\ phase' = "down"
    /\ pos' = 0
    /\ UNCHANGED <<policy, cursors, at, me, used, deploys>>

\* The operator stops the sink and installs another package.
Deploy(h) ==
    /\ h # me
    /\ policy.rollbacks \/ h \notin used
    /\ deploys < MaxDeploys
    /\ deploys' = deploys + 1
    /\ me' = h
    /\ used' = used \cup {h}
    /\ phase' = "down"
    /\ pos' = 0
    /\ UNCHANGED <<policy, cursors, at, crashes>>

\* The process waits for blocks that do not come any more.
Idle == phase = "running" /\ pos = LastBlock /\ UNCHANGED vars

Init ==
    /\ policy \in Policies
    /\ cursors = [h \in Hash |-> NoCursor]
    /\ at = 0
    /\ me \in Hash
    /\ used = {me}
    /\ phase = "down"
    /\ pos = 0
    /\ deploys = 0
    /\ crashes = 0

Next ==
    \/ \E b \in GetCursor : Run(b)
    \/ RunRefused
    \/ InsertCursor
    \/ \E b \in Block : Flush(b)
    \/ \E b \in Block : Revert(b)
    \/ Crash
    \/ \E h \in Hash : Deploy(h)
    \/ Idle

Spec == Init /\ [][Next]_vars

-----------------------------------------------------------------------------
(* Properties.                                                             *)

\* The policies under which a cursor can be trusted: a new package is refused
\* on the tables of another, or packages are only ever upgraded and blocks
\* never undone.
SafePolicy == Refuses \/ (~policy.rollbacks /\ policy.undoDepth = 0)

\* A process that runs stands where the tables stand: under a safe policy,
\* whatever packages were deployed before, the cursor GetCursor took over
\* makes the sink neither skip nor repeat a block.
ResumesAtTables == SafePolicy /\ phase = "running" => pos = at

\* The row UpdateCursor updates exists, at the block the process has reached:
\* under every policy Run has written it before the first flush, also after a
\* mismatch.
UpdateFindsRow == phase = "running" => cursors[me] = pos
=============================================================================
