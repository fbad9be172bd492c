----------------------------- MODULE GenerateCsv -----------------------------
(***************************************************************************)
(* The generate-csv command: GenerateCSVSinker                             *)
(* (src/db_changes/sinker/generate_csv_sinker.go) dumps the CREATE changes *)
(* of each block into one Bundler per table (src/db_changes/bundler), which *)
(* cuts the lines into files of BundleSize blocks; the files are uploaded  *)
(* by background workers, and so is state.yaml, the cursor a restarted     *)
(* process resumes from (src/db_changes/state/file.go).  The upload of a   *)
(* file may fail: its bundler shuts down, the command does not hear of it. *)
(*                                                                         *)
(* A row is the number of the block that created it; a table gets at most  *)
(* one row of a block.  A file is a sequence of lines, the header first.   *)
(***************************************************************************)
EXTENDS Bundler, FiniteSetsExt

CONSTANTS
    Tables,         \* the tables of the schema, one bundler each
    Chain,          \* the block numbers the endpoint streams (there may be gaps)
    Emissions,      \* the rows a module may have: block -> tables with a row
    BadBlocks,      \* the blocks that may carry an UPSERT, UPDATE or DELETE
    QueueSize,      \* the files an upload queue takes before a roll waits for it
    MaxCrashes,     \* bound on the crashes of a behaviour
    MaxUploadFailures  \* bound on the writes to the output store that fail

ASSUME GenerateCsvAssumption ==
    /\ Chain \subseteq StartBlock .. (StopBlock - 1)
    /\ Emissions \subseteq [Chain -> SUBSET Tables]
    /\ BadBlocks \subseteq Chain
    /\ QueueSize \in Nat \ {0}
    /\ MaxCrashes \in Nat /\ MaxUploadFailures \in Nat

VARIABLES
    emits,       \* the rows of the module: block -> tables it has a row for
    bad,         \* the blocks of this module with a change that is no CREATE
    phase,       \* what the process is doing
    cursor,      \* FileStateStore.state.Cursor: the last block handled, or None
    active,      \* Bundler.activeBoundary of each table
    writer,      \* Bundler.boundaryWriter: lines in memory and spilled to disk
    header,      \* Bundler.HeaderWritten
    queue,       \* Bundler.uploadQueue: closed files not uploaded yet
    lost,        \* the files of each table an upload of which failed
    stateQueue,  \* FileStateStore.uploadQueue: states not uploaded yet
    store,       \* the output store: table -> boundary -> lines
    stateFile,   \* state.yaml in the output store: a block, or None
    lastCursor,  \* the cursors table's only file: a block, or None
    crashes, uploadFailures

vars == <<emits, bad, phase, cursor, active, writer, header, queue, lost, stateQueue,
          store, stateFile, lastCursor, crashes, uploadFailures>>

bundlerVars == <<active, writer, header, queue, lost>>
faultVars == <<crashes, uploadFailures>>

None == -1     \* no block: an empty cursor, a file that does not exist

-----------------------------------------------------------------------------
Remaining == {b \in Chain : b > cursor}
Alive == phase \in {"streaming", "closing", "terminating", "failing"}

\* A failed upload shuts its bundler down, and nobody reads its queue any more
Down(t) == lost[t] # {}

\* Mutant: closeAllFileBundlers does not wait for every bundler.
DrainedOne == \E t \in Tables : Down(t) \/ queue[t] = {}

\* closeAllFileBundlers returned: every bundler uploaded its queue or shut down before
Drained == \A t \in Tables : Down(t) \/ queue[t] = {}

\* A roll has a file for a queue that is full: the handler waits
Blocked == \E t \in Tables : Cardinality(queue[t]) > QueueSize

\* The bundlers are built at the start of the range, wherever the cursor is
NewBundlers ==
    /\ active' = [t \in Tables |-> NewBoundary(StartBlock)]
    /\ writer' = [t \in Tables |-> EmptyWriter]
    /\ header' = [t \in Tables |-> FALSE]
    /\ queue' = [t \in Tables |-> {}]
    /\ lost' = [t \in Tables |-> {}]
    /\ stateQueue' = {}

Init ==
    /\ emits \in Emissions
    /\ bad \in SUBSET BadBlocks
    /\ phase = "streaming"
    /\ cursor = None
    /\ active = [t \in Tables |-> NewBoundary(StartBlock)]
    /\ writer = [t \in Tables |-> EmptyWriter]
    /\ header = [t \in Tables |-> FALSE]
    /\ queue = [t \in Tables |-> {}]
    /\ lost = [t \in Tables |-> {}]
    /\ stateQueue = {}
    /\ store = [t \in Tables |-> << >>]
    /\ stateFile = None
    /\ lastCursor = None
    /\ crashes = 0 /\ uploadFailures = 0

\* SetCursor, then at a multiple of the bundle size GetState and Save: a local copy of the
\* state that waits for its upload
SaveState(b) == IF b % BundleSize = 0 THEN stateQueue \union {b} ELSE stateQueue

\* The rows go to the active boundary, then the cursor is set and, at a multiple
\* of the bundle size, saved and queued; only then do the bundlers roll.
HandleBlockScopedData(b) ==
    LET dumped == [t \in Tables |-> IF t \in emits[b]
                                    THEN DumpRow(writer[t], header[t], b)
                                    ELSE writer[t]]
        rolls(t) == ~InRange(active[t], b)
    IN  /\ phase = "streaming" /\ ~Blocked
        /\ Remaining # {} /\ b = Min(Remaining)
        /\ b \notin bad
        /\ cursor' = b
        /\ stateQueue' = SaveState(b)
        /\ queue' = [t \in Tables |-> IF rolls(t)
                                      THEN queue[t] \union Stop(active[t], dumped[t])
                                      ELSE queue[t]]
        /\ writer' = [t \in Tables |-> IF rolls(t) THEN EmptyWriter ELSE dumped[t]]
        /\ header' = [t \in Tables |-> ~rolls(t) /\ (header[t] \/ t \in emits[b])]
        /\ active' = [t \in Tables |-> IF rolls(t) THEN NewBoundary(b) ELSE active[t]]
        /\ UNCHANGED <<emits, bad, phase, lost, store, stateFile, lastCursor, faultVars>>

\* A roll that waits for a queue nobody reads waits forever
Hang == phase = "streaming" /\ (\E t \in Tables : Down(t)) /\ Blocked /\ UNCHANGED vars

\* Mutant: a block that cannot be written is tried again from the saved cursor.
RejectBlockAgain(b) ==
    /\ phase = "streaming" /\ ~Blocked
    /\ Remaining # {} /\ b = Min(Remaining) /\ b \in bad
    /\ phase' = "down"
    /\ UNCHANGED <<emits, bad, cursor, bundlerVars, stateQueue, store, stateFile, lastCursor,
                   faultVars>>

\* A change that is not a CREATE, or an undo signal: an error ends the stream and
\* the queues drain; the lines of the active boundaries are dropped.
RejectBlock(b) ==
    /\ phase = "streaming" /\ ~Blocked
    /\ Remaining # {} /\ b = Min(Remaining) /\ b \in bad
    /\ phase' = "failing"
    /\ UNCHANGED <<emits, bad, cursor, bundlerVars, stateQueue, store, stateFile, lastCursor,
                   faultVars>>

\* closeAllFileBundlers: no boundary is stopped, the upload queues are drained
HandleBlockRangeCompletion ==
    /\ phase = "streaming" /\ ~Blocked /\ Remaining = {}
    /\ phase' = "closing"
    /\ UNCHANGED <<emits, bad, cursor, bundlerVars, stateQueue, store, stateFile, lastCursor,
                   faultVars>>

\* Mutant: the cursors table names the block of the last saved state.
CursorsTableOfState == IF KeepsExisting /\ lastCursor # None THEN lastCursor ELSE stateFile

\* The one object of the cursors table, written by every command under the same name
CursorsTable == IF KeepsExisting /\ lastCursor # None THEN lastCursor ELSE cursor

\* Written although the rows of a bundler that is down are not all uploaded
WriteCursorsTable ==
    /\ phase = "closing" /\ Drained
    /\ lastCursor' = CursorsTable
    /\ phase' = "terminating"
    /\ UNCHANGED <<emits, bad, cursor, bundlerVars, stateQueue, store, stateFile, faultVars>>

WriteCursorsTableFails ==
    /\ phase = "closing" /\ Drained
    /\ uploadFailures < MaxUploadFailures /\ uploadFailures' = uploadFailures + 1
    /\ phase' = "failing"
    /\ UNCHANGED <<emits, bad, cursor, bundlerVars, stateQueue, store, stateFile, lastCursor,
                   crashes>>

UploadBoundary(t) ==
    \E f \in queue[t] :
        /\ Alive /\ ~Down(t)
        /\ queue' = [queue EXCEPT ![t] = @ \ {f}]
        /\ store' = [store EXCEPT ![t] = WriteObject(@, f.range, f.lines)]
        /\ UNCHANGED <<emits, bad, phase, cursor, active, writer, header, lost, stateQueue,
                       stateFile, lastCursor, faultVars>>

\* The bundler shuts down and the file is dropped; what waits in the queue stays there.
\* An upload another worker ends later is one that ended before: nobody tells them apart.
UploadBoundaryFails(t) ==
    \E f \in queue[t] :
        /\ Alive /\ ~Down(t)
        /\ uploadFailures < MaxUploadFailures /\ uploadFailures' = uploadFailures + 1
        /\ queue' = [queue EXCEPT ![t] = @ \ {f}]
        /\ lost' = [lost EXCEPT ![t] = {f}]
        /\ UNCHANGED <<emits, bad, phase, cursor, active, writer, header, stateQueue, store,
                       stateFile, lastCursor, crashes>>

\* Five workers push local state files to the one object state.yaml, in any order
UploadCursor ==
    \E b \in stateQueue :
        /\ Alive
        /\ stateQueue' = stateQueue \ {b}
        /\ stateFile' = b
        /\ UNCHANGED <<emits, bad, phase, cursor, bundlerVars, store, lastCursor, faultVars>>

\* The state store shuts down and the sinker with it; a handler that is completing the
\* range may still write the cursors table.  Past that the error goes nowhere.
UploadCursorFails ==
    /\ Alive /\ stateQueue # {} /\ stateQueue' = {}
    /\ uploadFailures < MaxUploadFailures /\ uploadFailures' = uploadFailures + 1
    /\ phase' = IF phase = "terminating" THEN phase ELSE "failing"
    /\ lastCursor' \in {lastCursor} \union (IF phase = "closing" THEN {CursorsTable} ELSE {})
    /\ UNCHANGED <<emits, bad, cursor, bundlerVars, store, stateFile, crashes>>

\* OnTerminating: the state store and the bundlers drain, then the process ends
Terminated ==
    /\ phase \in {"terminating", "failing"}
    /\ stateQueue = {} /\ Drained
    /\ phase' = IF phase = "failing" THEN "failed" ELSE "completed"
    /\ UNCHANGED <<emits, bad, cursor, bundlerVars, stateQueue, store, stateFile, lastCursor,
                   faultVars>>

Crash ==
    /\ Alive
    /\ crashes < MaxCrashes /\ crashes' = crashes + 1
    /\ phase' = "down"
    /\ UNCHANGED <<emits, bad, cursor, bundlerVars, stateQueue, store, stateFile, lastCursor,
                   uploadFailures>>

\* NewGenerateCSVSinker and Run: the cursor is read back from the output store
Run ==
    /\ phase = "down"
    /\ phase' = "streaming"
    /\ cursor' = stateFile
    /\ NewBundlers
    /\ UNCHANGED <<emits, bad, store, stateFile, lastCursor, faultVars>>

Done == phase \in {"completed", "failed"} /\ UNCHANGED vars

Next ==
    \/ \E b \in Chain : HandleBlockScopedData(b) \/ RejectBlock(b)
    \/ Hang
    \/ HandleBlockRangeCompletion
    \/ WriteCursorsTable
    \/ WriteCursorsTableFails
    \/ \E t \in Tables : UploadBoundary(t) \/ UploadBoundaryFails(t)
    \/ UploadCursor
    \/ UploadCursorFails
    \/ Terminated
    \/ Crash
    \/ Run
    \/ Done

Spec == Init /\ [][Next]_vars

\* The stream, the upload workers and the shutdown are never stopped for good,
\* and a supervisor restarts a process that crashed.
Fairness ==
    /\ WF_vars(\E b \in Chain : HandleBlockScopedData(b) \/ RejectBlock(b))
    /\ WF_vars(HandleBlockRangeCompletion)
    /\ WF_vars(WriteCursorsTable)
    /\ \A t \in Tables : WF_vars(UploadBoundary(t))
    /\ WF_vars(UploadCursor)
    /\ WF_vars(Terminated)
    /\ WF_vars(Run)

FairSpec == Spec /\ Fairness

-----------------------------------------------------------------------------
(* Properties *)

Line == Chain \union {Header}
Boundary == [start : 0 .. StopBlock, end : 0 .. StopBlock]

\* Every variable has its type: cursors are blocks of the chain, boundaries lie in the
\* range of the command, files hold headers and blocks.
TypeOK ==
    /\ emits \in Emissions /\ bad \subseteq BadBlocks
    /\ phase \in {"streaming", "failing", "closing", "terminating",
                  "completed", "failed", "down"}
    /\ cursor \in Chain \union {None}
    /\ active \in [Tables -> Boundary]
    /\ DOMAIN writer = Tables
    /\ \A t \in Tables : writer[t].memory \in Seq(Line) /\ writer[t].disk \in Seq(Line)
    /\ header \in [Tables -> BOOLEAN]
    /\ DOMAIN queue = Tables
    /\ DOMAIN lost = Tables
    /\ \A t \in Tables : \A f \in queue[t] \union lost[t] :
         f.range \in Boundary /\ f.lines \in Seq(Line)
    /\ stateQueue \subseteq Chain
    /\ DOMAIN store = Tables
    /\ \A t \in Tables : \A r \in DOMAIN store[t] : r \in Boundary /\ store[t][r] \in Seq(Line)
    /\ stateFile \in Chain \union {None}
    /\ lastCursor \in Chain \union {None}
    /\ crashes \in 0 .. MaxCrashes /\ uploadFailures \in 0 .. MaxUploadFailures

\* The rows of table t the module emitted in the blocks up to b
EmittedUpTo(t, b) == {c \in Chain : c <= b /\ t \in emits[c]}

\* Every file a bundler hands to the store, before and after a crash, in memory
\* or spilled to the working directory, can be read by inject-csv: one header
\* line, then rows in block order.
FilesWellFormed ==
    \A t \in Tables :
        /\ \A f \in queue[t] \union lost[t] : WellFormed(f.lines)
        /\ \A r \in DOMAIN store[t] : WellFormed(store[t][r])

\* The files a bundler has closed: stored, still in its queue or dropped
Stored(t) == {[range |-> r, lines |-> store[t][r]] : r \in DOMAIN store[t]}
Closed(t) == queue[t] \union lost[t] \union Stored(t)
RowsOfAll(files) == UNION {RowsIn(f.lines) : f \in files}

\* As long as the process has not crashed, every row it received is in exactly one
\* place: one closed file, or the lines of the active boundary.  Files of
\* different boundaries hold disjoint, ordered sets of rows.  A row reaches the store
\* unless its file is one whose upload failed, or waits in the queue of such a bundler.
NoRowLostOrTwice ==
    crashes = 0 =>
        \A t \in Tables :
            LET open == RowsIn(CloseBoundary(writer[t]))
            IN  /\ EmittedUpTo(t, cursor) = open \union RowsOfAll(Closed(t))
                /\ \A f, g \in Closed(t) :
                     f # g => RowsIn(f.lines) \intersect RowsIn(g.lines) = {}
                /\ \A f \in Closed(t) : \A c \in RowsIn(f.lines), o \in open : c < o

\* What a closed file holds when the process has not crashed: the row of the first
\* block after the boundary is in it, the row of its own first block is not,
\* unless the boundary is the first one.
FilesShifted ==
    crashes = 0 =>
        \A t \in Tables : \A f \in Closed(t) :
            LET first == NewBoundary(StartBlock)
                before(n) == {c \in Chain : c < n}
                next(n) == {c \in Chain : c >= n}
                rolled(n) == before(n) \union (IF next(n) = {} THEN {} ELSE {Min(next(n))})
            IN  RowsIn(f.lines) =
                  {c \in rolled(f.range.end) : t \in emits[c]}
                    \ (IF f.range = first THEN {} ELSE rolled(f.range.start))

\* The blocks BoundariesToSkip passes over lie between the boundary that was
\* stopped and the one that is started: together they leave no gap in the names
\* of the files and do not overlap.
SkippedBoundariesTile ==
    \A t \in Tables : \A b \in {c \in Chain : c >= active[t].end} :
        LET tiles == <<active[t]>> \o BoundariesToSkip(active[t], b) \o <<NewBoundary(b)>>
        IN  \A i \in 1 .. (Len(tiles) - 1) : tiles[i].end = tiles[i + 1].start

\* The files of a table are readable and their names leave no gap (Bundler.Roll).
FilesReadable == FilesWellFormed /\ SkippedBoundariesTile

\* A process that did not crash and completed has named the last block of the range in
\* the cursors table and has uploaded the rows up to its last roll, but for the files of
\* bundlers that a failed upload shut down: the command completes without them.
CompletedUpToLastRoll ==
    (phase = "completed" /\ crashes = 0) =>
        /\ lastCursor = Max(Chain)
        /\ \A t \in Tables :
             LET start == NewBoundary(Max(Chain)).start
                 rolled == IF start <= StartBlock
                           THEN {} ELSE {c \in Chain : c < start} \union {Min({c \in Chain : c >= start})}
             IN  RowsOfAll(Stored(t))
                   = {c \in rolled : t \in emits[c]}
                       \ (IF Down(t) THEN RowsOfAll(queue[t] \union lost[t]) ELSE {})

\* Whatever crashes, the run ends, completed or refused, unless it goes on with a bundler
\* that a failed upload shut down: a roll may wait for its queue forever.
EventuallyEnds ==
    \/ <>(phase \in {"completed", "failed"})
    \/ <>[](\E t \in Tables : Down(t))
=============================================================================
