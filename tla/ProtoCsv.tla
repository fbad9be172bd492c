------------------------------ MODULE ProtoCsv ------------------------------
(***************************************************************************)
(* The from-proto-generate-csv command: protoAwareCSVGenerator             *)
(* (src/cmd/substreams-sink-sql/from_proto_generate_csv.go) writes the     *)
(* rows of every block of a finished range to one Bundler per table and,   *)
(* at the end of the range, the cursor from-proto continues from.  It      *)
(* keeps no state: a process that is started again begins at the start of  *)
(* the range and meets the files it wrote before.  The upload of a file    *)
(* may fail, and so may the last roll of a table; the command does not     *)
(* hear of the one and only logs the other.                                *)
(*                                                                         *)
(* A row is the number of its block; a table gets at most one row of a     *)
(* block.  The version the rows of a file carry, the time they were        *)
(* written at, is the number of the run.                                   *)
(***************************************************************************)
EXTENDS Bundler, FiniteSetsExt

CONSTANTS
    Tables,       \* the tables of the schema, one bundler each
    Chain,        \* the block numbers the endpoint streams (there may be gaps)
    NoOutput,     \* what a block without a message emits
    Undecodable,  \* and a block whose message cannot be decoded or walked
    UseVersionField,  \* do the rows carry the time they were written at (ClickHouse)?
    QueueSize,    \* the files an upload queue takes before a roll waits for it
    MaxFaults     \* bound on the crashes and the failed writes of a behaviour

ASSUME ProtoCsvAssumption ==
    /\ Chain \subseteq StartBlock .. (StopBlock - 1) /\ Chain # {}
    /\ NoOutput # Undecodable
    /\ UseVersionField \in BOOLEAN
    /\ QueueSize \in Nat \ {0}
    /\ MaxFaults \in Nat

VARIABLES
    emits,       \* block -> the tables its message has a row for, or one of these two
    stage,       \* what the process is doing
    position,    \* the last block handled: the cursor of the stream, or None
    active,      \* Bundler.activeBoundary of each table, or NoBoundary
    writer,      \* Bundler.boundaryWriter: lines in memory and spilled to disk
    header,      \* Bundler.HeaderWritten
    queue,       \* Bundler.uploadQueue: closed files not uploaded yet
    lost,        \* the files of each table an upload of which failed
    unrolled,    \* the tables the last roll of which failed
    store,       \* the output store: table -> boundary -> lines
    version,     \* the version of the rows in these files
    lastCursor,  \* last_cursor.csv: a block, or None
    runs,        \* the process runs for this many times before
    faults

exportVars == <<emits, stage, position, active, writer, header, queue, lost, unrolled, store,
                version, lastCursor, runs, faults>>
bundlerVars == <<active, writer, header, queue, lost, unrolled>>
storeVars == <<store, version>>

None == -1
NoBoundary == BlockRange(None, None)

Remaining == {b \in Chain : b > position}
Alive == stage \in {"streaming", "rolling", "closing", "failing"}

\* A failed upload shuts its bundler down, and nobody reads its queue any more
Down(t) == lost[t] # {}

\* A roll has a file for a queue that is full: the handler waits
Blocked == \E t \in Tables : Cardinality(queue[t]) > QueueSize

-----------------------------------------------------------------------------
ExportInit ==
    /\ emits \in [Chain -> (SUBSET Tables) \union {NoOutput, Undecodable}]
    /\ stage = "streaming"
    /\ position = None
    /\ active = [t \in Tables |-> NewBoundary(StartBlock)]
    /\ writer = [t \in Tables |-> EmptyWriter]
    /\ header = [t \in Tables |-> FALSE]
    /\ queue = [t \in Tables |-> {}]
    /\ lost = [t \in Tables |-> {}]
    /\ unrolled = {}
    /\ store = [t \in Tables |-> << >>]
    /\ version = [t \in Tables |-> << >>]
    /\ lastCursor = None
    /\ runs = 0 /\ faults = 0

\* The boundary Bundler.Roll opens: none past the stop
NextBoundary(b) == IF b >= StopBlock THEN NoBoundary ELSE NewBoundary(b)

\* Bundler.Roll of the given tables to block b, from the given lines: the boundary that
\* is left is queued, the empty ones in between are not.
Roll(tables, b, lines) ==
    LET rolls(t) == t \in tables /\ ~InRange(active[t], b)
    IN  /\ queue' = [t \in Tables |-> IF rolls(t) THEN queue[t] \union Stop(active[t], lines[t])
                                                  ELSE queue[t]]
        /\ writer' = [t \in Tables |-> IF rolls(t) THEN EmptyWriter ELSE lines[t]]
        /\ active' = [t \in Tables |-> IF rolls(t) THEN NextBoundary(b) ELSE active[t]]

\* The rows go to the boundary that is active, then the bundlers roll to the block
HandleBlockScopedData(b) ==
    LET dumped == [t \in Tables |-> IF t \in emits[b] THEN DumpRow(writer[t], header[t], b)
                                                      ELSE writer[t]]
    IN  /\ stage = "streaming" /\ ~Blocked
        /\ Remaining # {} /\ b = Min(Remaining)
        /\ emits[b] \notin {NoOutput, Undecodable}
        /\ Roll(Tables, b, dumped)
        /\ header' = [t \in Tables |-> InRange(active[t], b) /\ (header[t] \/ t \in emits[b])]
        /\ position' = b
        /\ UNCHANGED <<emits, stage, lost, unrolled, storeVars, lastCursor, runs, faults>>

\* A roll that waits for a queue nobody reads waits forever
Hang ==
    /\ stage \in {"streaming", "closing"} /\ Blocked /\ \E t \in Tables : Down(t)
    /\ UNCHANGED exportVars

\* No output, or no value in it: an early return, before the bundlers roll
SkipBlock(b) ==
    /\ stage = "streaming" /\ ~Blocked
    /\ Remaining # {} /\ b = Min(Remaining)
    /\ emits[b] = NoOutput
    /\ position' = b
    /\ UNCHANGED <<emits, stage, bundlerVars, storeVars, lastCursor, runs, faults>>

\* Mutant: a message that cannot be decoded is asked for again.
RejectBlockAgain(b) ==
    /\ stage = "streaming" /\ ~Blocked
    /\ Remaining # {} /\ b = Min(Remaining)
    /\ emits[b] = Undecodable
    /\ UNCHANGED exportVars

\* An error of the handler shuts the stream down; close drains the queues
RejectBlock(b) ==
    /\ stage = "streaming" /\ ~Blocked
    /\ Remaining # {} /\ b = Min(Remaining)
    /\ emits[b] = Undecodable
    /\ stage' = "failing"
    /\ UNCHANGED <<emits, position, bundlerVars, storeVars, lastCursor, runs, faults>>

\* Mutant: the cursor names the block after the last one.
LastCursorOneTooHigh ==
    /\ stage = "streaming" /\ ~Blocked /\ Remaining = {}
    /\ lastCursor' = IF KeepsExisting /\ lastCursor # None THEN lastCursor ELSE position + 1
    /\ stage' = "rolling"
    /\ UNCHANGED <<emits, position, bundlerVars, storeVars, runs, faults>>

\* HandleBlockRangeCompletion, first half: last_cursor.csv is written
WriteLastCursor ==
    /\ stage = "streaming" /\ ~Blocked /\ Remaining = {}
    /\ lastCursor' = IF KeepsExisting /\ lastCursor # None THEN lastCursor ELSE position
    /\ stage' = "rolling"
    /\ UNCHANGED <<emits, position, bundlerVars, storeVars, runs, faults>>

WriteLastCursorFails ==
    /\ stage = "streaming" /\ ~Blocked /\ Remaining = {}
    /\ faults < MaxFaults /\ faults' = faults + 1
    /\ stage' = "failing"
    /\ UNCHANGED <<emits, position, bundlerVars, storeVars, lastCursor, runs>>

\* Mutant: the last roll is to the last block, not past its bundle.
TriggerInside(last) == last

\* The first block past the bundle of the last one
Trigger(last) == last - (last % BundleSize) + BundleSize

\* HandleBlockRangeCompletion, second half: the last boundary of the tables is closed
RollLast(tables) ==
    /\ stage = "rolling"
    /\ Roll(tables, Trigger(position), writer)
    /\ header' = [t \in Tables |-> header[t]
                        /\ (t \in tables => InRange(active[t], Trigger(position)))]
    /\ unrolled' = Tables \ tables
    /\ stage' = "closing"
    /\ UNCHANGED <<emits, position, lost, storeVars, lastCursor, runs>>

FinalRoll == RollLast(Tables) /\ UNCHANGED faults

\* The error of a table's roll is logged: its lines stay where they are, the rest goes on
FinalRollFails ==
    /\ faults < MaxFaults /\ faults' = faults + 1
    /\ \E tables \in SUBSET Tables : tables # Tables /\ RollLast(tables)

\* The rows of a file of this run carry its time where the tables have a version
RowVersion == IF UseVersionField THEN runs ELSE 0

UploadBoundary(t) ==
    \E f \in queue[t] :
        /\ Alive /\ ~Down(t)
        /\ queue' = [queue EXCEPT ![t] = @ \ {f}]
        /\ store' = [store EXCEPT ![t] = WriteObject(@, f.range, f.lines)]
        /\ version' = [version EXCEPT ![t] = WriteObject(@, f.range, RowVersion)]
        /\ UNCHANGED <<emits, stage, position, active, writer, header, lost, unrolled,
                       lastCursor, runs, faults>>

\* The bundler shuts down and the file is dropped; what waits in the queue stays there.
UploadBoundaryFails(t) ==
    \E f \in queue[t] :
        /\ Alive /\ ~Down(t)
        /\ faults < MaxFaults /\ faults' = faults + 1
        /\ queue' = [queue EXCEPT ![t] = @ \ {f}]
        /\ lost' = [lost EXCEPT ![t] = {f}]
        /\ UNCHANGED <<emits, stage, position, active, writer, header, unrolled, storeVars,
                       lastCursor, runs>>

\* close has waited for every bundler to upload its queue or shut down; Run returns no
\* error, whatever ended the stream.
RunReturns ==
    /\ stage \in {"closing", "failing"} /\ ~Blocked
    /\ \A t \in Tables : Down(t) \/ queue[t] = {}
    /\ stage' = IF stage = "failing" THEN "gave up" ELSE "completed"
    /\ UNCHANGED <<emits, position, bundlerVars, storeVars, lastCursor, runs, faults>>

Crash ==
    /\ Alive
    /\ faults < MaxFaults /\ faults' = faults + 1
    /\ stage' = "down"
    /\ UNCHANGED <<emits, position, bundlerVars, storeVars, lastCursor, runs>>

\* Mutant: a working file that was there before is appended to.
RunOnWorkingFiles ==
    /\ stage = "down"
    /\ stage' = "streaming"
    /\ position' = None
    /\ active' = [t \in Tables |-> NewBoundary(StartBlock)]
    /\ writer' = [t \in Tables |-> [EmptyWriter EXCEPT !.disk = writer[t].disk]]
    /\ header' = [t \in Tables |-> FALSE]
    /\ queue' = [t \in Tables |-> {}]
    /\ lost' = [t \in Tables |-> {}]
    /\ unrolled' = {}
    /\ runs' = runs + 1
    /\ UNCHANGED <<emits, storeVars, lastCursor, faults>>

\* The command is given again: no cursor, new bundlers, the same output store
Run ==
    /\ stage = "down"
    /\ stage' = "streaming"
    /\ position' = None
    /\ active' = [t \in Tables |-> NewBoundary(StartBlock)]
    /\ writer' = [t \in Tables |-> EmptyWriter]
    /\ header' = [t \in Tables |-> FALSE]
    /\ queue' = [t \in Tables |-> {}]
    /\ lost' = [t \in Tables |-> {}]
    /\ unrolled' = {}
    /\ runs' = runs + 1
    /\ UNCHANGED <<emits, storeVars, lastCursor, faults>>

RunEnded == stage \in {"completed", "gave up"} /\ UNCHANGED exportVars

ExportNext ==
    \/ \E b \in Chain : HandleBlockScopedData(b) \/ SkipBlock(b) \/ RejectBlock(b)
    \/ Hang
    \/ WriteLastCursor
    \/ WriteLastCursorFails
    \/ FinalRoll
    \/ FinalRollFails
    \/ \E t \in Tables : UploadBoundary(t) \/ UploadBoundaryFails(t)
    \/ RunReturns
    \/ Crash
    \/ Run
    \/ RunEnded

ExportSpec == ExportInit /\ [][ExportNext]_exportVars

\* The stream, the completion, the workers and the shutdown go on while the process
\* lives, and somebody runs the command again after a crash.
ExportFairness ==
    /\ WF_exportVars(\E b \in Chain : HandleBlockScopedData(b) \/ SkipBlock(b) \/ RejectBlock(b))
    /\ WF_exportVars(WriteLastCursor)
    /\ WF_exportVars(FinalRoll)
    /\ \A t \in Tables : WF_exportVars(UploadBoundary(t))
    /\ WF_exportVars(RunReturns)
    /\ WF_exportVars(Run)

FairExportSpec == ExportSpec /\ ExportFairness

-----------------------------------------------------------------------------
(* Properties *)

Line == Chain \union {Header}
Boundary == [start : 0 .. StopBlock, end : 0 .. StopBlock]

\* Every variable has its type; files and boundaries lie in the range of the command.
TypeOK ==
    /\ emits \in [Chain -> (SUBSET Tables) \union {NoOutput, Undecodable}]
    /\ stage \in {"streaming", "rolling", "closing", "failing", "completed", "gave up", "down"}
    /\ position \in Chain \union {None}
    /\ active \in [Tables -> Boundary \union {NoBoundary}]
    /\ \A t \in Tables : writer[t].memory \in Seq(Line) /\ writer[t].disk \in Seq(Line)
    /\ header \in [Tables -> BOOLEAN]
    /\ \A t \in Tables : \A f \in queue[t] \union lost[t] :
         f.range \in Boundary /\ f.lines \in Seq(Line)
    /\ unrolled \subseteq Tables
    /\ \A t \in Tables : \A r \in DOMAIN store[t] : r \in Boundary /\ store[t][r] \in Seq(Line)
    /\ \A t \in Tables : \A r \in DOMAIN version[t] : version[t][r] \in 0 .. runs
    /\ lastCursor \in Chain \union {None}
    /\ runs \in Nat
    /\ faults \in 0 .. MaxFaults

Emitted(t) == {b \in Chain : emits[b] \notin {NoOutput, Undecodable} /\ t \in emits[b]}
Stored(t) == UNION {RowsIn(store[t][r]) : r \in DOMAIN store[t]}

RowsOfAll(files) == UNION {RowsIn(f.lines) : f \in files}

\* What a completed run may have left out of a table: the files of a bundler that a failed
\* upload shut down, and the lines of a last roll that failed.
LeftOut(t) ==
    (IF Down(t) THEN RowsOfAll(queue[t] \union lost[t]) ELSE {})
      \union (IF t \in unrolled THEN RowsIn(CloseBoundary(writer[t])) ELSE {})

\* A run that reaches its end has exported every row of the range, in exactly one file,
\* after whatever crashes and reruns, but for the files a failed upload or a failed last
\* roll left out: HandleBlockRangeCompletion rolls past the last block, and no row is
\* left in a buffer or dropped with a skipped boundary.
ExportComplete ==
    stage = "completed" =>
        \A t \in Tables :
            /\ Stored(t) \subseteq Emitted(t) /\ Emitted(t) \ Stored(t) \subseteq LeftOut(t)
            /\ \A r, s \in DOMAIN store[t] :
                 r # s => RowsIn(store[t][r]) \intersect RowsIn(store[t][s]) = {}
            /\ \A r \in DOMAIN store[t] : WellFormed(store[t][r])

\* The export is complete and lies in the range of the command.
ExportOK == TypeOK /\ ExportComplete

\* A rerun writes the files of the run before it again, row by row: whether the store
\* keeps or replaces an object, the rows of a file that is there never change or go away.
\* The file is the same one unless its rows carry a version, which a rerun makes newer.
FilesNeverChange ==
    [][\A t \in Tables : \A r \in DOMAIN store[t] :
          /\ r \in DOMAIN store'[t] /\ store'[t][r] = store[t][r]
          /\ \/ version'[t][r] = version[t][r]
             \/ UseVersionField /\ ~KeepsExisting /\ version'[t][r] > version[t][r]]_exportVars

\* Whatever crashes and whatever the stream ends with, close returns and so does Run,
\* unless it goes on with a bundler that a failed upload shut down: a roll may wait for
\* its queue forever.
EventuallyReturns ==
    \/ <>(stage \in {"completed", "gave up"})
    \/ <>[](\E t \in Tables : Down(t))
=============================================================================
