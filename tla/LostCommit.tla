----------------------------- MODULE LostCommit -----------------------------
(***************************************************************************)
(* SqlSinker with one more thing a network does: the COMMIT of a flush     *)
(* takes effect, and its answer is lost.  Loader.Flush returns an error    *)
(* before it resets the buffer, and flushWithRetry flushes the same        *)
(* operations again, on rows that already hold them, or gives up           *)
(* (src/db_changes/db/flush.go, src/db_changes/sinker/sinker.go).          *)
(***************************************************************************)
EXTENDS SqlSinker

\* The block up to which the flush prunes the history; at the end of the range
\* the last one counts as final
FlushFinal == IF phase = "complete" THEN head ELSE lib

\* Mutant: the cursor is not part of the transaction of the rows.
CommittedWithoutCursor ==
    /\ FlushExecutable
    /\ rows' = [k \in Key |-> Execute(entries[k], rows[k])]
    /\ history' = PruneReversibleSegment(
                    history \cup UNION {SaveHistory(k, entries[k], rows[k]) : k \in Key},
                    FlushFinal)
    /\ cursor' = cursor

\* The statements of LoaderFlush, committed
Committed ==
    /\ FlushExecutable
    /\ rows' = [k \in Key |-> Execute(entries[k], rows[k])]
    /\ history' = PruneReversibleSegment(
                    history \cup UNION {SaveHistory(k, entries[k], rows[k]) : k \in Key},
                    FlushFinal)
    /\ UpdateCursor(head)

\* GoDown, where the stored block is the last one delivered
GoDownStored ==
    /\ phase' = "down"
    /\ entries' = NoEntries
    /\ lastApplied' = 0 /\ flushed' = FALSE
    /\ attempt' = 0 /\ applied' = 0
    /\ undoTo' = 0 /\ pending' = {} /\ txRows' = NoRows
    /\ UNCHANGED <<streamVars, undos>>

\* The buffer and the process's own variables are those of a failed attempt, of
\* HandleBlockScopedData or of HandleBlockRangeCompletion.
CommitUnacknowledged ==
    /\ phase \in {"flush", "complete"}
    /\ faults < MaxFaults /\ faults' = faults + 1
    /\ Committed
    /\ IF MayRetry
       THEN /\ attempt' = attempt + 1
            /\ UNCHANGED <<streamVars, phase, entries, lastApplied, flushed, applied, txVars,
                           undos>>
       ELSE GoDownStored

LostNext == Next \/ CommitUnacknowledged

LostSpec == Init /\ [][LostNext]_vars

LostFairSpec == LostSpec /\ Fairness
=============================================================================
