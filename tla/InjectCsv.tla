------------------------------ MODULE InjectCsv ------------------------------
(***************************************************************************)
(* generate-csv followed by inject-csv                                     *)
(* (src/cmd/substreams-sink-sql/inject_csv.go): once the files are         *)
(* generated, one invocation per table, the cursors table among them,      *)
(* copies the files of a range of blocks into PostgreSQL, one COPY         *)
(* statement per file.  An invocation that failed is run again.            *)
(***************************************************************************)
EXTENDS GenerateCsv

CONSTANTS
    InjectStart, InjectStop,  \* <start>:<stop> of the invocations, stop 0: no end
    Keyed,          \* the tables with a primary key
    MaxFailures     \* bound on the failures of the database connection

ASSUME InjectCsvAssumption ==
    /\ InjectStart \in Nat /\ InjectStop \in Nat
    /\ Keyed \subseteq Tables
    /\ MaxFailures \in Nat

VARIABLES
    filler,    \* per table, the files of the invocation still to load, or Idle
    result,    \* per table, how the last invocation ended
    table,     \* the rows of each table of the database, in the order they came
    dbCursor,  \* the row of the cursors table, or None
    failures

injectVars == <<filler, result, table, dbCursor, failures>>
allVars == <<vars, injectVars>>

Idle == "idle"

\* Walk lists the names in order; the names are the ranges of the files.  It stops
\* at the first file that starts at or after the stop block and leaves out those
\* whose last block is before the start block.
FindFilesToLoad(t) ==
    {r \in DOMAIN store[t] : /\ InjectStop = 0 \/ r.start < InjectStop
                             /\ ~(r.end - 1 < InjectStart)}

InjectInit ==
    /\ Init
    /\ filler = [t \in Tables |-> {}]
    /\ result = [t \in Tables |-> Idle]
    /\ table = [t \in Tables |-> <<>>]
    /\ dbCursor = None
    /\ failures = 0

Generate == Next /\ UNCHANGED injectVars

\* TableFiller.Run: "no file to process" is an error
StartFiller(t) ==
    /\ phase = "completed"
    /\ result[t] \in {Idle, "failed"}
    /\ IF FindFilesToLoad(t) = {}
       THEN /\ result' = [result EXCEPT ![t] = "nofile"]
            /\ UNCHANGED filler
       ELSE /\ result' = [result EXCEPT ![t] = "running"]
            /\ filler' = [filler EXCEPT ![t] = FindFilesToLoad(t)]
    /\ UNCHANGED <<vars, table, dbCursor, failures>>

\* Mutant: the files are loaded in the opposite order.
LastFile(t) == CHOOSE r \in filler[t] : \A q \in filler[t] : r.start >= q.start

\* The file that is loaded next is the first in the order of the names
NextFile(t) == CHOOSE r \in filler[t] : \A q \in filler[t] : r.start <= q.start

\* Mutant: the header is copied as a row.
FileRowsWithHeader(t) == store[t][NextFile(t)]

FileRows(t) == Tail(store[t][NextFile(t)])

RowsOf(t) == {table[t][i] : i \in DOMAIN table[t]}

\* A COPY inserts every row of its file or, on a duplicate key, none
DuplicateKey(t) ==
    t \in Keyed /\ \E i \in DOMAIN FileRows(t) : FileRows(t)[i] \in RowsOf(t)

InjectCSVFromFile(t) ==
    /\ result[t] = "running" /\ filler[t] # {}
    /\ ~DuplicateKey(t)
    /\ table' = [table EXCEPT ![t] = @ \o FileRows(t)]
    /\ filler' = [filler EXCEPT ![t] = @ \ {NextFile(t)}]
    /\ UNCHANGED <<vars, result, dbCursor, failures>>

FillerFails(t) ==
    /\ result[t] = "running"
    /\ \/ filler[t] # {} /\ DuplicateKey(t) /\ UNCHANGED failures
       \/ failures < MaxFailures /\ failures' = failures + 1
    /\ result' = [result EXCEPT ![t] = "failed"]
    /\ filler' = [filler EXCEPT ![t] = {}]
    /\ UNCHANGED <<vars, table, dbCursor>>

\* Mutant: the invocation ends well with files left.
FillerDoneEarly(t) ==
    /\ result[t] = "running"
    /\ result' = [result EXCEPT ![t] = "done"]
    /\ UNCHANGED <<vars, filler, table, dbCursor, failures>>

FillerDone(t) ==
    /\ result[t] = "running" /\ filler[t] = {}
    /\ result' = [result EXCEPT ![t] = "done"]
    /\ UNCHANGED <<vars, filler, table, dbCursor, failures>>

\* The cursors table is a table like the others to the loop of the README; its
\* primary key makes a second injection fail.
InjectCursorsTable ==
    /\ phase = "completed" /\ lastCursor # None
    /\ dbCursor = None
    /\ dbCursor' = lastCursor
    /\ UNCHANGED <<vars, filler, result, table, failures>>

InjectNext ==
    \/ Generate
    \/ \E t \in Tables : \/ StartFiller(t) \/ InjectCSVFromFile(t)
                         \/ FillerFails(t) \/ FillerDone(t)
    \/ InjectCursorsTable

InjectSpec == InjectInit /\ [][InjectNext]_allVars

\* Nothing makes the operator inject: only generate-csv is fair.
InjectFairSpec == InjectSpec /\ Fairness

-----------------------------------------------------------------------------
(* Properties *)

\* Every variable has its type: a filler loads boundaries, a table holds blocks.
InjectTypeOK ==
    /\ TypeOK
    /\ filler \in [Tables -> SUBSET Boundary]
    /\ result \in [Tables -> {Idle, "running", "failed", "nofile", "done"}]
    /\ \A t \in Tables : table[t] \in Seq(Chain)
    /\ dbCursor \in Chain \union {None}
    /\ failures \in 0 .. MaxFailures

NoRepeat(s) == \A i, j \in DOMAIN s : s[i] = s[j] => i = j

\* However often an invocation fails and is run again, a table with a primary key
\* holds no row twice; without a key that takes an injection that never failed, of
\* files of a process that never crashed.  The rows of such files arrive in block
\* order, and a table whose invocation ended well holds all the rows of the range.
InjectedOnce ==
    \A t \in Tables :
        /\ t \in Keyed \/ (failures = 0 /\ crashes = 0) => NoRepeat(table[t])
        /\ crashes = 0 /\ NoRepeat(table[t]) =>
             \A i, j \in DOMAIN table[t] : i < j => table[t][i] < table[t][j]
        /\ result[t] = "done" =>
             RowsOf(t) = UNION {RowsIn(store[t][r]) : r \in FindFilesToLoad(t)}

\* What an injection leaves in the tables, whatever failed and was run again.
InjectOK == InjectTypeOK /\ InjectedOnce
=============================================================================
