--------------------------- MODULE FromProtoSetup ---------------------------
(***************************************************************************)
(* What from-proto does before it streams (src/db_proto/sinker_factory.go): *)
(* it reads the hash of the schema the database was made for; if there is  *)
(* none it creates the tables and stores the hash, if it is another one it *)
(* looks for a temporary schema an operator prepared.  PostgreSQL does     *)
(* this in a transaction; RisingWave commits every statement; ClickHouse   *)
(* too, and keeps the hash in a file.                                      *)
(*                                                                         *)
(* A schema is known by its hash and has tables of its own; a table that   *)
(* exists is known by the schema it was created for.                       *)
(***************************************************************************)
EXTENDS Naturals, FiniteSets

CONSTANTS
    Configs,     \* the drivers to look at, with and without --no-constraints
    Hash,        \* versions of the schema
    Tables,      \* the tables of any version
    TablesOf,    \* the tables of each version
    NoHash,      \* no hash, no table
    Torn,        \* a hash file that was created and not written
    MaxFaults,   \* bound on crashes and on commits that fail
    MaxDeploys   \* bound on deployments of another package

ASSUME FromProtoSetupAssumption ==
    /\ Configs \subseteq [driver : {"postgres", "risingwave", "clickhouse"}, constraints : BOOLEAN]
    /\ TablesOf \in [Hash -> SUBSET Tables]
    /\ NoHash \notin Hash /\ Torn \notin Hash /\ Torn # NoHash
    /\ MaxFaults \in Nat /\ MaxDeploys \in Nat

VARIABLES
    config,    \* how the sink is started, the same at every start
    package,   \* the hash of the schema of the package that is deployed
    db,        \* the database: is there a place for the hash, the hash, the tables
    tx,        \* what the open transaction sees; same as db when there is none
    todo,      \* tables CreateDatabase has still to create
    temp,      \* there is a temporary schema for the deployed package
    phase,
    faults, deploys

vars == <<config, package, db, tx, todo, temp, phase, faults, deploys>>

Driver == config.driver
UseConstraints == config.constraints

Database == [info : BOOLEAN, hash : Hash \union {NoHash, Torn},
             built : [Tables -> Hash \union {NoHash}], constraints : BOOLEAN]

Nothing == [info |-> FALSE, hash |-> NoHash, built |-> [t \in Tables |-> NoHash],
            constraints |-> FALSE]

\* The tables as one version has them, and no other
MadeFor(h) == [t \in Tables |-> IF t \in TablesOf[h] THEN h ELSE NoHash]

-----------------------------------------------------------------------------
\* Where a statement acts: in the transaction, or in the database at once
Work == IF Driver = "postgres" THEN tx ELSE db

\* Mutant: PostgreSQL commits every statement.
ExecuteAutocommit(new) ==
    /\ tx' = new
    /\ db' = new

Execute(new) ==
    /\ tx' = new
    /\ db' = IF Driver = "postgres" THEN db ELSE new

\* FetchSinkInfo: nothing, an error, or the hash
InfoMissing == ~db.info
InfoUnreadable == db.info /\ db.hash \notin Hash

Init ==
    /\ config \in Configs
    /\ package \in Hash
    /\ db = Nothing /\ tx = Nothing
    /\ todo = {} /\ temp = FALSE
    /\ phase = "down"
    /\ faults = 0 /\ deploys = 0

Start ==
    /\ phase = "down" /\ ~InfoUnreadable
    /\ phase' = CASE InfoMissing -> "creating"
                  [] ~InfoMissing /\ db.hash = package -> "opening"
                  [] ~InfoMissing /\ db.hash # package -> "migrating"
    /\ tx' = db
    /\ UNCHANGED <<config, package, db, todo, temp, faults, deploys>>

\* CreateDatabase: the system tables, _sink_info_ among them unless it is a file
CreateSystemTables ==
    /\ phase = "creating"
    /\ Execute([Work EXCEPT !.info = @ \/ Driver # "clickhouse"])
    /\ todo' = TablesOf[package]
    /\ phase' = "tables"
    /\ UNCHANGED <<config, package, temp, faults, deploys>>

\* CREATE TABLE IF NOT EXISTS, in the order of a Go map
CreateTable(t) ==
    /\ phase = "tables" /\ t \in todo
    /\ Execute([Work EXCEPT !.built[t] = IF @ = NoHash THEN package ELSE @])
    /\ todo' = todo \ {t}
    /\ UNCHANGED <<config, package, temp, phase, faults, deploys>>

\* Mutant: the constraints do not wait for the last table.
ConstraintsEarly ==
    /\ phase = "tables"
    /\ UseConstraints /\ Driver = "postgres" => ~Work.constraints
    /\ Execute([Work EXCEPT !.constraints = @ \/ (UseConstraints /\ Driver = "postgres")])
    /\ phase' = "storing"
    /\ UNCHANGED <<config, package, todo, temp, faults, deploys>>

\* Only PostgreSQL has constraints to add; adding one twice is an error
ApplyConstraints ==
    /\ phase = "tables" /\ todo = {}
    /\ UseConstraints /\ Driver = "postgres" => ~Work.constraints
    /\ Execute([Work EXCEPT !.constraints = @ \/ (UseConstraints /\ Driver = "postgres")])
    /\ phase' = "storing"
    /\ UNCHANGED <<config, package, todo, temp, faults, deploys>>

\* StoreSinkInfo: a row; in ClickHouse a file, created first
StoreSinkInfo ==
    /\ phase = "storing" /\ Driver # "clickhouse"
    /\ Execute([Work EXCEPT !.hash = package])
    /\ phase' = "committing"
    /\ UNCHANGED <<config, package, todo, temp, faults, deploys>>

CreateHashFile ==
    /\ phase = "storing" /\ Driver = "clickhouse"
    /\ Execute([Work EXCEPT !.info = TRUE, !.hash = Torn])
    /\ phase' = "writing"
    /\ UNCHANGED <<config, package, todo, temp, faults, deploys>>

WriteHashFile ==
    /\ phase = "writing"
    /\ Execute([Work EXCEPT !.hash = package])
    /\ phase' = "committing"
    /\ UNCHANGED <<config, package, todo, temp, faults, deploys>>

CommitTransaction ==
    /\ phase = "committing"
    /\ db' = Work
    /\ phase' = "opening"
    /\ UNCHANGED <<config, package, tx, todo, temp, faults, deploys>>

\* Its error is assigned to a variable nobody reads: the setup goes on, whether the
\* transaction was rolled back or only the answer to the commit was lost
CommitFails ==
    /\ phase = "committing" /\ Driver = "postgres"
    /\ faults < MaxFaults /\ faults' = faults + 1
    /\ \E applied \in BOOLEAN : db' = IF applied THEN tx ELSE db
    /\ tx' = db'
    /\ phase' = "opening"
    /\ UNCHANGED <<config, package, todo, temp, deploys>>

\* DatabaseHash of the schema and of the temporary one
SameStructure == db.built = MadeFor(package)

\* The hash written is the one FetchSinkInfo read for the temporary schema, and it reads
\* the table of the schema itself
UpdateSinkInfoHash ==
    /\ phase = "migrating" /\ temp /\ SameStructure
    /\ db' = [db EXCEPT !.hash = db.hash]
    /\ phase' = "opening"
    /\ UNCHANGED <<config, package, tx, todo, temp, faults, deploys>>

\* No temporary schema: the sink goes on with the tables it finds
SkipMigration ==
    /\ phase = "migrating" /\ ~temp
    /\ phase' = "opening"
    /\ UNCHANGED <<config, package, db, tx, todo, temp, faults, deploys>>

StructureDiffers ==
    /\ phase = "migrating" /\ temp /\ ~SameStructure
    /\ phase' = "down"
    /\ UNCHANGED <<config, package, db, tx, todo, temp, faults, deploys>>

\* The inserters of the SQL drivers prepare the statement that stores the cursor, and the
\* row inserter, taken with constraints, one for every table; ClickHouse prepares none
Open ==
    /\ phase = "opening"
    /\ Driver # "clickhouse" => db.info
    /\ (UseConstraints /\ Driver # "clickhouse") =>
          \A t \in TablesOf[package] : db.built[t] # NoHash
    /\ phase' = "running"
    /\ UNCHANGED <<config, package, db, tx, todo, temp, faults, deploys>>

\* There is no table for it; or the row inserter names a table that is not there, or a
\* column its table does not have
OpenFails ==
    /\ phase = "opening" /\ Driver # "clickhouse"
    /\ ~db.info \/ (UseConstraints /\ ~SameStructure)
    /\ phase' = "down"
    /\ UNCHANGED <<config, package, db, tx, todo, temp, faults, deploys>>

\* Mutant: the tables of an open transaction survive a crash.
CrashKeepsTables ==
    /\ phase # "down" /\ faults < MaxFaults
    /\ faults' = faults + 1
    /\ db' = [db EXCEPT !.built = tx.built]
    /\ phase' = "down" /\ tx' = db' /\ todo' = {}
    /\ UNCHANGED <<config, package, temp, deploys>>

\* The process dies at any point; an open transaction is rolled back
Crash ==
    /\ phase # "down" /\ faults < MaxFaults
    /\ faults' = faults + 1
    /\ phase' = "down" /\ tx' = db /\ todo' = {}
    /\ UNCHANGED <<config, package, db, temp, deploys>>

(* The operator *)

Deploy ==
    /\ phase \in {"down", "running"} /\ deploys < MaxDeploys
    /\ \E h \in Hash \ {package} : package' = h
    /\ deploys' = deploys + 1
    /\ temp' = FALSE /\ phase' = "down"
    /\ UNCHANGED <<config, db, tx, todo, faults>>

PrepareTempSchema ==
    /\ phase = "down" /\ Driver # "clickhouse" /\ ~temp
    /\ db.hash \in Hash \ {package}
    /\ temp' = TRUE
    /\ UNCHANGED <<config, package, db, tx, todo, phase, faults, deploys>>

AlterTables ==
    /\ phase = "down" /\ temp /\ ~SameStructure
    /\ db' = [db EXCEPT !.built = MadeFor(package)] /\ tx' = db'
    /\ UNCHANGED <<config, package, todo, temp, phase, faults, deploys>>

Setup ==
    \/ Start \/ CreateSystemTables \/ (\E t \in Tables : CreateTable(t)) \/ ApplyConstraints
    \/ StoreSinkInfo \/ CreateHashFile \/ WriteHashFile \/ CommitTransaction
    \/ UpdateSinkInfoHash \/ SkipMigration \/ StructureDiffers \/ Open \/ OpenFails

Next == Setup \/ CommitFails \/ Crash \/ Deploy \/ PrepareTempSchema \/ AlterTables

Spec == Init /\ [][Next]_vars

\* A supervisor starts the process again and each statement is answered.
FairSpec == Spec /\ WF_vars(Setup)

-----------------------------------------------------------------------------
(* Properties *)

\* Types of the variables; outside a transaction tx is the database.
TypeOK ==
    /\ config \in Configs
    /\ package \in Hash
    /\ db \in Database /\ tx \in Database
    /\ todo \subseteq Tables
    /\ temp \in BOOLEAN
    /\ phase \in {"down", "creating", "tables", "storing", "writing", "committing",
                  "migrating", "opening", "running"}
    /\ faults \in 0 .. MaxFaults /\ deploys \in 0 .. MaxDeploys

\* The hash is stored last: whatever crashed before, a sink that runs finds every table of
\* the version whose hash is stored (or, after an operator's migration, the tables of the
\* version it migrated to) and, in PostgreSQL, the constraints that the undo of blocks
\* relies on.  The row inserter refuses to start without a table of the deployed package;
\* ClickHouse and the accumulators do not look, and run without the tables the package
\* added.
RunsOnTables ==
    phase = "running" =>
        /\ db.hash \in Hash
        /\ \/ \A t \in TablesOf[db.hash] : db.built[t] # NoHash
           \/ \E h \in Hash : db.built = MadeFor(h)
        /\ (UseConstraints /\ Driver # "clickhouse") =>
              \A t \in TablesOf[package] : db.built[t] # NoHash
        /\ (UseConstraints /\ Driver = "postgres") => db.constraints

\* In PostgreSQL a schema whose hash is stored has the tables of one version, all of them
\* and no other: a package deployed after an interrupted setup, or one whose commit failed
\* unnoticed, neither adopts the tables the other one had made nor leaves some behind.
OneVersion ==
    (Driver = "postgres" /\ db.hash \in Hash) => \E h \in Hash : db.built = MadeFor(h)

\* A setup in PostgreSQL that was interrupted, or whose commit failed, is taken up by the
\* next start and the sink runs, unless it is left with the tables of another version.
EventuallyRuns ==
    Driver = "postgres" =>
        (<>[](\A t \in Tables : db.built[t] \in {NoHash, package}) => <>[](phase = "running"))
=============================================================================
