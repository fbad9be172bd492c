------------------------ MODULE FromProtoSetupProofs ------------------------
(***************************************************************************)
(* Theorems about FromProtoSetup: whatever crashes, commits that fail and  *)
(* deployments come in between, a sink that runs finds what it needs, and  *)
(* PostgreSQL never mixes the tables of two versions.                      *)
(***************************************************************************)
EXTENDS FromProtoSetup, TLAPS

Creating == {"creating", "tables", "storing", "writing", "committing"}

Postgres == Driver = "postgres"

\* The constraints, if the database is to have any
Constrained(d) == UseConstraints /\ Postgres => d.constraints

\* A database with all tables of a version, and the constraints
Built(h, d) == (\A t \in TablesOf[h] : d.built[t] # NoHash) /\ Constrained(d)

\* The tables of one version and no other
Unmixed == \E h \in Hash : db.built = MadeFor(h)

\* A stored hash is the last thing a setup leaves; a migration leaves the tables of one
\* version, and so does PostgreSQL.
StoredInv ==
    /\ db.hash \in Hash => /\ db.info /\ Constrained(db)
                           /\ Built(db.hash, db) \/ Unmixed
    /\ Postgres => db = Nothing \/ (db.hash \in Hash /\ Unmixed)

\* How far the database at which the statements act has got
CreatingInv ==
    /\ phase \in Creating \ {"committing"} => db.hash \notin Hash
    /\ phase = "creating" => tx = db
    /\ phase = "tables" =>
          /\ \A t \in TablesOf[package] \ todo : Work.built[t] # NoHash
          /\ Driver # "clickhouse" => Work.info
    /\ phase \in {"storing", "writing", "committing"} =>
          /\ Built(package, Work)
          /\ Driver # "clickhouse" => Work.info
    /\ phase = "writing" => Driver = "clickhouse" /\ Work.info
    /\ phase = "committing" => Work.info /\ Work.hash = package

\* The tables in PostgreSQL's open transaction are those of the deployed package.
TransactionInv ==
    Postgres =>
        /\ phase \in Creating => db = Nothing
        /\ phase \in {"tables", "storing", "writing", "committing"} =>
              \A t \in Tables :
                  tx.built[t] \in IF t \in TablesOf[package] THEN {NoHash, package} ELSE {NoHash}
        /\ phase = "tables" => todo \subseteq TablesOf[package]
        /\ phase \in {"tables", "storing", "writing"} => tx.hash = NoHash

\* A sink gets to open its database with the hash stored, unless PostgreSQL's commit
\* failed; it runs, and is migrated, only with the hash stored.  The row inserters found
\* the tables of the package.
OpenInv ==
    /\ phase = "opening" /\ ~Postgres => db.hash \in Hash
    /\ phase \in {"migrating", "running"} => db.hash \in Hash
    /\ temp => db.hash \in Hash
    /\ (phase = "running" /\ UseConstraints /\ Driver # "clickhouse") =>
          \A t \in TablesOf[package] : db.built[t] # NoHash

IInv == TypeOK /\ StoredInv /\ CreatingInv /\ TransactionInv /\ OpenInv

-----------------------------------------------------------------------------
(* Types *)

LEMMA NothingTyped == Nothing \in Database
  BY DEF Nothing, Database

LEMMA MadeForTyped == \A h \in Hash : MadeFor(h) \in [Tables -> Hash \union {NoHash}]
  BY DEF MadeFor

LEMMA InitTypeOK == Init => TypeOK
<1> SUFFICES ASSUME Init PROVE TypeOK
  OBVIOUS
<1>1. temp \in BOOLEAN
  BY Zenon DEF Init
<1> QED BY <1>1, NothingTyped, FromProtoSetupAssumption DEF Init, TypeOK, FromProtoSetupAssumption

\* A statement changes the database or the open transaction, and nothing else.
LEMMA ExecuteTyped ==
    ASSUME TypeOK, NEW new \in Database, Execute(new)
    PROVE  db' \in Database /\ tx' \in Database
  BY DEF TypeOK, Execute

LEMMA WorkTyped == TypeOK => Work \in Database
  BY DEF TypeOK, Work

LEMMA SetupTypeOK == TypeOK /\ Setup => TypeOK'
<1> SUFFICES ASSUME TypeOK, Setup PROVE TypeOK'
  OBVIOUS
<1> USE FromProtoSetupAssumption DEF FromProtoSetupAssumption
<1>1. CASE Start
  BY <1>1 DEF Start, TypeOK, InfoMissing
<1>2. CASE CreateSystemTables
  <2>1. [Work EXCEPT !.info = @ \/ Driver # "clickhouse"] \in Database
    BY WorkTyped DEF Database
  <2> QED BY <1>2, <2>1, ExecuteTyped DEF CreateSystemTables, TypeOK
<1>3. ASSUME NEW t \in Tables, CreateTable(t) PROVE TypeOK'
  <2>1. [Work EXCEPT !.built[t] = IF @ = NoHash THEN package ELSE @] \in Database
    BY WorkTyped DEF Database, TypeOK
  <2> QED BY <1>3, <2>1, ExecuteTyped DEF CreateTable, TypeOK
<1>4. CASE ApplyConstraints
  <2>1. [Work EXCEPT !.constraints = @ \/ (UseConstraints /\ Driver = "postgres")] \in Database
    BY WorkTyped DEF Database
  <2> QED BY <1>4, <2>1, ExecuteTyped DEF ApplyConstraints, TypeOK
<1>5. CASE StoreSinkInfo
  <2>1. [Work EXCEPT !.hash = package] \in Database
    BY WorkTyped DEF Database, TypeOK
  <2> QED BY <1>5, <2>1, ExecuteTyped DEF StoreSinkInfo, TypeOK
<1>6. CASE CreateHashFile
  <2>1. [Work EXCEPT !.info = TRUE, !.hash = Torn] \in Database
    BY WorkTyped DEF Database
  <2> QED BY <1>6, <2>1, ExecuteTyped DEF CreateHashFile, TypeOK
<1>7. CASE WriteHashFile
  <2>1. [Work EXCEPT !.hash = package] \in Database
    BY WorkTyped DEF Database, TypeOK
  <2> QED BY <1>7, <2>1, ExecuteTyped DEF WriteHashFile, TypeOK
<1>8. CASE CommitTransaction
  BY <1>8, WorkTyped DEF CommitTransaction, TypeOK
<1>9. CASE UpdateSinkInfoHash
  BY <1>9 DEF UpdateSinkInfoHash, TypeOK, Database
<1>10. CASE SkipMigration
  BY <1>10 DEF SkipMigration, TypeOK
<1>11. CASE StructureDiffers
  BY <1>11 DEF StructureDiffers, TypeOK
<1>12. CASE Open
  BY <1>12 DEF Open, TypeOK
<1>13. CASE OpenFails
  BY <1>13 DEF OpenFails, TypeOK
<1> QED BY <1>1, <1>2, <1>3, <1>4, <1>5, <1>6, <1>7, <1>8, <1>9, <1>10, <1>11, <1>12, <1>13
        DEF Setup

LEMMA NextTypeOK == TypeOK /\ [Next]_vars => TypeOK'
<1> SUFFICES ASSUME TypeOK, [Next]_vars PROVE TypeOK'
  OBVIOUS
<1> USE FromProtoSetupAssumption DEF FromProtoSetupAssumption
<1>1. CASE Setup
  BY <1>1, SetupTypeOK
<1>2. CASE CommitFails
  BY <1>2 DEF CommitFails, TypeOK
<1>3. CASE Crash
  BY <1>3 DEF Crash, TypeOK
<1>4. CASE Deploy
  <2>1. temp' \in BOOLEAN
    BY <1>4, Zenon DEF Deploy
  <2> QED BY <1>4, <2>1 DEF Deploy, TypeOK
<1>5. CASE PrepareTempSchema
  BY <1>5 DEF PrepareTempSchema, TypeOK
<1>6. CASE AlterTables
  BY <1>6, MadeForTyped DEF AlterTables, TypeOK, Database
<1>7. CASE UNCHANGED vars
  BY <1>7 DEF vars, TypeOK
<1> QED BY <1>1, <1>2, <1>3, <1>4, <1>5, <1>6, <1>7 DEF Next

\* The variables keep their types in every behaviour: no step, whatever the driver, leaves
\* the database, the transaction or the setup's position outside what the code can hold.
THEOREM SetupTyped == Spec => []TypeOK
<1>1. TypeOK /\ [Next]_vars => TypeOK'
  BY NextTypeOK
<1> QED BY InitTypeOK, <1>1, PTL DEF Spec

-----------------------------------------------------------------------------
(* The invariant *)

\* What a statement leaves: in PostgreSQL the database stays as it was.
LEMMA ExecuteActs ==
    ASSUME NEW new, Execute(new), config' = config
    PROVE  /\ Work' = new
           /\ Postgres => db' = db /\ tx' = new
           /\ ~Postgres => db' = new
           /\ (Postgres <=> Postgres') /\ (UseConstraints <=> UseConstraints')
           /\ Driver' = Driver
  BY DEF Execute, Work, Postgres, Driver, UseConstraints

LEMMA NothingFields ==
    /\ ~Nothing.info /\ Nothing.hash = NoHash /\ ~Nothing.constraints
    /\ \A t \in Tables : Nothing.built[t] = NoHash
  BY DEF Nothing

LEMMA InitIInv == Init => IInv
<1> SUFFICES ASSUME Init PROVE IInv
  OBVIOUS
<1> USE FromProtoSetupAssumption DEF FromProtoSetupAssumption
<1>1. db = Nothing /\ phase = "down" /\ ~temp /\ db.hash \notin Hash
  BY NothingFields DEF Init
<1>2. StoredInv
  BY <1>1 DEF StoredInv
<1>3. CreatingInv
  BY <1>1 DEF CreatingInv, Creating
<1>4. TransactionInv
  BY <1>1 DEF TransactionInv, Creating
<1>5. OpenInv
  BY <1>1 DEF OpenInv
<1> QED BY <1>2, <1>3, <1>4, <1>5, InitTypeOK DEF IInv

\* The steps of CreateDatabase, which act where Work says.
LEMMA CreateIInv ==
    ASSUME IInv, TypeOK',
           CreateSystemTables \/ (\E t \in Tables : CreateTable(t)) \/ ApplyConstraints
    PROVE  IInv'
<1> USE FromProtoSetupAssumption DEF FromProtoSetupAssumption
<1> DEFINE AtWork == /\ Work \in Database /\ db \in Database /\ tx \in Database
                     /\ package \in Hash /\ NoHash \notin Hash /\ ~temp
                     /\ db.hash \notin Hash
                     /\ Postgres => Work = tx /\ db = Nothing
                     /\ ~Postgres => Work = db
<1>1. AtWork
  BY WorkTyped
     DEF IInv, TypeOK, CreatingInv, Creating, TransactionInv, OpenInv, Work, Postgres,
         CreateSystemTables, CreateTable, ApplyConstraints
<1>2. CASE CreateSystemTables
  <2> DEFINE new == [Work EXCEPT !.info = @ \/ Driver # "clickhouse"]
  <2>1. /\ new.hash = Work.hash /\ new.built = Work.built /\ new.constraints = Work.constraints
        /\ Driver # "clickhouse" => new.info
    BY <1>1 DEF Database
  <2> HIDE DEF new
  <2>2. Execute(new) /\ config' = config /\ todo' = TablesOf[package] /\ phase' = "tables"
        /\ package' = package /\ temp' = temp
    BY <1>2 DEF CreateSystemTables, new
  <2>3. Postgres => tx = Nothing
    BY <1>1, <1>2 DEF IInv, CreatingInv, CreateSystemTables
  <2>4. StoredInv'
    BY <1>1, <2>1, <2>2, ExecuteActs DEF StoredInv
  <2>5. CreatingInv'
    BY <1>1, <2>1, <2>2, ExecuteActs DEF CreatingInv, Creating
  <2>6. TransactionInv'
    BY <1>1, <2>1, <2>2, <2>3, ExecuteActs, NothingFields DEF TransactionInv, Creating
  <2>7. OpenInv'
    BY <1>1, <2>2 DEF OpenInv
  <2> QED BY <2>4, <2>5, <2>6, <2>7 DEF IInv
<1>3. ASSUME NEW t \in Tables, CreateTable(t) PROVE IInv'
  <2> DEFINE new == [Work EXCEPT !.built[t] = IF @ = NoHash THEN package ELSE @]
  <2>1. /\ new.hash = Work.hash /\ new.info = Work.info
        /\ \A u \in Tables \ {t} : new.built[u] = Work.built[u]
        /\ new.built[t] = IF Work.built[t] = NoHash THEN package ELSE Work.built[t]
    BY <1>1 DEF Database
  <2> HIDE DEF new
  <2>2. Execute(new) /\ config' = config /\ todo' = todo \ {t} /\ t \in todo
        /\ phase = "tables" /\ phase' = "tables" /\ package' = package /\ temp' = temp
    BY <1>3 DEF CreateTable, new
  <2>3. StoredInv'
    BY <1>1, <2>1, <2>2, ExecuteActs DEF StoredInv
  <2>4. CreatingInv'
    BY <1>1, <2>1, <2>2, ExecuteActs DEF IInv, CreatingInv, Creating
  <2>5. TransactionInv'
    BY <1>1, <2>1, <2>2, ExecuteActs DEF IInv, TransactionInv, Creating
  <2>6. OpenInv'
    BY <1>1, <2>2 DEF OpenInv
  <2> QED BY <2>3, <2>4, <2>5, <2>6 DEF IInv
<1>4. CASE ApplyConstraints
  <2> DEFINE new == [Work EXCEPT !.constraints = @ \/ (UseConstraints /\ Driver = "postgres")]
  <2>1. /\ new.hash = Work.hash /\ new.info = Work.info /\ new.built = Work.built
        /\ UseConstraints /\ Driver = "postgres" => new.constraints
    BY <1>1 DEF Database
  <2> HIDE DEF new
  <2>2. Execute(new) /\ config' = config /\ phase = "tables" /\ todo = {}
        /\ phase' = "storing" /\ package' = package /\ temp' = temp
    BY <1>4 DEF ApplyConstraints, new
  <2>3. StoredInv'
    BY <1>1, <2>1, <2>2, ExecuteActs DEF StoredInv
  <2>4. Built(package, Work)'
    BY <2>1, <2>2, ExecuteActs DEF IInv, CreatingInv, Built, Constrained, Postgres
  <2>5. CreatingInv'
    BY <1>1, <2>1, <2>2, <2>4, ExecuteActs DEF IInv, CreatingInv, Creating
  <2>6. TransactionInv'
    BY <1>1, <2>1, <2>2, ExecuteActs DEF IInv, TransactionInv, Creating
  <2>7. OpenInv'
    BY <1>1, <2>2 DEF OpenInv
  <2> QED BY <2>3, <2>5, <2>6, <2>7 DEF IInv
<1> QED BY <1>2, <1>3, <1>4

\* The steps that store the hash, the last of CreateDatabase.
LEMMA StoreIInv ==
    ASSUME IInv, TypeOK', StoreSinkInfo \/ CreateHashFile \/ WriteHashFile
    PROVE  IInv'
<1> USE FromProtoSetupAssumption DEF FromProtoSetupAssumption
<1>1. /\ Work \in Database /\ package \in Hash /\ ~temp /\ Built(package, Work)
      /\ Postgres => Work = tx /\ db = Nothing
      /\ ~Postgres => Work = db
      /\ Driver # "clickhouse" => Work.info
      /\ Postgres => \A t \in Tables :
            tx.built[t] \in IF t \in TablesOf[package] THEN {NoHash, package} ELSE {NoHash}
  BY WorkTyped
     DEF IInv, TypeOK, CreatingInv, Creating, TransactionInv, OpenInv, Work, Postgres,
         StoreSinkInfo, CreateHashFile, WriteHashFile
<1>2. CASE StoreSinkInfo
  <2> DEFINE new == [Work EXCEPT !.hash = package]
  <2>1. /\ new.hash = package /\ new.info = Work.info /\ new.built = Work.built
        /\ new.constraints = Work.constraints
    BY <1>1 DEF Database
  <2> HIDE DEF new
  <2>2. /\ Execute(new) /\ config' = config /\ phase' = "committing" /\ Driver # "clickhouse"
        /\ package' = package /\ temp' = temp
    BY <1>2 DEF StoreSinkInfo, new
  <2>3. Built(package, Work)'
    BY <1>1, <2>1, <2>2, ExecuteActs DEF Built, Constrained
  <2>4. StoredInv'
    BY <1>1, <2>1, <2>2, <2>3, ExecuteActs, NothingFields
       DEF StoredInv, Built, Constrained, Work, Postgres
  <2>5. CreatingInv'
    BY <1>1, <2>1, <2>2, <2>3, ExecuteActs DEF CreatingInv, Creating
  <2>6. TransactionInv'
    BY <1>1, <2>1, <2>2, ExecuteActs DEF TransactionInv, Creating
  <2>7. OpenInv'
    BY <1>1, <2>2 DEF OpenInv
  <2> QED BY <2>4, <2>5, <2>6, <2>7 DEF IInv
<1>3. CASE CreateHashFile
  <2> DEFINE new == [Work EXCEPT !.info = TRUE, !.hash = Torn]
  <2>1. /\ new.hash = Torn /\ new.info /\ new.built = Work.built
        /\ new.constraints = Work.constraints
    BY <1>1 DEF Database
  <2> HIDE DEF new
  <2>2. /\ Execute(new) /\ config' = config /\ phase' = "writing" /\ Driver = "clickhouse"
        /\ package' = package /\ temp' = temp /\ ~Postgres
    BY <1>3 DEF CreateHashFile, new, Postgres
  <2>3. Built(package, Work)'
    BY <1>1, <2>1, <2>2, ExecuteActs DEF Built, Constrained
  <2>4. StoredInv'
    BY <2>1, <2>2, ExecuteActs DEF StoredInv
  <2>5. CreatingInv'
    BY <1>1, <2>1, <2>2, <2>3, ExecuteActs DEF CreatingInv, Creating
  <2>6. TransactionInv'
    BY <2>2, ExecuteActs DEF TransactionInv
  <2>7. OpenInv'
    BY <1>1, <2>2 DEF OpenInv
  <2> QED BY <2>4, <2>5, <2>6, <2>7 DEF IInv
<1>4. CASE WriteHashFile
  <2> DEFINE new == [Work EXCEPT !.hash = package]
  <2>1. /\ new.hash = package /\ new.info = Work.info /\ new.built = Work.built
        /\ new.constraints = Work.constraints
    BY <1>1 DEF Database
  <2> HIDE DEF new
  <2>2. /\ Execute(new) /\ config' = config /\ phase' = "committing" /\ temp' = temp
        /\ package' = package /\ ~Postgres /\ Work.info
    BY <1>4 DEF WriteHashFile, new, IInv, CreatingInv, Postgres
  <2>3. Built(package, Work)'
    BY <1>1, <2>1, <2>2, ExecuteActs DEF Built, Constrained
  <2>4. StoredInv'
    BY <1>1, <2>1, <2>2, <2>3, ExecuteActs DEF StoredInv, Built, Work, Postgres
  <2>5. CreatingInv'
    BY <1>1, <2>1, <2>2, <2>3, ExecuteActs DEF CreatingInv, Creating
  <2>6. TransactionInv'
    BY <2>2, ExecuteActs DEF TransactionInv
  <2>7. OpenInv'
    BY <1>1, <2>2 DEF OpenInv
  <2> QED BY <2>4, <2>5, <2>6, <2>7 DEF IInv
<1> QED BY <1>2, <1>3, <1>4

\* The end of the transaction, whether it is committed or not.
LEMMA CommitIInv ==
    ASSUME IInv, TypeOK', CommitTransaction \/ CommitFails
    PROVE  IInv'
<1> USE FromProtoSetupAssumption DEF FromProtoSetupAssumption
<1>1. /\ phase = "committing" /\ phase' = "opening" /\ package' = package /\ temp' = temp
      /\ (Postgres' <=> Postgres) /\ (UseConstraints' <=> UseConstraints)
  BY DEF CommitTransaction, CommitFails, Postgres, Driver, UseConstraints
<1>2. Built(package, Work) /\ Work.info /\ Work.hash = package /\ package \in Hash
  BY <1>1 DEF IInv, CreatingInv, TypeOK
<1>3. Postgres => db = Nothing /\ Work = tx /\ ~temp /\ tx.built = MadeFor(package)
  <2>1. SUFFICES ASSUME Postgres
                 PROVE  db = Nothing /\ Work = tx /\ ~temp /\ tx.built = MadeFor(package)
    OBVIOUS
  <2>2. db = Nothing /\ Work = tx
    BY <1>1, <2>1 DEF IInv, TransactionInv, Creating, Work, Postgres
  <2>3. ~temp
    BY <2>2, NothingFields DEF IInv, OpenInv
  <2>4. \A t \in Tables : tx.built[t] = IF t \in TablesOf[package] THEN package ELSE NoHash
    BY <1>1, <1>2, <2>1, <2>2 DEF IInv, TransactionInv, Built
  <2>5. tx.built \in [Tables -> Hash \union {NoHash}]
    BY DEF IInv, TypeOK, Database
  <2>6. tx.built = MadeFor(package)
    BY <2>4, <2>5 DEF MadeFor
  <2> QED BY <2>2, <2>3, <2>6
<1>4. Postgres => db' \in {Nothing, tx}
  BY <1>3 DEF CommitTransaction, CommitFails
<1>5. ~Postgres => db' = db /\ Work = db
  BY DEF CommitTransaction, CommitFails, Work, Postgres
<1>6. StoredInv'
  <2>1. CASE Postgres /\ db' = Nothing
    BY <1>1, <2>1, NothingFields DEF StoredInv
  <2>2. CASE Postgres /\ db' = tx
    BY <1>1, <1>2, <1>3, <2>2 DEF StoredInv, Unmixed, Built, Constrained, MadeFor
  <2>3. CASE ~Postgres
    BY <1>1, <1>2, <1>5, <2>3 DEF StoredInv, Built, Constrained
  <2> QED BY <1>4, <2>1, <2>2, <2>3
<1>7. CreatingInv' /\ TransactionInv'
  BY <1>1 DEF CreatingInv, TransactionInv, Creating
<1>8. OpenInv'
  BY <1>1, <1>2, <1>3, <1>5 DEF IInv, OpenInv
<1> QED BY <1>6, <1>7, <1>8 DEF IInv

\* Steps that leave the database alone: starting, opening, giving up, and the operator's.
LEMMA IdleIInv ==
    ASSUME IInv, TypeOK',
           \/ Start \/ UpdateSinkInfoHash \/ SkipMigration \/ StructureDiffers \/ Open
           \/ OpenFails \/ Crash \/ Deploy \/ PrepareTempSchema \/ UNCHANGED vars
    PROVE  IInv'
<1> USE FromProtoSetupAssumption DEF FromProtoSetupAssumption
<1>1. db' = db /\ config' = config
  BY DEF IInv, TypeOK, Database, Start, UpdateSinkInfoHash, SkipMigration, StructureDiffers,
         Open, OpenFails, Crash, Deploy, PrepareTempSchema, vars
<1>2. /\ (Postgres' <=> Postgres) /\ (UseConstraints' <=> UseConstraints)
      /\ Driver' = Driver
  BY <1>1 DEF Postgres, Driver, UseConstraints
<1>3. StoredInv'
  BY <1>1, <1>2 DEF IInv, StoredInv, Built, Unmixed, Constrained, MadeFor
<1>4. CASE Start
  <2>1. /\ temp' = temp /\ tx' = db' /\ phase' \in {"creating", "opening", "migrating"}
        /\ phase' = "creating" => ~db.info
        /\ phase' \in {"opening", "migrating"} => db.hash \in Hash
    BY <1>1, <1>4 DEF Start, InfoMissing, InfoUnreadable, IInv, TypeOK
  <2>2. phase' = "creating" => db.hash \notin Hash /\ (Postgres => db = Nothing)
    BY <2>1 DEF IInv, StoredInv
  <2>3. CreatingInv'
    BY <1>1, <2>1, <2>2 DEF CreatingInv, Creating
  <2>4. TransactionInv'
    BY <1>1, <1>2, <2>1, <2>2 DEF TransactionInv, Creating
  <2>5. OpenInv'
    BY <1>1, <1>2, <2>1 DEF IInv, OpenInv
  <2> QED BY <1>3, <2>3, <2>4, <2>5 DEF IInv
<1>5. CASE UpdateSinkInfoHash \/ SkipMigration \/ Open \/ StructureDiffers \/ OpenFails
           \/ Crash \/ Deploy \/ PrepareTempSchema
  <2>1. phase' \in {"down", "opening", "running"}
    BY <1>5 DEF UpdateSinkInfoHash, SkipMigration, Open, StructureDiffers, OpenFails, Crash,
                Deploy, PrepareTempSchema
  <2>2. CreatingInv' /\ TransactionInv'
    BY <2>1 DEF CreatingInv, TransactionInv, Creating
  <2>3. phase' = "opening" => db.hash \in Hash
    BY <1>5 DEF UpdateSinkInfoHash, SkipMigration, Open, StructureDiffers, OpenFails, Crash,
                Deploy, PrepareTempSchema, IInv, OpenInv
  <2>4. phase' = "running" => db.hash \in Hash
    <3>1. SUFFICES ASSUME Open PROVE db.hash \in Hash
      BY <1>5 DEF UpdateSinkInfoHash, SkipMigration, Open, StructureDiffers, OpenFails, Crash,
                  Deploy, PrepareTempSchema
    <3>2. CASE Postgres
      BY <3>1, <3>2, NothingFields DEF Open, Postgres, IInv, StoredInv
    <3>3. CASE ~Postgres
      BY <3>1, <3>3 DEF Open, IInv, OpenInv
    <3> QED BY <3>2, <3>3
  <2>5. temp' => db.hash \in Hash
    BY <1>5 DEF UpdateSinkInfoHash, SkipMigration, Open, StructureDiffers, OpenFails, Crash,
                Deploy, PrepareTempSchema, IInv, OpenInv
  <2>6. (phase' = "running" /\ UseConstraints /\ Driver # "clickhouse") =>
            \A t \in TablesOf[package'] : db.built[t] # NoHash
    BY <1>5 DEF UpdateSinkInfoHash, SkipMigration, Open, StructureDiffers, OpenFails, Crash,
                Deploy, PrepareTempSchema
  <2>7. OpenInv'
    BY <1>1, <1>2, <2>1, <2>3, <2>4, <2>5, <2>6 DEF OpenInv
  <2> QED BY <1>3, <2>2, <2>7 DEF IInv
<1>6. CASE UNCHANGED vars
  BY <1>6 DEF vars, IInv, StoredInv, CreatingInv, TransactionInv, OpenInv, Built, Work,
              Unmixed, Constrained, MadeFor, Postgres, Driver, UseConstraints, Creating
<1> QED BY <1>4, <1>5, <1>6

\* The operator's ALTERs bring every table to the deployed version and leave the hash.
LEMMA AlterIInv ==
    ASSUME IInv, TypeOK', AlterTables
    PROVE  IInv'
<1> USE FromProtoSetupAssumption DEF FromProtoSetupAssumption
<1>1. /\ phase' = "down" /\ config' = config /\ package \in Hash
      /\ db'.info = db.info /\ db'.hash = db.hash /\ db'.constraints = db.constraints
      /\ db'.built = MadeFor(package)
  BY DEF AlterTables, IInv, TypeOK, Database
<1>2. db.hash \in Hash
  BY DEF AlterTables, IInv, OpenInv
<1>3. StoredInv'
  BY <1>1, <1>2
     DEF IInv, StoredInv, Unmixed, Constrained, MadeFor, Postgres, Driver, UseConstraints
<1>4. CreatingInv' /\ TransactionInv' /\ OpenInv'
  BY <1>1, <1>2 DEF CreatingInv, TransactionInv, OpenInv, Creating
<1> QED BY <1>3, <1>4 DEF IInv

LEMMA NextIInv == IInv /\ [Next]_vars => IInv'
<1> SUFFICES ASSUME IInv, [Next]_vars PROVE IInv'
  OBVIOUS
<1>1. TypeOK'
  BY NextTypeOK DEF IInv
<1>2. CASE CreateSystemTables \/ (\E t \in Tables : CreateTable(t)) \/ ApplyConstraints
  BY <1>1, <1>2, CreateIInv
<1>3. CASE StoreSinkInfo \/ CreateHashFile \/ WriteHashFile
  BY <1>1, <1>3, StoreIInv
<1>4. CASE CommitTransaction \/ CommitFails
  BY <1>1, <1>4, CommitIInv
<1>5. CASE \/ Start \/ UpdateSinkInfoHash \/ SkipMigration \/ StructureDiffers \/ Open
           \/ OpenFails \/ Crash \/ Deploy \/ PrepareTempSchema \/ UNCHANGED vars
  BY <1>1, <1>5, IdleIInv
<1>6. CASE AlterTables
  BY <1>1, <1>6, AlterIInv
<1> QED BY <1>2, <1>3, <1>4, <1>5, <1>6 DEF Next, Setup

LEMMA SetupInvariant == Spec => []IInv
  BY InitIInv, NextIInv, PTL DEF Spec

-----------------------------------------------------------------------------
(* Theorems *)

\* For any versions with any tables, and any number of crashes, failed commits and
\* deployments: the hash is stored last, so a sink that runs finds it, every table of the
\* version it stands for (after an operator's migration: exactly the tables of one version)
\* and, in PostgreSQL, the constraints its undo relies on; the row inserter finds the tables
\* of the deployed package as well.
THEOREM RunsWithTables == Spec => []RunsOnTables
<1>1. IInv => RunsOnTables
  BY DEF IInv, StoredInv, OpenInv, RunsOnTables, Built, Unmixed, Constrained, Postgres
<1> QED BY <1>1, SetupInvariant, PTL

\* PostgreSQL creates all tables and stores the hash in one transaction: no crash, failed
\* commit or deployment in between leaves tables of two versions, or some of one, under one
\* hash.
THEOREM NeverMixed == Spec => []OneVersion
<1>1. IInv => OneVersion
  BY NothingFields, FromProtoSetupAssumption
     DEF IInv, StoredInv, OneVersion, Unmixed, Postgres, FromProtoSetupAssumption
<1> QED BY <1>1, SetupInvariant, PTL
=============================================================================
