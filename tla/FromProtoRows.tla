---------------------------- MODULE FromProtoRows ---------------------------
(***************************************************************************)
(* How from-proto turns a message into rows: the columns it derives from   *)
(* the message descriptors (src/db_proto/sql/schema), the order of the     *)
(* columns in each database's tables and INSERTs, and the walk over a      *)
(* message that collects the values and inserts parents before children    *)
(* (src/db_proto/sql/database.go).  Values and columns meet only by their  *)
(* position.                                                               *)
(*                                                                         *)
(* The messages of a module form a chain of types, level 1 the root: a     *)
(* field that is a message, or a list of them, has the type of the next    *)
(* level.  A value is known by the number of its field, the key handed     *)
(* down to a message also by the message it is the key of; the keys of     *)
(* different messages differ.                                              *)
(***************************************************************************)
EXTENDS Integers, Sequences, FiniteSets, SequencesExt

CONSTANTS
    Drivers,       \* the databases: "postgres", "risingwave", "clickhouse"
    Levels,        \* number of message types
    MaxFields,     \* fields of a message type
    MaxOfKind,     \* fields of one kind in a message type
    ListLength,    \* messages in a list that is not empty
    FieldKind,     \* kinds of fields that occur, a subset of Kinds
    ChildOfKind,   \* kinds of the fields child_of may name
    MaxStray       \* tables whose child_of does not follow the nesting of the messages

\* "id" is a key that several tables call by the same name, "block_number" a scalar of
\* that name, which is the one RisingWave has for a system column
Kinds == {"scalar", "block_number", "key", "id", "array", "oneof", "message", "messages"}
KeyKinds == {"key", "id"}
ScalarKinds == {"scalar", "block_number"}

ASSUME FromProtoRowsAssumption ==
    /\ Drivers \subseteq {"postgres", "risingwave", "clickhouse"}
    /\ Levels \in Nat \ {0} /\ MaxFields \in Nat /\ MaxOfKind \in Nat
    /\ ListLength \in Nat \ {0}
    /\ FieldKind \subseteq Kinds /\ ChildOfKind \subseteq Kinds
    /\ MaxStray \in Nat

VARIABLES
    driver,     \* the database of this sink
    desc,       \* desc[l]: the kinds of the fields of message type l
    useProtoOptions, \* the package has the proto options
    annotated,  \* message types with a table option
    childOf,    \* the table option child_of: the message type and the field it names
    present,    \* present[l][i]: the field is set, or its list is not empty
    todo,       \* messages still to be walked, depth first
    inserted,   \* the rows, in the order of their INSERTs
    phase

schemaVars == <<driver, desc, useProtoOptions, annotated, childOf, present>>
vars == <<schemaVars, todo, inserted, phase>>

Level == 1 .. Levels
IsMessage(kind) == kind \in {"message", "messages"}

\* The numbers of S in ascending order
Ascending(S) ==
    CHOOSE s \in [1 .. Cardinality(S) -> S] :
        Range(s) = S /\ \A n, m \in DOMAIN s : n < m => s[n] < s[m]

-----------------------------------------------------------------------------
(* The schema *)

\* The columns that are not fields: the system columns and the key of the parent
BlockNumber == -1
Timestamp == -2
Version == -3
Deleted == -4
ParentKey == -5

\* NewColumn, processColumns: oneof members and messages are not columns
ColumnFields(l) ==
    {i \in 1 .. Len(desc[l]) : desc[l][i] \in ScalarKinds \union KeyKinds \union {"array"}}

Columns(l) == Ascending(ColumnFields(l))

Keys(l) == {i \in 1 .. Len(desc[l]) : desc[l][i] \in KeyKinds}

\* NewTable refuses a second primary key
MultipleKeys(l) == Cardinality(Keys(l)) > 1

\* A table is made for a message that has columns: for an annotated one, if the package has
\* the options
HasTable(l) == (useProtoOptions => l \in annotated) /\ ColumnFields(l) # {}
HasKey(l) == HasTable(l) /\ Keys(l) # {}

KeyColumn(l) == IF HasKey(l) THEN <<CHOOSE i \in Keys(l) : TRUE>> ELSE <<>>
OtherColumns(l) == Ascending(ColumnFields(l) \ Keys(l))

\* child_of names a column of any table, or is absent; createTable looks both up
NoChildOf == <<>>
ChildOf(l) == IF childOf[l] = NoChildOf THEN <<>> ELSE <<ParentKey>>

\* The nearest message above that has a key: the one whose key is handed down
Parents(l) == {a \in 1 .. (l - 1) : HasKey(a) /\ \A w \in (a + 1) .. (l - 1) : ~HasKey(w)}

KeyOf(a) == <<a>> \o KeyColumn(a)

\* child_of follows the nesting of the messages: it names the key that is handed down
ChildOfNearest(l) == childOf[l] = IF Parents(l) = {} THEN NoChildOf
                                  ELSE KeyOf(CHOOSE a \in Parents(l) : TRUE)

\* createInsertFromDescriptor of PostgreSQL
PostgresColumns(l) ==
    <<BlockNumber, Timestamp>> \o KeyColumn(l) \o ChildOf(l) \o OtherColumns(l)

\* createInsertFromDescriptor of RisingWave
RisingwaveColumns(l) ==
    <<BlockNumber, Timestamp>> \o KeyColumn(l) \o ChildOf(l) \o OtherColumns(l)

\* Mutant: the key of the parent comes before the primary key.
ParentBeforeKey(l) ==
    <<BlockNumber, Timestamp, Version, Deleted>>
        \o ChildOf(l) \o KeyColumn(l) \o OtherColumns(l)

\* createAccumulators of ClickHouse
ClickhouseColumns(l) ==
    <<BlockNumber, Timestamp, Version, Deleted>>
        \o KeyColumn(l) \o ChildOf(l) \o OtherColumns(l)

InsertColumns(l) ==
    CASE driver = "postgres" -> PostgresColumns(l)
      [] driver = "risingwave" -> RisingwaveColumns(l)
      [] OTHER -> ClickhouseColumns(l)

\* The name a column goes by.  The system columns of RisingWave are called block_number and
\* block_timestamp, those of the others _block_number_ and _block_timestamp_; the column for
\* the parent has the name child_of gives.  A name is a pair of numbers, the first of them
\* the type of the message unless several types share the name.
Shared(n) == <<0, n>>
IdName == 1
NumberName == 2

FieldName(l, i) ==
    CASE desc[l][i] = "id" -> Shared(IdName)
      [] desc[l][i] = "block_number" -> Shared(NumberName)
      [] OTHER -> <<l, i>>

ColumnName(l, c) ==
    CASE c > 0 -> FieldName(l, c)
      [] c = ParentKey -> FieldName(childOf[l][1], childOf[l][2])
      [] OTHER -> Shared(IF c = BlockNumber /\ driver = "risingwave" THEN NumberName ELSE c)

ColumnNames(l, columns) == [n \in DOMAIN columns |-> ColumnName(l, columns[n])]

\* createTable of PostgreSQL: the columns with their names, one clause each
PostgresTable(l) ==
    ColumnNames(l, <<BlockNumber, Timestamp>> \o KeyColumn(l) \o ChildOf(l) \o OtherColumns(l))

\* The names createTable of RisingWave goes through
RisingwaveNames(l) ==
    ColumnNames(l, <<BlockNumber, Timestamp>> \o KeyColumn(l) \o ChildOf(l) \o OtherColumns(l))

\* The places of the names that have not occurred before
FirstTimes(names) == {n \in DOMAIN names : \A m \in 1 .. (n - 1) : names[m] # names[n]}

\* createTable of RisingWave passes over a name it has already added
RisingwaveTable(l) ==
    [n \in DOMAIN Ascending(FirstTimes(RisingwaveNames(l))) |->
        RisingwaveNames(l)[Ascending(FirstTimes(RisingwaveNames(l)))[n]]]

\* Mutant: the table has no column for the key of the parent.
ClickhouseTableNoParent(l) ==
    ColumnNames(l, <<BlockNumber, Timestamp, Version, Deleted>>
                     \o KeyColumn(l) \o OtherColumns(l))

\* createTable of ClickHouse
ClickhouseTable(l) ==
    ColumnNames(l, <<BlockNumber, Timestamp, Version, Deleted>>
                     \o KeyColumn(l) \o ChildOf(l) \o OtherColumns(l))

TableColumns(l) ==
    CASE driver = "postgres" -> PostgresTable(l)
      [] driver = "risingwave" -> RisingwaveTable(l)
      [] OTHER -> ClickhouseTable(l)

\* Mutant: the keys come first in a tombstone, as in the table.
TombstoneInOrder(l) ==
    <<BlockNumber, Timestamp, Version, Deleted>> \o KeyColumn(l) \o ChildOf(l) \o OtherColumns(l)

\* The columns HandleBlocksUndo of ClickHouse selects into the table for a tombstone
TombstoneColumns(l) ==
    <<BlockNumber, Timestamp, Version, Deleted>> \o ChildOf(l) \o Columns(l)

-----------------------------------------------------------------------------
(* The walk *)

\* The parent of a message that has none; no message has this for its places
NoParent == <<0>>

\* The values of the fields, in the order of the descriptor.  An unset oneof member and
\* anything that is not a column is passed over; an empty list adds nothing.
FieldValues(l) ==
    Ascending({i \in ColumnFields(l) \ Keys(l) : desc[l][i] = "array" => present[l][i]})

Meta == IF driver = "clickhouse" THEN <<BlockNumber, Timestamp, Version, Deleted>>
                                 ELSE <<BlockNumber, Timestamp>>

Values(m) ==
    Meta \o KeyColumn(m.level)
         \o (IF m.parent = NoParent THEN <<>> ELSE <<ParentKey>>)
         \o FieldValues(m.level)

\* A message is known by the places it and those above it have in the message around
\* them: the c-th message of field i is at Place(i, c)
Place(i, c) == (i - 1) * ListLength + c

Places(l) ==
    UNION {{Place(i, c) : c \in 1 .. (IF desc[l][i] = "messages" THEN ListLength ELSE 1)} :
              i \in {j \in 1 .. Len(desc[l]) : IsMessage(desc[l][j]) /\ present[l][j]}}

Root == [level |-> 1, id |-> <<>>, parent |-> NoParent]

\* The messages below m, in field order
Children(m, parent) ==
    [n \in DOMAIN Ascending(Places(m.level)) |->
        [level |-> m.level + 1, id |-> Append(m.id, Ascending(Places(m.level))[n]),
         parent |-> parent]]

\* A table without a key, whose message has no parent either, has nothing to hand down
NothingToPropagate(m) ==
    /\ useProtoOptions
    /\ HasTable(m.level) /\ ~HasKey(m.level)
    /\ m.parent = NoParent
    /\ Places(m.level) # {}

\* The INSERT has more values than columns, or less, or names a column twice: the database
\* refuses it, or the inserter of ClickHouse does
Misfits(m) ==
    /\ HasTable(m.level)
    /\ \/ Len(Values(m)) # Len(InsertColumns(m.level))
       \/ ~IsInjective(ColumnNames(m.level, InsertColumns(m.level)))

-----------------------------------------------------------------------------
\* Bounds: a message type has MaxFields fields, MaxOfKind of each kind.  Every type but the
\* last has messages of the next one: what no message holds is not part of the schema.
Descriptors(l) ==
    {s \in BoundedSeq(FieldKind, MaxFields) :
        /\ Len(s) > 0
        /\ (\E i \in DOMAIN s : IsMessage(s[i])) <=> l < Levels
        /\ \A k \in FieldKind : Cardinality({i \in DOMAIN s : s[i] = k}) <= MaxOfKind}

\* What child_of may name: a column of a table
ChildOfs ==
    {f \in Level \X (1 .. MaxFields) :
        HasTable(f[1]) /\ f[2] \in ColumnFields(f[1]) /\ desc[f[1]][f[2]] \in ChildOfKind}

Init ==
    /\ driver \in Drivers
    /\ desc \in {d \in [Level -> UNION {Descriptors(l) : l \in Level}] :
                    \A l \in Level : d[l] \in Descriptors(l)}
    /\ \A l \in Level : ~MultipleKeys(l)
    /\ useProtoOptions \in BOOLEAN
    /\ annotated \in SUBSET Level
    /\ ~useProtoOptions => annotated = {} /\ \A l \in Level : Keys(l) = {}
    /\ present \in [Level -> [1 .. MaxFields -> BOOLEAN]]
    /\ \A l \in Level, i \in 1 .. MaxFields :
          (i > Len(desc[l]) \/ desc[l][i] \in ScalarKinds \union KeyKinds \union {"oneof"})
            => present[l][i]
    /\ childOf \in [Level -> {NoChildOf} \union IF useProtoOptions THEN ChildOfs ELSE {}]
    /\ \A l \in Level : childOf[l] # NoChildOf => HasTable(l)
    /\ Cardinality({l \in Level : HasTable(l) /\ ~ChildOfNearest(l)}) <= MaxStray
    /\ todo = <<Root>>
    /\ inserted = <<>>
    /\ phase = "walking"

\* Mutant: a message without a key hands nothing down.
WalkForgetsParent ==
    LET m == Head(todo)
        parent == IF HasKey(m.level) THEN m.id ELSE NoParent
    IN  /\ phase = "walking" /\ todo # <<>>
        /\ ~NothingToPropagate(m) /\ ~Misfits(m)
        /\ inserted' = IF HasTable(m.level)
                       THEN Append(inserted, [level |-> m.level, id |-> m.id,
                                              parent |-> m.parent, values |-> Values(m)])
                       ELSE inserted
        /\ todo' = Children(m, parent) \o Tail(todo)
        /\ UNCHANGED <<schemaVars, phase>>

\* Mutant: a message without a key is the parent of those below it.
WalkWithoutKey ==
    LET m == Head(todo)
        parent == m.id
    IN  /\ phase = "walking" /\ todo # <<>>
        /\ ~NothingToPropagate(m) /\ ~Misfits(m)
        /\ inserted' = IF HasTable(m.level)
                       THEN Append(inserted, [level |-> m.level, id |-> m.id,
                                              parent |-> m.parent, values |-> Values(m)])
                       ELSE inserted
        /\ todo' = Children(m, parent) \o Tail(todo)
        /\ UNCHANGED <<schemaVars, phase>>

\* Mutant: the walk ends with the first branch.
WalkFirstBranch ==
    LET m == Head(todo)
        parent == IF HasKey(m.level) THEN m.id ELSE m.parent
    IN  /\ phase = "walking" /\ todo # <<>>
        /\ ~NothingToPropagate(m) /\ ~Misfits(m)
        /\ inserted' = IF HasTable(m.level)
                       THEN Append(inserted, [level |-> m.level, id |-> m.id,
                                              parent |-> m.parent, values |-> Values(m)])
                       ELSE inserted
        /\ todo' = Children(m, parent)
        /\ UNCHANGED <<schemaVars, phase>>

\* WalkMessageDescriptorAndInsertWithDialect: the row of a message, then its children
Walk ==
    LET m == Head(todo)
        parent == IF HasKey(m.level) THEN m.id ELSE m.parent
    IN  /\ phase = "walking" /\ todo # <<>>
        /\ ~NothingToPropagate(m) /\ ~Misfits(m)
        /\ inserted' = IF HasTable(m.level)
                       THEN Append(inserted, [level |-> m.level, id |-> m.id,
                                              parent |-> m.parent, values |-> Values(m)])
                       ELSE inserted
        /\ todo' = Children(m, parent) \o Tail(todo)
        /\ UNCHANGED <<schemaVars, phase>>

\* An error ends the process, and PostgreSQL rolls the transaction back
Fail ==
    /\ phase = "walking" /\ todo # <<>>
    /\ NothingToPropagate(Head(todo)) \/ Misfits(Head(todo))
    /\ phase' = "failed"
    /\ UNCHANGED <<schemaVars, todo, inserted>>

Done ==
    /\ phase = "walking" /\ todo = <<>>
    /\ phase' = "done"
    /\ UNCHANGED <<schemaVars, todo, inserted>>

Ended == phase \in {"done", "failed"} /\ UNCHANGED vars

Next == Walk \/ Fail \/ Done \/ Ended

Spec == Init /\ [][Next]_vars

-----------------------------------------------------------------------------
(* Properties *)

\* A list of scalars that is empty adds no value at all
NoEmptyList(l) == \A i \in 1 .. Len(desc[l]) : desc[l][i] = "array" => present[l][i]

\* The values of a row are those of the columns, position by position, and the value for
\* the parent is of the column child_of names.
Aligned(row) ==
    /\ row.values = InsertColumns(row.level)
    /\ row.parent # NoParent => childOf[row.level] = KeyOf(Len(row.parent) + 1)

\* The rows whose values the database takes have them in the right columns exactly if
\* child_of follows the nesting and no list of scalars is empty: a key is handed down and
\* added to the values whatever child_of says, and one value too many makes up for one
\* that an empty list leaves out.
ValuesAligned ==
    \A n \in DOMAIN inserted :
        LET l == inserted[n].level
        IN  Aligned(inserted[n]) <=> NoEmptyList(l) /\ ChildOfNearest(l)

\* The columns of a table before those of a name that is taken are dropped
TableNames(l) == IF driver = "risingwave" THEN RisingwaveNames(l) ELSE TableColumns(l)

\* A table whose columns have different names accepts the INSERTs made for it: they name
\* each of its columns once.  Tables and INSERTs are derived from the schema independently
\* of each other.
InsertsFitTables ==
    \A l \in Level :
        LET names == ColumnNames(l, InsertColumns(l))
        IN  (HasTable(l) /\ IsInjective(TableNames(l))) =>
               /\ IsInjective(names)
               /\ Range(names) = Range(TableColumns(l))

\* The messages of type l
Messages(l) ==
    {id \in [1 .. (l - 1) -> UNION {Places(k) : k \in 1 .. (l - 1)}] :
        \A k \in 1 .. (l - 1) : id[k] \in Places(k)}

\* A foreign key on the column for the parent finds its row: the one in the table child_of
\* names that has the key handed down.
ForeignKeyFound(n) ==
    \E j \in 1 .. (n - 1) : /\ inserted[j].level = childOf[inserted[n].level][1]
                            /\ inserted[j].id = inserted[n].parent

\* A foreign key that child_of makes, on the key of a table, holds at every statement, for
\* parents are inserted first, exactly if that table is the nearest one above with a key.
\* Nothing is handed down only if there is no such table.
ParentsFirst ==
    \A n \in DOMAIN inserted :
        LET l == inserted[n].level
        IN  /\ Parents(l) = {} <=> inserted[n].parent = NoParent
            /\ \A a \in Level : HasKey(a) /\ childOf[l] = KeyOf(a) =>
                  (ForeignKeyFound(n) <=> Parents(l) = {a})

\* Every message with a table has its row, one, once the walk is done, and no other has.
Complete ==
    phase = "done" =>
        /\ \A n, j \in DOMAIN inserted : inserted[n].id = inserted[j].id => n = j
        /\ \A l \in Level :
              {inserted[n].id : n \in {j \in DOMAIN inserted : inserted[j].level = l}}
                 = IF HasTable(l) THEN Messages(l) ELSE {}

\* The walk makes a row of every message that has a table, parents first.
RowsComplete == ParentsFirst /\ Complete

\* A tombstone replaces its row only if it has the values of the row in the columns of the
\* row; the INSERT ... SELECT of the undo names no columns, so this takes a table without
\* a parent whose key, if it has one, is the first column of the message.
TombstonesAligned ==
    driver = "clickhouse" =>
        \A l \in Level :
            (HasTable(l) /\ IsInjective(ClickhouseTable(l))) =>
                (ColumnNames(l, TombstoneColumns(l)) = ClickhouseTable(l)
                    <=> KeyColumn(l) = <<>> \/ (/\ Columns(l)[1] = KeyColumn(l)[1]
                                               /\ ChildOf(l) = <<>>))
=============================================================================
