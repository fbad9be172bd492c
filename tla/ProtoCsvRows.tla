---------------------------- MODULE ProtoCsvRows ----------------------------
(***************************************************************************)
(* How from-proto-generate-csv turns a message into CSV rows               *)
(* (walkMessageAndCollectRows, from_proto_generate_csv.go), beside the     *)
(* walk of from-proto that inserts the same message.  A CSV row has one    *)
(* cell per column of the header, found by the column's name; what no      *)
(* field fills stays empty.  The documentation promises that both give the *)
(* same tables.                                                            *)
(***************************************************************************)
EXTENDS FromProtoRows

VARIABLES
    csvTodo,    \* messages the CSV walk has still to visit, depth first
    exported,   \* the rows it has collected
    csvPhase    \* "walking", "done" or "failed"

csvVars == <<csvTodo, exported, csvPhase>>

-----------------------------------------------------------------------------
Empty == 0   \* a cell nothing fills

\* The fields with the name of the column for the parent
ParentNamed(l) ==
    {i \in ColumnFields(l) : /\ ChildOf(l) # <<>>
                             /\ FieldName(l, i) = ColumnName(l, ParentKey)}

\* Mutant: the key of the parent comes before the primary key.
CsvParentBeforeKey(l) ==
    Meta \o ChildOf(l) \o KeyColumn(l)
         \o Ascending(ColumnFields(l) \ (Keys(l) \union ParentNamed(l)))

\* computeColumnsForTable: the header of the file; schema.json lists the same columns
CsvColumns(l) ==
    Meta \o KeyColumn(l) \o ChildOf(l)
         \o Ascending(ColumnFields(l) \ (Keys(l) \union ParentNamed(l)))

\* What assignRowValue is called with, in this order: the system columns and the key
\* always, the parent if there is one and child_of, the scalar fields; no list
Assigned(m) ==
    Meta \o KeyColumn(m.level)
         \o (IF m.parent = NoParent THEN <<>> ELSE ChildOf(m.level))
         \o Ascending({i \in ColumnFields(m.level) \ Keys(m.level) : desc[m.level][i] # "array"})

\* The cells are found by name, the last one of a name: it has what was assigned last, and
\* one before it stays empty
Cells(m) ==
    LET names == ColumnNames(m.level, CsvColumns(m.level))
        given == ColumnNames(m.level, Assigned(m))
        Of(n) == {k \in DOMAIN given : given[k] = names[n]}
    IN  [n \in DOMAIN names |->
            IF Of(n) = {} \/ \E k \in (n + 1) .. Len(names) : names[k] = names[n] THEN Empty
            ELSE Assigned(m)[CHOOSE k \in Of(n) : \A j \in Of(n) : j <= k]]

\* Elements of a list that are not messages are refused
HasNativeList(m) ==
    \E i \in 1 .. Len(desc[m.level]) : desc[m.level][i] = "array" /\ present[m.level][i]

\* A table without a key cannot have children, whatever is above it
NoKeyForChildren(m) ==
    useProtoOptions /\ HasTable(m.level) /\ ~HasKey(m.level) /\ Places(m.level) # {}

\* Mutant: children of a table without a key are accepted.
RefusedLists(m) == HasNativeList(m)

Refused(m) == HasNativeList(m) \/ NoKeyForChildren(m)

-----------------------------------------------------------------------------
\* HandleBlockScopedData: the walk starts at the root
CsvInit ==
    /\ Init
    /\ csvTodo = <<Root>> /\ exported = <<>> /\ csvPhase = "walking"

\* The row of a message; its children get a parent only from a table with a key
CollectRow ==
    LET m == Head(csvTodo)
        p == IF HasKey(m.level) THEN m.id ELSE NoParent
    IN  /\ csvPhase = "walking" /\ csvTodo # <<>>
        /\ ~Refused(m)
        /\ exported' = IF HasTable(m.level)
                       THEN Append(exported, [level |-> m.level, id |-> m.id,
                                              parent |-> m.parent, values |-> Cells(m)])
                       ELSE exported
        /\ csvTodo' = Children(m, p) \o Tail(csvTodo)
        /\ UNCHANGED csvPhase

\* An error at any message drops the rows of the whole block
RefuseMessage ==
    /\ csvPhase = "walking" /\ csvTodo # <<>>
    /\ Refused(Head(csvTodo))
    /\ csvPhase' = "failed"
    /\ exported' = <<>>
    /\ UNCHANGED csvTodo

WriteRows ==
    /\ csvPhase = "walking" /\ csvTodo = <<>>
    /\ csvPhase' = "done"
    /\ UNCHANGED <<csvTodo, exported>>

CsvEnded == csvPhase \in {"done", "failed"} /\ UNCHANGED csvVars

CsvStep == CollectRow \/ RefuseMessage \/ WriteRows \/ CsvEnded

\* Two programs that share nothing: a step is one of each, until each has ended
CsvNext == Next /\ CsvStep

CsvSpec == CsvInit /\ [][CsvNext]_<<vars, csvVars>>

-----------------------------------------------------------------------------
(* Properties *)

\* A message type without a table between a table that has a key and one below it
Wrapped(l) == \E a, w \in 1 .. (l - 1) : a < w /\ HasKey(a) /\ ~HasTable(w)

\* A message type both make the same rows of: child_of is there exactly where a key is
\* handed down, no list is empty and no two columns of the table have one name.
Plain(l) ==
    /\ childOf[l] = NoChildOf <=> Parents(l) = {}
    /\ NoEmptyList(l)
    /\ IsInjective(ColumnNames(l, InsertColumns(l)))

\* Where both walks succeed they agree: every row of the INSERTs is a row of the files, in
\* the same order, with the same cells in the same columns and under the same parent, as
\* long as no message without a table stands between two tables.
CsvMatchesInsert ==
    phase = "done" /\ csvPhase = "done" /\ (\A l \in Level : HasTable(l) => ~Wrapped(l)) =>
        /\ exported = inserted
        /\ \A l \in Level : HasTable(l) => CsvColumns(l) = InsertColumns(l)

\* The CSV walk is the stricter one: what it accepts, from-proto inserts.
CsvAcceptsLess == csvPhase = "done" => phase = "done"

\* The files hold what from-proto would insert, and nothing it would refuse, if the schema
\* is plain: the CSV walk drops a key handed down where there is no child_of, leaves the
\* first of two columns with one name empty and has a cell for every list, where from-proto
\* is refused or shifts the values.
CsvAgrees ==
    (\A l \in Level : HasTable(l) => Plain(l)) => CsvMatchesInsert /\ CsvAcceptsLess
=============================================================================
