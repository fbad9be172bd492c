------------------------------ MODULE CsvText -------------------------------
(***************************************************************************)
(* A row on its way through a CSV file: the two encoders of the program,   *)
(* CSVEncode of generate-csv (src/db_changes/bundler/encoder.go) and       *)
(* formatRowForCSV of from-proto-generate-csv, and the reader inject-csv   *)
(* hands the file to, COPY ... WITH (FORMAT CSV, HEADER).                  *)
(*                                                                         *)
(* A text is a sequence of characters: "q" is the quote, "nl" the end of   *)
(* a line, "," the separator, "a" any other.  Numbers, dates, the hex form *)
(* of bytes and what fmt.Sprint makes of them are one character each: none *)
(* of them holds a character the reader would act on.                      *)
(***************************************************************************)
EXTENDS Integers, Sequences, SequencesExt

CONSTANTS
    Encoders,     \* "CSVEncode", "formatRowForCSV" or both
    Width,        \* cells of a row
    MaxText       \* characters of a string value

ASSUME CsvTextAssumption ==
    /\ Encoders \subseteq {"CSVEncode", "formatRowForCSV"}
    /\ Width \in Nat \ {0} /\ MaxText \in Nat

Char == {"a", ",", "q", "nl"}
Column == {"system", "plain", "suffix_id", "parent"}

Null == [type |-> "null"]
Text(s) == [type |-> "string", text |-> s]
Bytes == [type |-> "bytes"]
Number == [type |-> "number"]

VARIABLES
    encoder,  \* the command that writes the row, the same throughout
    row,      \* the cells of the row: column and value
    line,     \* what is left of the text of the row
    field,    \* the characters of the field being read
    quoted,   \* that field has a quoted part
    mode,     \* "encoding", then the reader's state: "plain", "quoted", "closing", "end"
    fields,   \* the fields of the line being read
    loaded    \* the lines read so far

textVars == <<encoder, row, line, field, quoted, mode, fields, loaded>>

-----------------------------------------------------------------------------
(* Encoders *)

Special(s) == \E i \in DOMAIN s : s[i] \in {",", "q", "nl"}

\* strings.ReplaceAll: the last n characters of s, quotes doubled
Doubled(s) ==
    LET last[n \in 0 .. Len(s)] ==
            IF n = 0 THEN <<>>
            ELSE LET c == s[Len(s) - n + 1]
                 IN  (IF c = "q" THEN <<"q", "q">> ELSE <<c>>) \o last[n - 1]
    IN  last

\* Mutant: a quote inside the value is not doubled.
EscapeOnce(s) == IF Special(s) THEN <<"q">> \o s \o <<"q">> ELSE s

EscapeCSVValue(s) == IF Special(s) THEN <<"q">> \o Doubled(s)[Len(s)] \o <<"q">> ELSE s

\* fmt.Sprint: bytes are printed as a list of numbers
Sprint(v) == CASE v.type = "string" -> v.text
               [] v.type = "bytes" -> <<"[..]">>
               [] OTHER -> <<"0">>

FormatBinaryData == <<"\\x..">>

\* formatValue: the system columns, then the name's suffix, then the column's own type
FormatValue(c) ==
    CASE c.value = Null -> <<>>
      [] c.value # Null /\ c.column = "system" -> Sprint(c.value)
      [] c.value # Null /\ c.column \in {"suffix_id", "parent"} -> EscapeCSVValue(Sprint(c.value))
      [] c.column = "plain" /\ c.value.type = "string" -> EscapeCSVValue(c.value.text)
      [] c.column = "plain" /\ c.value.type = "bytes" -> FormatBinaryData
      [] OTHER -> Sprint(c.value)

\* The text of a cell with the separator before it, if the cell is written
Piece(text, written, i) ==
    CASE i \notin written -> <<>>
      [] i \in written /\ written \intersect 1 .. (i - 1) = {} -> text[i]
      [] OTHER -> <<",">> \o text[i]

\* The last n cells, with the end of the line behind them
Joined(text, written) ==
    LET last[n \in 0 .. Width] ==
            IF n = 0 THEN <<"nl">> ELSE Piece(text, written, Width - n + 1) \o last[n - 1]
    IN  last

FormatRowForCSV(r) == Joined([i \in DOMAIN r |-> FormatValue(r[i])], DOMAIN r)[Width]

\* The fields the change has, in the order of their names, as they are
CSVEncode(r) ==
    Joined([i \in DOMAIN r |-> Sprint(r[i].value)], {i \in DOMAIN r : r[i].value # Null})[Width]

-----------------------------------------------------------------------------
Value == {Null, Bytes, Number} \union {Text(s) : s \in BoundedSeq(Char, MaxText)}

Cell == {c \in [column : Column, value : Value] :
            c.column = "system" => c.value = Number}

\* CSVEncode gets the text the module put into the change
Given == IF encoder = "CSVEncode"
         THEN {c \in Cell : c.column = "plain" /\ c.value.type \in {"null", "string"}}
         ELSE Cell

TextInit ==
    /\ encoder \in Encoders
    /\ row \in [1 .. Width -> Given]
    /\ line = <<>> /\ field = <<>> /\ quoted = FALSE /\ mode = "encoding"
    /\ fields = <<>> /\ loaded = <<>>

Encode ==
    /\ mode = "encoding"
    /\ line' = IF encoder = "CSVEncode" THEN CSVEncode(row) ELSE FormatRowForCSV(row)
    /\ mode' = "plain"
    /\ UNCHANGED <<encoder, row, field, quoted, fields, loaded>>

(* The reader: COPY in CSV format *)

Field == [text |-> field, quoted |-> quoted]

ReadChar ==
    /\ mode \in {"plain", "closing"} /\ line # <<>>
    /\ Head(line) \notin {",", "nl", "q"}
    /\ field' = Append(field, Head(line)) /\ mode' = "plain" /\ line' = Tail(line)
    /\ UNCHANGED <<encoder, row, quoted, fields, loaded>>

EndField ==
    /\ mode \in {"plain", "closing"} /\ line # <<>> /\ Head(line) \in {",", "nl"}
    /\ fields' = IF Head(line) = "," THEN Append(fields, Field) ELSE <<>>
    /\ loaded' = IF Head(line) = "," THEN loaded ELSE Append(loaded, Append(fields, Field))
    /\ field' = <<>> /\ quoted' = FALSE /\ mode' = "plain" /\ line' = Tail(line)
    /\ UNCHANGED <<encoder, row>>

\* A quote opens a quoted part, or inside one is the first of a pair or its end
OpenQuote ==
    /\ mode = "plain" /\ line # <<>> /\ Head(line) = "q"
    /\ mode' = "quoted" /\ quoted' = TRUE /\ line' = Tail(line)
    /\ UNCHANGED <<encoder, row, field, fields, loaded>>

ReadQuoted ==
    /\ mode = "quoted" /\ line # <<>>
    /\ IF Head(line) = "q" THEN mode' = "closing" /\ field' = field
                           ELSE mode' = "quoted" /\ field' = Append(field, Head(line))
    /\ line' = Tail(line)
    /\ UNCHANGED <<encoder, row, quoted, fields, loaded>>

DoubledQuote ==
    /\ mode = "closing" /\ line # <<>> /\ Head(line) = "q"
    /\ mode' = "quoted" /\ field' = Append(field, "q") /\ line' = Tail(line)
    /\ UNCHANGED <<encoder, row, quoted, fields, loaded>>

EndOfFile ==
    /\ mode \in {"plain", "quoted", "closing"} /\ line = <<>>
    /\ mode' = "end"
    /\ UNCHANGED <<encoder, row, line, field, quoted, fields, loaded>>

TextEnded == mode = "end" /\ UNCHANGED textVars

TextNext == \/ Encode \/ ReadChar \/ EndField \/ OpenQuote \/ ReadQuoted \/ DoubledQuote
        \/ EndOfFile \/ TextEnded

TextSpec == TextInit /\ [][TextNext]_textVars

-----------------------------------------------------------------------------
(* Properties *)

\* What the database takes from a field: no characters and no quotes is NULL
Decoded(f) == IF f.text = <<>> /\ ~f.quoted THEN Null ELSE Text(f.text)

\* What the column should hold, as a text
Meant(c) == CASE c.value = Null -> Null
              [] c.value.type = "string" -> c.value
              [] c.value.type = "bytes" -> Text(FormatBinaryData)
              [] OTHER -> Text(<<"0">>)

OneLine == /\ Len(loaded) = 1 /\ Len(loaded[1]) = Len(row)
           /\ fields = <<>> /\ field = <<>>

ReadsBack(i) == Decoded(loaded[1][i]) = Meant(row[i])

\* The cells the encoder writes so that the database reads them: formatRowForCSV loses an
\* empty string, and bytes in a column it knows by the suffix of its name; CSVEncode quotes
\* nothing and leaves out the fields a change does not have.
Covered(c) ==
    IF encoder = "CSVEncode"
    THEN c.value.type = "string" /\ c.value.text # <<>> /\ Range(c.value.text) = {"a"}
    ELSE c.value # Text(<<>>) /\ (c.value = Bytes => c.column = "plain")

\* A row is read back as one line with one field per column, and with every value its
\* encoder covers: separators, quotes and ends of lines inside a value do not leak into the
\* next field or line, even when the value itself is not one that is covered.
RowReadsBack ==
    (mode = "end" /\ (encoder = "CSVEncode" => \A i \in DOMAIN row : Covered(row[i]))) =>
        /\ OneLine
        /\ \A i \in DOMAIN row : Covered(row[i]) => ReadsBack(i)
=============================================================================
