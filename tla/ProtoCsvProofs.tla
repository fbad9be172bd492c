--------------------------- MODULE ProtoCsvProofs ---------------------------
(***************************************************************************)
(* Proofs about ProtoCsv, for all tables, chains, rows, bundle and buffer  *)
(* sizes, ranges and numbers of crashes and failed writes, and about       *)
(* FromProtoRows and ProtoCsvRows, for all message types, numbers of       *)
(* fields and lengths of lists, and about CsvText, for rows and texts of   *)
(* any length.                                                             *)
(***************************************************************************)
EXTENDS ProtoCsv, ProtoCsvRows, CsvText,
        WellFoundedInduction, SequenceTheorems, FiniteSetTheorems, TLAPS

-----------------------------------------------------------------------------
(* The Bundler is the one of generate-csv: what is proved of it in         *)
(* InjectCsvProofs, with the constants and variables only the other        *)
(* commands have set to anything.                                          *)

Csv == INSTANCE InjectCsvProofs WITH
    Emissions <- {}, BadBlocks <- {}, MaxCrashes <- 0, MaxUploadFailures <- 0,
    InjectStart <- 0, InjectStop <- 0, Keyed <- {}, MaxFailures <- 0,
    phase <- stage, cursor <- position, bad <- {}, stateQueue <- {}, stateFile <- 0,
    crashes <- 0, uploadFailures <- 0, filler <- 0, result <- 0, table <- 0, dbCursor <- 0, failures <- 0

BlockRanges == [start : Nat, end : Nat]
Lines == Seq(Line)
Writer == [memory : Lines, disk : Lines]

\* The writer of a boundary: nothing before its first row, then a readable file
\* with rows up to n.
WriterOf(w, hasHeader, n) ==
    /\ hasHeader => /\ IsWritten(w) /\ WellFormed(CloseBoundary(w))
                    /\ \A c \in RowsIn(CloseBoundary(w)) : c <= n
    /\ ~hasHeader => w = EmptyWriter

\* The constants are what the lemmas about the Bundler assume.
LEMMA CsvAssumptions ==
    Csv!BundlerAssumption /\ Csv!GenerateCsvAssumption /\ Csv!InjectCsvAssumption
BY BundlerAssumption, ProtoCsvAssumption
   DEF Csv!BundlerAssumption, Csv!GenerateCsvAssumption, Csv!InjectCsvAssumption

\* The blocks of the chain are those of the range.
LEMMA ChainType == Chain \subseteq Nat /\ \A b \in Chain : StartBlock <= b /\ b < StopBlock
BY BundlerAssumption, ProtoCsvAssumption

\* The operators of the two instances are the same.
LEMMA SameOperators ==
    /\ \A b : Csv!NewBoundary(b) = NewBoundary(b)
    /\ Csv!BlockRanges = BlockRanges /\ Csv!Boundary = Boundary
    /\ Csv!Line = Line /\ Csv!Lines = Lines /\ Csv!Writer = Writer
    /\ Csv!EmptyWriter = EmptyWriter
    /\ \A w : Csv!CloseBoundary(w) = CloseBoundary(w)
    /\ \A w : Csv!IsWritten(w) <=> IsWritten(w)
    /\ \A lines : Csv!RowsIn(lines) = RowsIn(lines)
    /\ \A lines : Csv!WellFormed(lines) <=> WellFormed(lines)
    /\ \A w, h, b : Csv!DumpRow(w, h, b) = DumpRow(w, h, b)
<1>1. Csv!Header = Header
  BY DEF Header, Csv!Header
<1>2. \A b : Csv!NewBoundary(b) = NewBoundary(b)
  BY DEF NewBoundary, Csv!NewBoundary, BlockRange, Csv!BlockRange
<1>3. Csv!BlockRanges = BlockRanges /\ Csv!Boundary = Boundary
  BY DEF BlockRanges, Csv!BlockRanges, Boundary, Csv!Boundary
<1>4. Csv!Line = Line
  BY <1>1 DEF Line, Csv!Line
<1>5. Csv!Lines = Lines
  BY <1>4 DEF Lines, Csv!Lines
<1>6. Csv!Writer = Writer
  BY <1>5 DEF Writer, Csv!Writer
<1>7. Csv!EmptyWriter = EmptyWriter
  BY DEF EmptyWriter, Csv!EmptyWriter
<1>8. \A w : Csv!CloseBoundary(w) = CloseBoundary(w)
  BY DEF CloseBoundary, Csv!CloseBoundary, AllDataFitInMemory, Csv!AllDataFitInMemory
<1>9. \A w : Csv!IsWritten(w) <=> IsWritten(w)
  BY DEF IsWritten, Csv!IsWritten
<1>10. \A lines : Csv!RowsIn(lines) = RowsIn(lines)
  BY <1>1 DEF RowsIn, Csv!RowsIn
<1>11. \A lines : Csv!WellFormed(lines) <=> WellFormed(lines)
  BY <1>1 DEF WellFormed, Csv!WellFormed
<1>12. \A w, h, b : Csv!DumpRow(w, h, b) = DumpRow(w, h, b)
  BY <1>1 DEF DumpRow, Csv!DumpRow, Put, Csv!Put
<1>13. QED
  BY <1>2, <1>3, <1>4, <1>5, <1>6, <1>7, <1>8, <1>9, <1>10, <1>11, <1>12

-----------------------------------------------------------------------------
(* Lemmas of InjectCsvProofs in the operators of this module.              *)

\* Every set of natural numbers that is not empty has a least element.
LEMMA NatMin ==
    ASSUME NEW T, T \subseteq Nat, T # {}
    PROVE  \E x \in T : \A y \in T : x <= y
BY CsvAssumptions, Csv!NatMin

\* Min of a set of natural numbers that is not empty is its least element.
LEMMA MinProperties ==
    ASSUME NEW T, T \subseteq Nat, T # {}
    PROVE  Min(T) \in T /\ \A y \in T : Min(T) <= y
BY NatMin DEF Min

\* Max of a set of natural numbers below a bound is its greatest element.
LEMMA MaxProperties ==
    ASSUME NEW n \in Nat, NEW T, T \subseteq 0 .. n, T # {}
    PROVE  Max(T) \in T /\ \A y \in T : y <= Max(T)
<1>1. Csv!Max(T) \in T /\ \A y \in T : y <= Csv!Max(T)
  BY CsvAssumptions, Csv!MaxProperties
<1>2. QED
  BY <1>1 DEF Max

\* A boundary starts at a multiple of the bundle size and ends at the next one, or
\* at the stop block if that comes first.
LEMMA NewBoundaryShape ==
    ASSUME NEW b \in Nat
    PROVE  /\ NewBoundary(b) \in BlockRanges
           /\ NewBoundary(b).start % BundleSize = 0
           /\ NewBoundary(b).start = b - (b % BundleSize)
           /\ NewBoundary(b).start <= b
           /\ b < NewBoundary(b).start + BundleSize
           /\ NewBoundary(b).end = IF StopBlock < NewBoundary(b).start + BundleSize
                                   THEN StopBlock ELSE NewBoundary(b).start + BundleSize
<1>1. NewBoundary(b).start = b - (b % BundleSize)
  BY DEF NewBoundary, BlockRange
<1>2. QED
  BY <1>1, CsvAssumptions, SameOperators, Csv!NewBoundaryShape

\* The boundary of a block of the chain holds the block.
LEMMA NewBoundaryHolds ==
    ASSUME NEW b \in Chain
    PROVE  NewBoundary(b).start <= b /\ b < NewBoundary(b).end
BY CsvAssumptions, SameOperators, Csv!NewBoundaryHolds

\* A boundary lies in the range of the command.
LEMMA NewBoundaryType ==
    ASSUME NEW a \in Nat, a <= StopBlock
    PROVE  NewBoundary(a) \in Boundary
BY CsvAssumptions, SameOperators, Csv!NewBoundaryType

\* The lines a boundary is closed with are lines.
LEMMA CloseWriter ==
    ASSUME NEW w \in Writer
    PROVE  CloseBoundary(w) \in Lines
BY CsvAssumptions, SameOperators, Csv!CloseWriter

\* A new writer holds nothing.
LEMMA EmptyWriterHolds ==
    /\ EmptyWriter \in Writer /\ ~ IsWritten(EmptyWriter)
    /\ RowsIn(CloseBoundary(EmptyWriter)) = {}
BY CsvAssumptions, SameOperators, Csv!EmptyWriterHolds

\* A row of a new block is added, with the header when it is the first one.
LEMMA DumpRowAdds ==
    ASSUME NEW w \in Writer, NEW hasHeader \in BOOLEAN, NEW b \in Chain, NEW n \in Int,
           n < b, WriterOf(w, hasHeader, n), NEW more, more = DumpRow(w, hasHeader, b)
    PROVE  /\ more \in Writer /\ WriterOf(more, TRUE, b)
           /\ RowsIn(CloseBoundary(more)) = RowsIn(CloseBoundary(w)) \union {b}
<1>1. Csv!WriterOf(w, hasHeader, n)
  BY SameOperators DEF WriterOf, Csv!WriterOf, Csv!UpTo
<1>2. w \in Csv!Writer /\ more = Csv!DumpRow(w, hasHeader, b)
  BY SameOperators
<1>3. /\ more \in Csv!Writer /\ Csv!WriterOf(more, TRUE, b)
      /\ Csv!RowsIn(Csv!CloseBoundary(more)) = Csv!RowsIn(Csv!CloseBoundary(w)) \union {b}
  <2>1. CASE hasHeader = TRUE
    <3>1. Csv!WriterOf(w, TRUE, n) /\ more = Csv!DumpRow(w, TRUE, b)
      BY <1>1, <1>2, <2>1
    <3>2. QED
      BY <1>2, <3>1, CsvAssumptions, Csv!DumpRowAdds
  <2>2. CASE hasHeader = FALSE
    <3>1. Csv!WriterOf(w, FALSE, n) /\ more = Csv!DumpRow(w, FALSE, b)
      BY <1>1, <1>2, <2>2
    <3>2. QED
      BY <1>2, <3>1, CsvAssumptions, Csv!DumpRowAdds
  <2>3. QED
    BY <2>1, <2>2
<1>4. WriterOf(more, TRUE, b)
  <2>1. /\ Csv!IsWritten(more) /\ Csv!WellFormed(Csv!CloseBoundary(more))
        /\ \A c \in Csv!RowsIn(Csv!CloseBoundary(more)) : c <= b
    BY <1>3 DEF Csv!WriterOf, Csv!UpTo
  <2>2. PICK lines : lines = CloseBoundary(more)
    OBVIOUS
  <2>3. Csv!CloseBoundary(more) = lines /\ Csv!RowsIn(lines) = RowsIn(lines)
    BY <2>2, SameOperators
  <2>4. IsWritten(more) /\ WellFormed(lines)
    BY <2>1, <2>3, SameOperators
  <2>5. \A c \in RowsIn(lines) : c <= b
    BY <2>1, <2>3
  <2>6. QED
    BY <2>2, <2>4, <2>5 DEF WriterOf
<1>5. QED
  BY <1>3, <1>4, SameOperators

-----------------------------------------------------------------------------
(* The lines of a file are determined by its rows.                         *)

\* Every line of a file after the first is a row, and the rows are these lines.
LEMMA RowsOfLines ==
    ASSUME NEW lines \in Lines, WellFormed(lines)
    PROVE  /\ Len(lines) \in Nat /\ DOMAIN lines = 1 .. Len(lines) /\ Len(lines) >= 2
           /\ lines[1] = Header
           /\ \A i \in 2 .. Len(lines) : lines[i] \in Chain /\ lines[i] \in RowsIn(lines)
           /\ \A c \in RowsIn(lines) : \E i \in 2 .. Len(lines) : c = lines[i]
           /\ \A i, j \in 2 .. Len(lines) : i < j => lines[i] < lines[j]
<1>1. Len(lines) \in Nat /\ DOMAIN lines = 1 .. Len(lines)
      /\ \A i \in 1 .. Len(lines) : lines[i] \in Line
  BY LenProperties, ElementOfSeq DEF Lines
<1>2. /\ Len(lines) >= 2 /\ lines[1] = Header
      /\ \A i \in 2 .. Len(lines) : lines[i] # Header
      /\ \A i, j \in 2 .. Len(lines) : i < j => lines[i] < lines[j]
  BY DEF WellFormed
<1>3. ASSUME NEW i \in 2 .. Len(lines)
      PROVE  lines[i] \in Chain /\ lines[i] \in RowsIn(lines)
  <2>1. i \in 1 .. Len(lines)
    BY <1>1
  <2>2. QED
    BY <1>1, <1>2, <2>1 DEF RowsIn, Line
<1>4. ASSUME NEW c \in RowsIn(lines) PROVE \E i \in 2 .. Len(lines) : c = lines[i]
  <2>1. PICK i \in 1 .. Len(lines) : c = lines[i] /\ c # Header
    BY <1>1 DEF RowsIn
  <2>2. i # 1
    BY <1>2, <2>1
  <2>3. i \in 2 .. Len(lines)
    BY <1>1, <2>2
  <2>4. QED
    BY <2>1, <2>3
<1>5. QED
  BY <1>1, <1>2, <1>3, <1>4

\* The row at a position of a file cannot come before the row another file with the same
\* rows has there, if they agree up to it.
LEMMA RowNotBefore ==
    ASSUME NEW a \in Lines, WellFormed(a), NEW b \in Lines, WellFormed(b),
           RowsIn(a) \subseteq RowsIn(b),
           NEW i \in 2 .. Len(a), i <= Len(b),
           \A j \in 2 .. Len(a) : j < i => a[j] = b[j]
    PROVE  b[i] <= a[i]
<1>1. /\ Len(a) \in Nat /\ a[i] \in RowsIn(b) /\ a[i] \in Nat
      /\ \A j \in 2 .. Len(a) : a[j] \in Nat
      /\ \A j, k \in 2 .. Len(a) : j < k => a[j] < a[k]
  BY RowsOfLines, ChainType
<1>2. /\ Len(b) \in Nat
      /\ \A j \in 2 .. Len(b) : b[j] \in Nat
      /\ \A j, k \in 2 .. Len(b) : j < k => b[j] < b[k]
  BY RowsOfLines, ChainType
<1>3. PICK j \in 2 .. Len(b) : a[i] = b[j]
  BY <1>1, RowsOfLines
<1>4. i \in 2 .. Len(b)
  BY <1>1, <1>2
<1>5. CASE j < i
  <2>1. j \in 2 .. Len(a)
    BY <1>1, <1>2, <1>5
  <2>2. a[j] = b[j] /\ a[j] < a[i]
    BY <1>1, <1>5, <2>1
  <2>3. QED
    BY <1>1, <1>3, <2>1, <2>2
<1>6. CASE j = i
  BY <1>1, <1>3, <1>6
<1>7. CASE i < j
  <2>1. b[i] < b[j]
    BY <1>2, <1>4, <1>7
  <2>2. QED
    BY <1>2, <1>3, <1>4, <2>1
<1>8. QED
  BY <1>5, <1>6, <1>7

\* Two files with the same rows agree on every line both have.
LEMMA LinesAgree ==
    ASSUME NEW a \in Lines, WellFormed(a), NEW b \in Lines, WellFormed(b),
           RowsIn(a) = RowsIn(b),
           NEW i \in 2 .. Len(a), i <= Len(b)
    PROVE  a[i] = b[i]
<1>1. Len(a) \in Nat /\ Len(b) \in Nat
  BY RowsOfLines
<1> DEFINE Differ == {k \in 2 .. Len(a) : k <= Len(b) /\ a[k] # b[k]}
<1> SUFFICES ASSUME a[i] # b[i] PROVE FALSE
  OBVIOUS
<1>2. Differ \subseteq Nat /\ Differ # {}
  <2>1. i \in Differ
    OBVIOUS
  <2>2. QED
    BY <1>1, <2>1
<1>3. PICK k \in Differ : \A l \in Differ : k <= l
  <2> HIDE DEF Differ
  <2> QED
    BY <1>2, NatMin
<1>4. k \in 2 .. Len(a) /\ k \in 2 .. Len(b) /\ k <= Len(a) /\ k <= Len(b) /\ a[k] # b[k]
  BY <1>1
<1>5. ASSUME NEW j \in 2 .. Len(a), j < k PROVE a[j] = b[j]
  <2>1. j \notin Differ
    BY <1>1, <1>3, <1>4, <1>5
  <2>2. j <= Len(b)
    BY <1>1, <1>4, <1>5
  <2>3. QED
    BY <2>1, <2>2
<1>6. ASSUME NEW j \in 2 .. Len(b), j < k PROVE b[j] = a[j]
  <2>1. j \in 2 .. Len(a)
    BY <1>1, <1>4, <1>6
  <2>2. QED
    BY <1>5, <1>6, <2>1
<1>7. b[k] <= a[k]
  BY <1>4, <1>5, RowNotBefore
<1>8. a[k] <= b[k]
  BY <1>4, <1>6, RowNotBefore
<1>9. a[k] \in Nat /\ b[k] \in Nat
  BY <1>4, RowsOfLines, ChainType
<1>10. QED
  BY <1>4, <1>7, <1>8, <1>9

\* A file is not longer than another one with the same rows.
LEMMA NotLonger ==
    ASSUME NEW a \in Lines, WellFormed(a), NEW b \in Lines, WellFormed(b),
           RowsIn(a) = RowsIn(b)
    PROVE  Len(a) <= Len(b)
<1>1. SUFFICES ASSUME ~ (Len(a) <= Len(b)) PROVE FALSE
  OBVIOUS
<1>2. Len(a) \in Nat /\ Len(b) \in Nat /\ Len(b) >= 2
  BY RowsOfLines
<1>3. Len(a) \in 2 .. Len(a) /\ Len(b) < Len(a)
  BY <1>1, <1>2
<1>4. a[Len(a)] \in RowsIn(b)
  BY <1>3, RowsOfLines
<1>5. PICK j \in 2 .. Len(b) : a[Len(a)] = b[j]
  BY <1>4, RowsOfLines
<1>6. j \in 2 .. Len(a) /\ j < Len(a) /\ j <= Len(b)
  BY <1>2, <1>3
<1>7. a[j] = b[j]
  BY <1>6, LinesAgree
<1>8. a[j] < a[Len(a)] /\ a[j] \in Nat
  BY <1>3, <1>6, RowsOfLines, ChainType
<1>9. QED
  BY <1>5, <1>7, <1>8

\* A file is determined by its rows.
LEMMA SameRows ==
    ASSUME NEW a \in Lines, WellFormed(a), NEW b \in Lines, WellFormed(b),
           RowsIn(a) = RowsIn(b)
    PROVE  a = b
<1>1. Len(a) = Len(b)
  <2>1. Len(a) <= Len(b) /\ Len(b) <= Len(a)
    BY NotLonger
  <2>2. QED
    BY <2>1, RowsOfLines
<1>2. ASSUME NEW i \in 1 .. Len(a) PROVE a[i] = b[i]
  <2>1. CASE i = 1
    BY <2>1, RowsOfLines
  <2>2. CASE i # 1
    <3>1. i \in 2 .. Len(a) /\ i <= Len(b)
      BY <1>1, <2>2, RowsOfLines
    <3>2. QED
      BY <3>1, LinesAgree
  <2>3. QED
    BY <2>1, <2>2
<1>3. QED
  BY <1>1, <1>2, SeqEqual DEF Lines

-----------------------------------------------------------------------------
(* Where a row goes.  A block is dumped into the boundary that is open when *)
(* it arrives: the one of the last block before it that had an output, or   *)
(* of the start block.                                                      *)

\* The blocks with an output, when e is what the blocks emit
Output(e) == {b \in Chain : e[b] \notin {NoOutput, Undecodable}}
Before(e, n) == {c \in Output(e) : c < n}

\* The block whose boundary is open when block n arrives
Opener(e, n) == IF Before(e, n) = {} THEN StartBlock ELSE Max(Before(e, n))
Home(e, b) == NewBoundary(Opener(e, b))

\* The rows of a table that belong into the file of a boundary
RowsOf(e, t, r) == {b \in Output(e) : t \in e[b] /\ Home(e, b) = r}

\* The opener is the last block before n with an output, if there is one.
LEMMA OpenerShape ==
    ASSUME NEW e, NEW n \in Nat
    PROVE  /\ Opener(e, n) \in Nat
           /\ StartBlock <= Opener(e, n) /\ Opener(e, n) <= StopBlock
           /\ Before(e, n) # {} => Opener(e, n) \in Before(e, n)
           /\ \A c \in Before(e, n) : c <= Opener(e, n)
<1>1. StartBlock \in Nat /\ StopBlock \in Nat /\ StartBlock <= StopBlock
  BY BundlerAssumption
<1>2. Before(e, n) \subseteq Chain
  BY DEF Before, Output
<1>3. CASE Before(e, n) = {}
  BY <1>1, <1>3 DEF Opener
<1>4. CASE Before(e, n) # {}
  <2>1. PICK T : T = Before(e, n)
    OBVIOUS
  <2>2. T \subseteq 0 .. StopBlock /\ T # {}
    <3>1. ASSUME NEW c \in T PROVE c \in 0 .. StopBlock
      <4>1. c \in Nat /\ c < StopBlock
        BY <1>2, <2>1, ChainType
      <4>2. QED
        BY <1>1, <4>1
    <3>2. QED
      BY <1>4, <2>1, <3>1
  <2>3. Max(T) \in T /\ \A c \in T : c <= Max(T)
    BY <1>1, <2>2, MaxProperties
  <2>4. Opener(e, n) = Max(T)
    BY <1>4, <2>1 DEF Opener
  <2>5. Opener(e, n) \in Nat /\ StartBlock <= Opener(e, n) /\ Opener(e, n) < StopBlock
    BY <1>2, <2>1, <2>3, <2>4, ChainType
  <2>6. QED
    BY <1>1, <2>1, <2>3, <2>4, <2>5
<1>5. QED
  BY <1>3, <1>4

\* The opener of a block comes before it, or is the start block.
LEMMA OpenerBelow ==
    ASSUME NEW e, NEW b \in Chain
    PROVE  Opener(e, b) <= b
<1>1. b \in Nat /\ StartBlock <= b
  BY ChainType
<1>2. CASE Before(e, b) = {}
  BY <1>1, <1>2 DEF Opener
<1>3. CASE Before(e, b) # {}
  <2>1. Opener(e, b) \in Before(e, b)
    BY <1>1, <1>3, OpenerShape
  <2>2. Opener(e, b) < b /\ Opener(e, b) \in Nat
    BY <1>1, <2>1, OpenerShape DEF Before
  <2>3. QED
    BY <1>1, <2>2
<1>4. QED
  BY <1>2, <1>3

\* The openers come in the order of the blocks.
LEMMA OpenerGrows ==
    ASSUME NEW e, NEW b \in Chain, NEW c \in Chain, c <= b
    PROVE  Opener(e, c) <= Opener(e, b)
<1>1. b \in Nat /\ c \in Nat /\ StartBlock \in Nat
  BY ChainType, BundlerAssumption
<1>2. Before(e, c) \subseteq Before(e, b)
  <2>1. ASSUME NEW d \in Before(e, c) PROVE d < b
    <3>1. d \in Nat /\ d < c
      BY ChainType DEF Before, Output
    <3>2. QED
      BY <1>1, <3>1
  <2>2. QED
    BY <2>1 DEF Before
<1>3. CASE Before(e, c) = {}
  <2>1. Opener(e, c) = StartBlock
    BY <1>3 DEF Opener
  <2>2. QED
    BY <1>1, <2>1, OpenerShape
<1>4. CASE Before(e, c) # {}
  <2>1. Opener(e, c) \in Before(e, b)
    BY <1>1, <1>2, <1>4, OpenerShape
  <2>2. QED
    BY <1>1, <2>1, OpenerShape
<1>5. QED
  BY <1>3, <1>4

\* A number between two of the same boundary has that boundary.
LEMMA BoundaryBetween ==
    ASSUME NEW x \in Nat, NEW y \in Nat, NEW z \in Nat, x <= z, z <= y,
           NewBoundary(x) = NewBoundary(y)
    PROVE  NewBoundary(z) = NewBoundary(x)
<1>1. PICK s \in Nat : s = NewBoundary(x).start
  BY NewBoundaryShape DEF BlockRanges
<1>2. s <= x /\ s % BundleSize = 0 /\ y < s + BundleSize
  BY <1>1, NewBoundaryShape
<1>3. BundleSize \in Nat \ {0}
  BY BundlerAssumption
<1>4. s <= z /\ z < s + BundleSize
  BY <1>1, <1>2, <1>3
<1>5. z - (z % BundleSize) = s
  BY <1>1, <1>2, <1>3, <1>4, CsvAssumptions, Csv!AlignedUnique
<1>6. x - (x % BundleSize) = s
  BY <1>1, NewBoundaryShape
<1>7. QED
  BY <1>5, <1>6 DEF NewBoundary

\* A block is in the range of an earlier boundary exactly when that is its own.
LEMMA InRangeSame ==
    ASSUME NEW x \in Nat, NEW b \in Chain, x <= b
    PROVE  InRange(NewBoundary(x), b) <=> NewBoundary(b) = NewBoundary(x)
<1>1. b \in Nat /\ b < StopBlock /\ StopBlock \in Nat /\ BundleSize \in Nat \ {0}
  BY ChainType, BundlerAssumption
<1>2. PICK s \in Nat : s = NewBoundary(x).start
  BY NewBoundaryShape DEF BlockRanges
<1>3. /\ s <= x /\ s % BundleSize = 0
      /\ NewBoundary(x).end = IF StopBlock < s + BundleSize THEN StopBlock
                                                            ELSE s + BundleSize
      /\ s = x - (x % BundleSize)
  BY <1>2, NewBoundaryShape
<1>4. ASSUME InRange(NewBoundary(x), b) PROVE NewBoundary(b) = NewBoundary(x)
  <2>1. s <= b /\ b < NewBoundary(x).end
    BY <1>2, <1>4 DEF InRange
  <2>2. b < s + BundleSize
    BY <1>1, <1>2, <1>3, <2>1
  <2>3. b - (b % BundleSize) = s
    BY <1>1, <1>2, <1>3, <2>1, <2>2, CsvAssumptions, Csv!AlignedUnique
  <2>4. QED
    BY <1>3, <2>3 DEF NewBoundary
<1>5. ASSUME NewBoundary(b) = NewBoundary(x) PROVE InRange(NewBoundary(x), b)
  BY <1>5, NewBoundaryHolds DEF InRange
<1>6. QED
  BY <1>4, <1>5

\* When a block with an output is past the open boundary, no later row goes there, and
\* no row so far belongs into the boundary of the block.
LEMMA RollSeparates ==
    ASSUME NEW e, NEW b \in Output(e), NewBoundary(b) # Home(e, b), NEW c \in Chain
    PROVE  /\ Home(e, c) = Home(e, b) => c <= b
           /\ c <= b => Home(e, c) # NewBoundary(b)
<1>1. b \in Chain /\ b \in Nat /\ c \in Nat
  BY ChainType DEF Output
<1>2. /\ Opener(e, b) \in Nat /\ Opener(e, b) <= b
      /\ Opener(e, c) \in Nat
  BY <1>1, OpenerShape, OpenerBelow
<1>3. ASSUME Home(e, c) = Home(e, b), ~ (c <= b) PROVE FALSE
  <2>1. b \in Before(e, c)
    BY <1>1, <1>3 DEF Before
  <2>2. b <= Opener(e, c)
    BY <1>1, <2>1, OpenerShape
  <2>3. NewBoundary(b) = NewBoundary(Opener(e, b))
    BY <1>1, <1>2, <1>3, <2>2, BoundaryBetween DEF Home
  <2>4. QED
    BY <2>3 DEF Home
<1>4. ASSUME c <= b, Home(e, c) = NewBoundary(b) PROVE FALSE
  <2>1. Opener(e, c) <= Opener(e, b)
    BY <1>1, <1>4, OpenerGrows
  <2>2. NewBoundary(Opener(e, b)) = NewBoundary(Opener(e, c))
    BY <1>1, <1>2, <1>4, <2>1, BoundaryBetween DEF Home
  <2>3. QED
    BY <1>4, <2>2 DEF Home
<1>5. QED
  BY <1>3, <1>4

-----------------------------------------------------------------------------
(* The inductive invariant.                                                *)

File == [range : Boundary, lines : Lines]

\* The types of the variables
ExportTyped ==
    /\ emits \in [Chain -> (SUBSET Tables) \union {NoOutput, Undecodable}]
    /\ stage \in {"streaming", "rolling", "closing", "failing", "completed", "gave up", "down"}
    /\ position \in Chain \union {None}
    /\ active \in [Tables -> Boundary \union {NoBoundary}]
    /\ writer \in [Tables -> Writer]
    /\ header \in [Tables -> BOOLEAN]
    /\ queue \in [Tables -> SUBSET File]
    /\ lost \in [Tables -> SUBSET File]
    /\ unrolled \subseteq Tables
    /\ DOMAIN store = Tables
    /\ \A t \in Tables : \A r \in DOMAIN store[t] : r \in Boundary /\ store[t][r] \in Lines
    /\ lastCursor \in Chain \union {None}
    /\ faults \in 0 .. MaxFaults

\* Every file of the store has the version of a run so far
VersionInv ==
    /\ runs \in Nat
    /\ DOMAIN version = Tables
    /\ \A t \in Tables : DOMAIN version[t] = DOMAIN store[t]
    /\ \A t \in Tables : \A r \in DOMAIN version[t] :
          version[t][r] \in 0 .. runs /\ (~UseVersionField => version[t][r] = 0)

\* The file of a boundary has all the rows that belong there, whichever run wrote it
IsFile(e, t, r, lines) == WellFormed(lines) /\ RowsIn(lines) = RowsOf(e, t, r)

FilesInv ==
    \A t \in Tables :
        /\ \A f \in queue[t] \union lost[t] : IsFile(emits, t, f.range, f.lines)
        /\ \A r \in DOMAIN store[t] : IsFile(emits, t, r, store[t][r])

\* The boundary that is open once block p is handled
Open(e, p) == NewBoundary(Opener(e, p + 1))

\* The rows so far of an open boundary
OpenRows(e, t, p) == {b \in RowsOf(e, t, Open(e, p)) : b <= p}

\* An open boundary of a table, and what its writer holds
OpenOf(e, t, p, boundary, w, hasHeader) ==
    /\ boundary = Open(e, p)
    /\ WriterOf(w, hasHeader, p)
    /\ RowsIn(CloseBoundary(w)) = OpenRows(e, t, p)

Writing == stage \in {"streaming", "rolling"}

OpenInv ==
    Writing => \A t \in Tables : OpenOf(emits, t, position, active[t], writer[t], header[t])

HasFile(t, r) == r \in DOMAIN store[t] \/ \E f \in queue[t] \union lost[t] : f.range = r

\* The rows a last roll that failed left in the writer
Unrolled(t) == IF t \in unrolled THEN RowsIn(CloseBoundary(writer[t])) ELSE {}

\* Every row so far is in the open boundary or in a file, or the last roll left it
CoverInv ==
    stage \in {"streaming", "rolling", "closing", "completed"} =>
        \A t \in Tables : \A b \in Emitted(t) :
            b <= position => \/ Writing /\ Home(emits, b) = Open(emits, position)
                             \/ ~Writing /\ b \in Unrolled(t)
                             \/ HasFile(t, Home(emits, b))

\* The range is exhausted when the last boundary is closed, and the queues of the bundlers
\* that run are empty when the command has completed
StageInv ==
    /\ stage \in {"rolling", "closing", "completed"} => Remaining = {}
    /\ stage = "completed" => \A t \in Tables : Down(t) \/ queue[t] = {}

ExportInv == ExportTyped /\ FilesInv /\ OpenInv /\ CoverInv /\ StageInv

-----------------------------------------------------------------------------
(* One table and the next block.                                           *)

\* Block b comes right after p in the chain; p may be None
Follows(p, b) == p \in Int /\ -1 <= p /\ p < b /\ \A c \in Chain : c < b => c <= p

\* The boundary that is open when the next block arrives is the one its row goes to.
LEMMA OpenNext ==
    ASSUME NEW e, NEW b \in Chain, NEW p, Follows(p, b)
    PROVE  Open(e, p) = Home(e, b)
<1>1. b \in Nat /\ p \in Int
  BY ChainType DEF Follows
<1>2. ASSUME NEW c \in Chain PROVE c < b <=> c < p + 1
  <2>1. c \in Nat
    BY ChainType
  <2>2. QED
    BY <1>1, <2>1 DEF Follows
<1>3. Before(e, p + 1) = Before(e, b)
  BY <1>2 DEF Before, Output
<1>4. Opener(e, p + 1) = Opener(e, b)
  BY <1>3 DEF Opener
<1>5. QED
  BY <1>4 DEF Open, Home

\* A block with an output opens its own boundary; one without leaves it as it is.
LEMMA OpenAfter ==
    ASSUME NEW e, NEW b \in Chain
    PROVE  /\ b \in Output(e) => Open(e, b) = NewBoundary(b)
           /\ b \notin Output(e) => Open(e, b) = Home(e, b)
<1>1. b \in Nat /\ b + 1 \in Nat
  BY ChainType
<1>2. ASSUME b \in Output(e) PROVE Open(e, b) = NewBoundary(b)
  <2>1. b \in Before(e, b + 1)
    BY <1>1, <1>2 DEF Before
  <2>2. Opener(e, b + 1) \in Before(e, b + 1) /\ b <= Opener(e, b + 1)
    BY <1>1, <2>1, OpenerShape
  <2>3. Opener(e, b + 1) \in Nat /\ Opener(e, b + 1) < b + 1
    BY <1>1, <2>2, OpenerShape DEF Before
  <2>4. Opener(e, b + 1) = b
    BY <1>1, <2>2, <2>3
  <2>5. QED
    BY <2>4 DEF Open
<1>3. ASSUME b \notin Output(e) PROVE Open(e, b) = Home(e, b)
  <2>1. ASSUME NEW c \in Output(e) PROVE c < b + 1 <=> c < b
    <3>1. c \in Nat /\ c # b
      BY <1>3, ChainType DEF Output
    <3>2. QED
      BY <1>1, <3>1
  <2>2. Before(e, b + 1) = Before(e, b)
    BY <2>1 DEF Before
  <2>3. Opener(e, b + 1) = Opener(e, b)
    BY <2>2 DEF Opener
  <2>4. QED
    BY <2>3 DEF Open, Home
<1>4. QED
  BY <1>2, <1>3

\* The writer of a readable boundary with rows up to p has rows up to any later block.
LEMMA WriterLater ==
    ASSUME NEW w \in Writer, NEW h \in BOOLEAN, NEW p \in Int, NEW b \in Nat, p <= b,
           WriterOf(w, h, p)
    PROVE  WriterOf(w, h, b)
<1>1. ASSUME NEW c \in RowsIn(CloseBoundary(w)), c <= p PROVE c <= b
  <2>1. CloseBoundary(w) \in Seq(Line)
    BY CloseWriter DEF Lines
  <2>2. PICK lines : lines = CloseBoundary(w)
    OBVIOUS
  <2>3. \A i \in DOMAIN lines : lines[i] \in Line
    BY <2>1, <2>2, LenProperties, ElementOfSeq
  <2>4. c \in Chain
    BY <2>2, <2>3 DEF RowsIn, Line
  <2>5. c \in Nat
    BY <2>4, ChainType
  <2>6. QED
    BY <1>1, <2>5
<1>2. QED
  BY <1>1 DEF WriterOf

\* Dumping the row of the next block, if the table has one, adds it to the open boundary.
LEMMA DumpedOpen ==
    ASSUME NEW e, NEW t \in Tables, NEW b \in Output(e), NEW p, Follows(p, b),
           NEW boundary, NEW w \in Writer, NEW h \in BOOLEAN,
           OpenOf(e, t, p, boundary, w, h),
           NEW d, d = IF t \in e[b] THEN DumpRow(w, h, b) ELSE w,
           NEW g, g = (h \/ t \in e[b])
    PROVE  /\ boundary = Home(e, b)
           /\ d \in Writer /\ WriterOf(d, g, b)
           /\ RowsIn(CloseBoundary(d)) = {c \in RowsOf(e, t, Home(e, b)) : c <= b}
<1>1. b \in Chain /\ b \in Nat /\ p \in Int /\ p < b
  BY ChainType DEF Output, Follows
<1>2. /\ boundary = Home(e, b) /\ WriterOf(w, h, p)
      /\ RowsIn(CloseBoundary(w)) = {c \in RowsOf(e, t, Home(e, b)) : c <= p}
  BY <1>1, OpenNext DEF OpenOf, OpenRows
<1>3. ASSUME NEW c \in Chain PROVE c <= b <=> (c <= p \/ c = b)
  <2>1. c \in Nat
    BY ChainType
  <2>2. c < b => c <= p
    BY DEF Follows
  <2>3. QED
    BY <1>1, <2>1, <2>2
<1>4. RowsOf(e, t, Home(e, b)) \subseteq Chain
  BY DEF RowsOf, Output
<1>5. CASE t \in e[b]
  <2>1. d = DumpRow(w, h, b) /\ g = TRUE
    BY <1>5
  <2>2. /\ d \in Writer /\ WriterOf(d, TRUE, b)
        /\ RowsIn(CloseBoundary(d)) = RowsIn(CloseBoundary(w)) \union {b}
    <3>1. CASE h = TRUE
      <4>1. WriterOf(w, TRUE, p) /\ d = DumpRow(w, TRUE, b)
        BY <1>2, <2>1, <3>1
      <4>2. QED
        BY <1>1, <4>1, DumpRowAdds
    <3>2. CASE h = FALSE
      <4>1. WriterOf(w, FALSE, p) /\ d = DumpRow(w, FALSE, b)
        BY <1>2, <2>1, <3>2
      <4>2. QED
        BY <1>1, <4>1, DumpRowAdds
    <3>3. QED
      BY <3>1, <3>2
  <2>3. b \in RowsOf(e, t, Home(e, b))
    BY <1>5 DEF RowsOf
  <2>4. {c \in RowsOf(e, t, Home(e, b)) : c <= b}
           = {c \in RowsOf(e, t, Home(e, b)) : c <= p} \union {b}
    BY <1>3, <1>4, <2>3
  <2>5. QED
    BY <1>2, <2>1, <2>2, <2>4
<1>6. CASE t \notin e[b]
  <2>1. d = w /\ g = h
    BY <1>6
  <2>2. b \notin RowsOf(e, t, Home(e, b))
    BY <1>6 DEF RowsOf
  <2>3. {c \in RowsOf(e, t, Home(e, b)) : c <= b} = {c \in RowsOf(e, t, Home(e, b)) : c <= p}
    BY <1>3, <1>4, <2>2
  <2>4. WriterOf(w, h, b)
    BY <1>1, <1>2, WriterLater
  <2>5. QED
    BY <1>2, <2>1, <2>3, <2>4
<1>7. QED
  BY <1>5, <1>6

\* A block in the range of the open boundary leaves it open.
LEMMA BlockStays ==
    ASSUME NEW e, NEW t \in Tables, NEW b \in Output(e), NEW d, NEW g,
           InRange(Home(e, b), b), WriterOf(d, g, b),
           RowsIn(CloseBoundary(d)) = {c \in RowsOf(e, t, Home(e, b)) : c <= b}
    PROVE  OpenOf(e, t, b, Home(e, b), d, g)
<1>1. b \in Chain
  BY DEF Output
<1>2. Open(e, b) = Home(e, b)
  BY <1>1, OpenAfter, OpenerShape, OpenerBelow, InRangeSame, ChainType DEF Home
<1>3. QED
  BY <1>2 DEF OpenOf, OpenRows

\* A block past the open boundary closes it, with all the rows that belong there, and the
\* boundary of the block has none yet.
LEMMA BlockRolls ==
    ASSUME NEW e, NEW t \in Tables, NEW b \in Output(e), NEW d,
           ~ InRange(Home(e, b), b),
           RowsIn(CloseBoundary(d)) = {c \in RowsOf(e, t, Home(e, b)) : c <= b}
    PROVE  /\ OpenOf(e, t, b, NewBoundary(b), EmptyWriter, FALSE)
           /\ RowsIn(CloseBoundary(d)) = RowsOf(e, t, Home(e, b))
<1>1. b \in Chain
  BY DEF Output
<1>2. NewBoundary(b) # Home(e, b)
  BY <1>1, OpenerShape, OpenerBelow, InRangeSame, ChainType DEF Home
<1>3. /\ RowsOf(e, t, Home(e, b)) \subseteq Chain
      /\ RowsOf(e, t, NewBoundary(b)) \subseteq Chain
  BY DEF RowsOf, Output
<1>4. ASSUME NEW c \in RowsOf(e, t, Home(e, b)) PROVE c <= b
  <2>1. c \in Chain /\ Home(e, c) = Home(e, b)
    BY DEF RowsOf, Output
  <2>2. QED
    BY <1>2, <2>1, RollSeparates
<1>5. ASSUME NEW c \in RowsOf(e, t, NewBoundary(b)) PROVE ~ (c <= b)
  <2>1. c \in Chain /\ Home(e, c) = NewBoundary(b)
    BY DEF RowsOf, Output
  <2>2. QED
    BY <1>2, <2>1, RollSeparates
<1>6. Open(e, b) = NewBoundary(b)
  BY <1>1, OpenAfter
<1>7. RowsIn(CloseBoundary(EmptyWriter)) = OpenRows(e, t, b)
  <2>1. OpenRows(e, t, b) = {}
    BY <1>5, <1>6 DEF OpenRows
  <2>2. QED
    BY <2>1, EmptyWriterHolds
<1>8. OpenOf(e, t, b, NewBoundary(b), EmptyWriter, FALSE)
  BY <1>6, <1>7 DEF OpenOf, WriterOf
<1>9. {c \in RowsOf(e, t, Home(e, b)) : c <= b} = RowsOf(e, t, Home(e, b))
  BY <1>4
<1>10. QED
  BY <1>8, <1>9

-----------------------------------------------------------------------------
(* The steps.                                                              *)

\* A boundary that is closed with all its rows becomes a file, if it has any.
LEMMA ClosedFile ==
    ASSUME NEW e, NEW t \in Tables, NEW boundary \in Boundary, NEW d \in Writer,
           d = EmptyWriter \/ (IsWritten(d) /\ WellFormed(CloseBoundary(d))),
           RowsIn(CloseBoundary(d)) = RowsOf(e, t, boundary)
    PROVE  /\ Stop(boundary, d) \subseteq File
           /\ \A f \in Stop(boundary, d) : f.range = boundary /\ IsFile(e, t, f.range, f.lines)
           /\ RowsOf(e, t, boundary) # {} => \E f \in Stop(boundary, d) : f.range = boundary
<1>1. PICK f : f = [range |-> boundary, lines |-> CloseBoundary(d)]
  OBVIOUS
<1>2. f.range = boundary /\ f.lines = CloseBoundary(d) /\ f \in File
  BY <1>1, CloseWriter DEF File
<1>3. CASE IsWritten(d) /\ WellFormed(CloseBoundary(d))
  <2>1. Stop(boundary, d) = {f}
    BY <1>1, <1>3 DEF Stop
  <2>2. QED
    BY <1>2, <1>3, <2>1 DEF IsFile
<1>4. CASE d = EmptyWriter
  <2>1. Stop(boundary, d) = {} /\ RowsIn(CloseBoundary(d)) = {}
    BY <1>4, EmptyWriterHolds DEF Stop
  <2>2. QED
    BY <2>1
<1>5. QED
  BY <1>3, <1>4

\* The rows of a table are those of its blocks with an output.
LEMMA EmittedRows ==
    ASSUME NEW t \in Tables, NEW b \in Emitted(t)
    PROVE  b \in Chain /\ b \in Output(emits) /\ t \in emits[b]
           /\ b \in RowsOf(emits, t, Home(emits, b))
BY DEF Emitted, Output, RowsOf

\* The next block comes right after the position of the stream.
LEMMA NextBlock ==
    ASSUME ExportTyped, NEW b \in Chain, b \in Remaining, b = Min(Remaining)
    PROVE  Follows(position, b)
<1>1. position \in Int /\ -1 <= position
  <2>1. position \in Chain \/ position = None
    BY DEF ExportTyped
  <2>2. CASE position \in Chain
    <3>1. position \in Nat
      BY <2>2, ChainType
    <3>2. QED
      BY <3>1
  <2>3. CASE position = None
    BY <2>3 DEF None
  <2>4. QED
    BY <2>1, <2>2, <2>3
<1>2. Remaining \subseteq Nat
  BY ChainType DEF Remaining
<1>3. \A c \in Remaining : b <= c
  BY <1>2, MinProperties
<1>4. b > position /\ b \in Nat
  BY <1>2 DEF Remaining
<1>5. ASSUME NEW c \in Chain, c < b PROVE c <= position
  <2>1. c \in Nat
    BY ChainType
  <2>2. c \notin Remaining
    BY <1>3, <1>4, <1>5, <2>1
  <2>3. QED
    BY <1>1, <2>1, <2>2 DEF Remaining
<1>6. QED
  BY <1>1, <1>4, <1>5 DEF Follows

\* What the writer of a table holds once the rows of a block are dumped
Dumped(t, b) == IF t \in emits[b] THEN DumpRow(writer[t], header[t], b) ELSE writer[t]

Wrote(t, b) == header[t] \/ t \in emits[b]

\* HandleBlockScopedData, table by table
LEMMA HandleBlockTables ==
    ASSUME NEW b \in Chain, HandleBlockScopedData(b), NEW t \in Tables
    PROVE  LET rolls == ~ InRange(active[t], b)
           IN  /\ queue'[t] = IF rolls THEN queue[t] \union Stop(active[t], Dumped(t, b))
                              ELSE queue[t]
               /\ writer'[t] = IF rolls THEN EmptyWriter ELSE Dumped(t, b)
               /\ header'[t] = (~ rolls /\ Wrote(t, b))
               /\ active'[t] = IF rolls THEN NewBoundary(b) ELSE active[t]
<1>1. b < StopBlock /\ b \in Nat /\ StopBlock \in Nat
  BY ChainType, BundlerAssumption
<1>2. active'[t] = IF ~ InRange(active[t], b) THEN NewBoundary(b) ELSE active[t]
  BY <1>1 DEF HandleBlockScopedData, Roll, NextBoundary
<1>3. QED
  BY <1>2 DEF HandleBlockScopedData, Roll, Dumped, Wrote

\* The table after a block: what its files, its writer and its boundary are.
LEMMA HandleBlockTable ==
    ASSUME ExportInv, NEW b \in Chain, HandleBlockScopedData(b), NEW t \in Tables
    PROVE  /\ writer'[t] \in Writer /\ header'[t] \in BOOLEAN /\ active'[t] \in Boundary
           /\ queue'[t] \subseteq File
           /\ \A f \in queue'[t] : IsFile(emits, t, f.range, f.lines)
           /\ OpenOf(emits, t, b, active'[t], writer'[t], header'[t])
           /\ queue[t] \subseteq queue'[t]
           /\ \A c \in RowsOf(emits, t, Open(emits, position)) :
                 \/ Open(emits, position) = Open(emits, b)
                 \/ \E f \in queue'[t] : f.range = Open(emits, position)
<1>1. b \in Output(emits) /\ Follows(position, b) /\ b \in Nat /\ b <= StopBlock
  <2>1. Remaining # {} /\ b = Min(Remaining) /\ emits[b] \notin {NoOutput, Undecodable}
    BY DEF HandleBlockScopedData
  <2>2. b \in Remaining
    BY <2>1, ChainType, MinProperties DEF Remaining
  <2>3. b \in Nat /\ b < StopBlock /\ StopBlock \in Nat
    BY ChainType, BundlerAssumption
  <2>4. QED
    BY <2>1, <2>2, <2>3, NextBlock DEF ExportInv, Output
<1>2. /\ writer[t] \in Writer /\ header[t] \in BOOLEAN /\ queue[t] \subseteq File
      /\ \A f \in queue[t] : IsFile(emits, t, f.range, f.lines)
  BY DEF ExportInv, ExportTyped, FilesInv
<1>3. OpenOf(emits, t, position, active[t], writer[t], header[t])
  BY DEF ExportInv, OpenInv, Writing, HandleBlockScopedData
<1>4. PICK e, p, home, w, h, d, g : /\ e = emits /\ p = position /\ home = active[t]
                                    /\ w = writer[t] /\ h = header[t]
                                    /\ d = Dumped(t, b) /\ g = Wrote(t, b)
  OBVIOUS
<1>5. g \in BOOLEAN /\ g = (h \/ t \in e[b])
      /\ d = (IF t \in e[b] THEN DumpRow(w, h, b) ELSE w)
  BY <1>4 DEF Wrote, Dumped
<1>6. /\ home = Home(e, b) /\ d \in Writer /\ WriterOf(d, g, b)
      /\ RowsIn(CloseBoundary(d)) = {c \in RowsOf(e, t, Home(e, b)) : c <= b}
  <2>1. /\ b \in Output(e) /\ Follows(p, b) /\ w \in Writer /\ h \in BOOLEAN
        /\ OpenOf(e, t, p, home, w, h)
    BY <1>1, <1>2, <1>3, <1>4
  <2>2. QED
    BY <1>5, <2>1, DumpedOpen
<1>7. Open(e, p) = home
  BY <1>1, <1>4, <1>6, OpenNext
<1>8. home \in Boundary /\ NewBoundary(b) \in Boundary
  <2>1. Opener(e, b) \in Nat /\ Opener(e, b) <= StopBlock
    BY <1>1, OpenerShape
  <2>2. QED
    BY <1>1, <1>6, <2>1, NewBoundaryType DEF Home
<1>9. CASE InRange(home, b)
  <2>1. OpenOf(e, t, b, home, d, g)
    BY <1>1, <1>4, <1>6, <1>9, BlockStays
  <2>2. /\ queue'[t] = queue[t] /\ writer'[t] = d /\ (header'[t] = g) /\ active'[t] = home
    BY <1>4, <1>5, <1>9, HandleBlockTables
  <2>3. Open(e, b) = home
    BY <2>1 DEF OpenOf
  <2>4. QED
    BY <1>2, <1>4, <1>5, <1>6, <1>7, <1>8, <2>1, <2>2, <2>3
<1>10. CASE ~ InRange(home, b)
  <2>1. /\ OpenOf(e, t, b, NewBoundary(b), EmptyWriter, FALSE)
        /\ RowsIn(CloseBoundary(d)) = RowsOf(e, t, home)
    BY <1>1, <1>4, <1>6, <1>10, BlockRolls
  <2>2. /\ queue'[t] = queue[t] \union Stop(home, d) /\ writer'[t] = EmptyWriter
        /\ header'[t] = FALSE /\ active'[t] = NewBoundary(b)
    BY <1>4, <1>5, <1>10, HandleBlockTables
  <2>3. /\ Stop(home, d) \subseteq File
        /\ \A f \in Stop(home, d) : f.range = home /\ IsFile(e, t, f.range, f.lines)
        /\ RowsOf(e, t, home) # {} => \E f \in Stop(home, d) : f.range = home
    <3>1. d = EmptyWriter \/ (IsWritten(d) /\ WellFormed(CloseBoundary(d)))
      BY <1>5, <1>6 DEF WriterOf
    <3>2. QED
      BY <1>6, <1>8, <2>1, <3>1, ClosedFile
  <2>4. QED
    BY <1>2, <1>4, <1>7, <1>8, <2>1, <2>2, <2>3, EmptyWriterHolds
<1>11. QED
  BY <1>9, <1>10

\* Bundler.Roll is given for every table.
LEMMA RolledTables ==
    ASSUME NEW tables, NEW b, NEW lines, Roll(tables, b, lines)
    PROVE  /\ writer' = [t \in Tables |-> writer'[t]]
           /\ queue' = [t \in Tables |-> queue'[t]]
           /\ active' = [t \in Tables |-> active'[t]]
<1>1. writer' = [t \in Tables |-> writer'[t]]
  BY DEF Roll
<1>2. queue' = [t \in Tables |-> queue'[t]]
  BY DEF Roll
<1>3. active' = [t \in Tables |-> active'[t]]
  BY DEF Roll
<1>4. QED
  BY <1>1, <1>2, <1>3

\* Rows stay in a file, or in the boundary that is open, when a block is handled.
LEMMA HandleBlockCovers ==
    ASSUME ExportInv, NEW b \in Chain, HandleBlockScopedData(b), NEW t \in Tables,
           NEW c \in Emitted(t), c <= b
    PROVE  \/ Home(emits, c) = Open(emits, b)
           \/ Home(emits, c) \in DOMAIN store[t]
           \/ \E f \in queue'[t] \union lost[t] : f.range = Home(emits, c)
<1>1. Follows(position, b)
  <2>1. Remaining # {} /\ b = Min(Remaining)
    BY DEF HandleBlockScopedData
  <2>2. b \in Remaining
    BY <2>1, ChainType, MinProperties DEF Remaining
  <2>3. QED
    BY <2>1, <2>2, NextBlock DEF ExportInv
<1>2. c \in Chain /\ c \in RowsOf(emits, t, Home(emits, c))
  BY EmittedRows
<1>3. /\ queue[t] \subseteq queue'[t]
      /\ \A d \in RowsOf(emits, t, Open(emits, position)) :
            \/ Open(emits, position) = Open(emits, b)
            \/ \E f \in queue'[t] : f.range = Open(emits, position)
  BY HandleBlockTable
<1>4. CASE Home(emits, c) = Open(emits, position)
  BY <1>2, <1>3, <1>4
<1>5. CASE Home(emits, c) # Open(emits, position)
  <2>1. c # b
    BY <1>1, <1>5, OpenNext
  <2>2. c <= position
    <3>1. c \in Nat /\ b \in Nat
      BY <1>2, ChainType
    <3>2. c < b
      BY <2>1, <3>1
    <3>3. QED
      BY <1>1, <1>2, <3>2 DEF Follows
  <2>3. HasFile(t, Home(emits, c))
    BY <1>5, <2>2 DEF ExportInv, CoverInv, HandleBlockScopedData, Writing
  <2>4. QED
    BY <1>3, <2>3 DEF HasFile
<1>6. QED
  BY <1>4, <1>5

\* The invariant survives a block.
LEMMA HandleBlockKeeps ==
    ASSUME ExportInv, NEW b \in Chain, HandleBlockScopedData(b)
    PROVE  ExportInv'
<1>1. /\ emits' = emits /\ stage' = stage /\ position' = b /\ store' = store
      /\ lastCursor' = lastCursor /\ faults' = faults /\ stage = "streaming"
      /\ lost' = lost /\ unrolled' = unrolled
  BY DEF HandleBlockScopedData, storeVars
<1>2. ASSUME NEW t \in Tables
      PROVE  /\ writer'[t] \in Writer /\ header'[t] \in BOOLEAN /\ active'[t] \in Boundary
             /\ queue'[t] \subseteq File
             /\ \A f \in queue'[t] : IsFile(emits, t, f.range, f.lines)
             /\ OpenOf(emits, t, b, active'[t], writer'[t], header'[t])
  BY HandleBlockTable
<1>3. /\ \E F : writer' = [t \in Tables |-> F[t]]
      /\ \E F : header' = [t \in Tables |-> F[t]]
      /\ \E F : queue' = [t \in Tables |-> F[t]]
      /\ \E F : active' = [t \in Tables |-> F[t]]
  <2>1. header' = [t \in Tables |-> header'[t]]
    BY DEF HandleBlockScopedData
  <2>2. /\ writer' = [t \in Tables |-> writer'[t]] /\ queue' = [t \in Tables |-> queue'[t]]
        /\ active' = [t \in Tables |-> active'[t]]
    <3>1. PICK lines : Roll(Tables, b, lines)
      BY DEF HandleBlockScopedData
    <3>2. QED
      BY <3>1, RolledTables
  <2>3. QED
    BY <2>1, <2>2
<1>4. /\ writer' \in [Tables -> Writer] /\ header' \in [Tables -> BOOLEAN]
      /\ queue' \in [Tables -> SUBSET File]
      /\ active' \in [Tables -> Boundary \union {NoBoundary}]
  BY <1>2, <1>3
<1>5. ExportTyped'
  BY <1>1, <1>4 DEF ExportInv, ExportTyped
<1>6. FilesInv'
  BY <1>1, <1>2 DEF ExportInv, FilesInv
<1>7. OpenInv'
  BY <1>1, <1>2 DEF OpenInv
<1>8. CoverInv'
  <2> SUFFICES ASSUME NEW t \in Tables, NEW c \in Emitted(t)', c <= b
               PROVE  \/ Home(emits, c) = Open(emits, b)
                      \/ HasFile(t, Home(emits, c))'
    BY <1>1 DEF CoverInv, Writing
  <2>1. c \in Emitted(t)
    BY <1>1 DEF Emitted
  <2>2. QED
    BY <1>1, <2>1, HandleBlockCovers DEF HasFile
<1>9. StageInv'
  BY <1>1 DEF StageInv
<1>10. QED
  BY <1>5, <1>6, <1>7, <1>8, <1>9 DEF ExportInv

\* A block without an output only moves the position.
LEMMA SkipBlockKeeps ==
    ASSUME ExportInv, NEW b \in Chain, SkipBlock(b)
    PROVE  ExportInv'
<1>1. /\ UNCHANGED <<emits, stage, active, writer, header, queue, lost, unrolled, store,
                     lastCursor, faults>>
      /\ position' = b /\ stage = "streaming" /\ emits[b] = NoOutput
  BY DEF SkipBlock, bundlerVars, storeVars
<1>2. Follows(position, b) /\ b \notin Output(emits) /\ b \in Nat
  <2>1. Remaining # {} /\ b = Min(Remaining)
    BY DEF SkipBlock
  <2>2. b \in Remaining
    BY <2>1, ChainType, MinProperties DEF Remaining
  <2>3. QED
    BY <1>1, <2>1, <2>2, ChainType, NextBlock DEF ExportInv, Output
<1>3. Open(emits, b) = Open(emits, position)
  BY <1>2, OpenNext, OpenAfter
<1>4. ASSUME NEW c \in Output(emits) PROVE c <= b <=> c <= position
  <2>1. c \in Chain /\ c \in Nat /\ c # b
    BY <1>2, ChainType DEF Output
  <2>2. c < b => c <= position
    BY <1>2, <2>1 DEF Follows
  <2>3. QED
    BY <1>2, <2>1, <2>2 DEF Follows
<1>5. ExportTyped'
  BY <1>1 DEF ExportInv, ExportTyped
<1>6. FilesInv'
  BY <1>1 DEF ExportInv, FilesInv
<1>7. OpenInv'
  <2> SUFFICES ASSUME NEW t \in Tables
               PROVE  OpenOf(emits, t, b, active[t], writer[t], header[t])
    BY <1>1 DEF OpenInv
  <2>1. OpenOf(emits, t, position, active[t], writer[t], header[t])
    BY <1>1 DEF ExportInv, OpenInv, Writing
  <2>2. OpenRows(emits, t, b) = OpenRows(emits, t, position)
    BY <1>3, <1>4 DEF OpenRows, RowsOf
  <2>3. WriterOf(writer[t], header[t], b)
    <3>1. PICK w, h, p : w = writer[t] /\ h = header[t] /\ p = position
      OBVIOUS
    <3>2. w \in Writer /\ h \in BOOLEAN
      BY <3>1 DEF ExportInv, ExportTyped
    <3>3. WriterOf(w, h, p)
      BY <2>1, <3>1 DEF OpenOf
    <3>4. p \in Int /\ p <= b
      BY <1>2, <3>1 DEF Follows
    <3>5. WriterOf(w, h, b)
      BY <1>2, <3>2, <3>3, <3>4, WriterLater
    <3>6. QED
      BY <3>1, <3>5
  <2>4. QED
    BY <1>3, <2>1, <2>2, <2>3 DEF OpenOf
<1>8. CoverInv'
  <2> SUFFICES ASSUME NEW t \in Tables, NEW c \in Emitted(t)', c <= b
               PROVE  \/ Home(emits, c) = Open(emits, b)
                      \/ HasFile(t, Home(emits, c))'
    BY <1>1 DEF CoverInv, Writing
  <2>1. c \in Emitted(t) /\ c \in Output(emits)
    BY <1>1 DEF Emitted, Output
  <2>2. \/ Home(emits, c) = Open(emits, position)
        \/ HasFile(t, Home(emits, c))
    BY <1>1, <1>4, <2>1 DEF ExportInv, CoverInv, Writing
  <2>3. QED
    BY <1>1, <1>3, <2>2 DEF HasFile
<1>9. StageInv'
  BY <1>1 DEF StageInv
<1>10. QED
  BY <1>5, <1>6, <1>7, <1>8, <1>9 DEF ExportInv

\* The stream that is over has handled the last block of the range.
LEMMA LastHandled ==
    ASSUME ExportTyped, Remaining = {}
    PROVE  position \in Chain /\ position \in Nat /\ \A c \in Chain : c <= position
<1>1. PICK c \in Chain : c \in Nat
  BY ChainType, ProtoCsvAssumption
<1>2. position # None
  <2>1. c > -1
    BY <1>1
  <2>2. QED
    BY <2>1 DEF Remaining, None
<1>3. position \in Chain
  BY <1>2 DEF ExportTyped
<1>4. position \in Nat
  BY <1>3, ChainType
<1>5. ASSUME NEW d \in Chain PROVE d <= position
  <2>1. d \in Nat /\ ~ (d > position)
    BY ChainType DEF Remaining
  <2>2. QED
    BY <1>4, <2>1
<1>6. QED
  BY <1>3, <1>4, <1>5

\* The last roll goes past every boundary that can be open.
LEMMA TriggerRolls ==
    ASSUME NEW e, NEW p \in Chain
    PROVE  /\ Trigger(p) \in Nat
           /\ ~ InRange(Open(e, p), Trigger(p))
<1>1. p \in Nat /\ p + 1 \in Nat /\ StartBlock <= p /\ BundleSize \in Nat \ {0}
      /\ StartBlock \in Nat /\ StopBlock \in Nat
  BY ChainType, BundlerAssumption
<1>2. PICK x : x = Opener(e, p + 1)
  OBVIOUS
<1>3. x \in Nat /\ x <= p
  <2>1. x \in Nat
    BY <1>1, <1>2, OpenerShape
  <2>2. CASE Before(e, p + 1) = {}
    BY <1>1, <1>2, <2>2 DEF Opener
  <2>3. CASE Before(e, p + 1) # {}
    <3>1. x < p + 1
      BY <1>1, <1>2, <2>3, OpenerShape DEF Before
    <3>2. QED
      BY <1>1, <2>1, <3>1
  <2>4. QED
    BY <2>2, <2>3
<1>4. PICK s : s = NewBoundary(x).start
  OBVIOUS
<1>5. /\ s \in Nat /\ s <= x /\ s % BundleSize = 0
      /\ NewBoundary(x).end = IF StopBlock < s + BundleSize THEN StopBlock
                                                            ELSE s + BundleSize
  BY <1>3, <1>4, NewBoundaryShape DEF BlockRanges
<1>6. PICK m \in Nat : m = p - (p % BundleSize)
  <2>1. p - (p % BundleSize) \in Nat
    BY <1>1, CsvAssumptions, Csv!Aligned
  <2>2. QED
    BY <2>1
<1>7. s <= m
  <2>1. s <= p
    BY <1>1, <1>3, <1>5
  <2>2. QED
    BY <1>1, <1>5, <1>6, <2>1, CsvAssumptions, Csv!AlignedBelow
<1>8. Trigger(p) = m + BundleSize
  BY <1>6 DEF Trigger
<1>9. ~ (Trigger(p) < NewBoundary(x).end)
  BY <1>1, <1>5, <1>6, <1>7, <1>8
<1>10. QED
  BY <1>1, <1>2, <1>6, <1>8, <1>9 DEF InRange, Open

\* The last roll closes the open boundary of a table with all its rows.
LEMMA FinalRollTable ==
    ASSUME ExportInv, NEW tables \in SUBSET Tables, RollLast(tables), NEW t \in tables
    PROVE  /\ writer'[t] = EmptyWriter /\ header'[t] = FALSE
           /\ active'[t] \in Boundary \union {NoBoundary}
           /\ queue'[t] \subseteq File
           /\ \A f \in queue'[t] : IsFile(emits, t, f.range, f.lines)
           /\ queue[t] \subseteq queue'[t]
           /\ RowsOf(emits, t, Open(emits, position)) # {}
                 => \E f \in queue'[t] : f.range = Open(emits, position)
<1>1. stage = "rolling" /\ Remaining = {}
  BY DEF RollLast, ExportInv, StageInv
<1>2. position \in Chain /\ position \in Nat /\ \A c \in Chain : c <= position
  BY <1>1, LastHandled DEF ExportInv
<1>3. /\ writer[t] \in Writer /\ queue[t] \subseteq File
      /\ \A f \in queue[t] : IsFile(emits, t, f.range, f.lines)
  BY DEF ExportInv, ExportTyped, FilesInv
<1>4. OpenOf(emits, t, position, active[t], writer[t], header[t])
  BY <1>1 DEF ExportInv, OpenInv, Writing
<1>5. PICK e, p, home, w, n : /\ e = emits /\ p = position /\ home = active[t]
                              /\ w = writer[t] /\ n = Trigger(position)
  OBVIOUS
<1>6. home = Open(e, p) /\ ~ InRange(home, n) /\ n \in Nat
  BY <1>2, <1>4, <1>5, TriggerRolls DEF OpenOf
<1>7. home \in Boundary
  <2>1. p + 1 \in Nat /\ Opener(e, p + 1) \in Nat /\ Opener(e, p + 1) <= StopBlock
    BY <1>2, <1>5, OpenerShape
  <2>2. QED
    BY <1>6, <2>1, NewBoundaryType DEF Open
<1>8. NextBoundary(n) \in Boundary \union {NoBoundary}
  <2>1. StopBlock \in Nat
    BY BundlerAssumption
  <2>2. CASE n >= StopBlock
    BY <2>2 DEF NextBoundary
  <2>3. CASE ~ (n >= StopBlock)
    <3>1. n <= StopBlock
      BY <1>6, <2>1, <2>3
    <3>2. QED
      BY <1>6, <2>3, <3>1, NewBoundaryType DEF NextBoundary
  <2>4. QED
    BY <2>2, <2>3
<1>9. RowsIn(CloseBoundary(w)) = RowsOf(e, t, home)
  <2>1. RowsIn(CloseBoundary(w)) = {c \in RowsOf(e, t, home) : c <= p}
    BY <1>4, <1>5, <1>6 DEF OpenOf, OpenRows
  <2>2. \A c \in RowsOf(e, t, home) : c <= p
    BY <1>2, <1>5 DEF RowsOf, Output
  <2>3. QED
    BY <2>1, <2>2
<1>10. w = EmptyWriter \/ (IsWritten(w) /\ WellFormed(CloseBoundary(w)))
  BY <1>4, <1>5 DEF OpenOf, WriterOf
<1>11. /\ Stop(home, w) \subseteq File
       /\ \A f \in Stop(home, w) : f.range = home /\ IsFile(e, t, f.range, f.lines)
       /\ RowsOf(e, t, home) # {} => \E f \in Stop(home, w) : f.range = home
  <2>1. w \in Writer
    BY <1>3, <1>5
  <2>2. QED
    BY <1>7, <1>9, <1>10, <2>1, ClosedFile
<1>12. /\ writer'[t] = EmptyWriter /\ header'[t] = FALSE
       /\ queue'[t] = queue[t] \union Stop(home, w)
       /\ active'[t] = NextBoundary(n)
  <2>1. Roll(tables, n, writer)
    BY <1>5 DEF RollLast
  <2>2. header'[t] = FALSE
    BY <1>5, <1>6 DEF RollLast
  <2>3. QED
    BY <1>5, <1>6, <2>1, <2>2 DEF Roll
<1>13. QED
  BY <1>3, <1>5, <1>6, <1>8, <1>11, <1>12

\* A table whose last roll failed stays as it is.
LEMMA UnrolledTable ==
    ASSUME NEW tables \in SUBSET Tables, RollLast(tables), NEW t \in Tables \ tables
    PROVE  /\ queue'[t] = queue[t] /\ writer'[t] = writer[t] /\ active'[t] = active[t]
           /\ t \in unrolled'
<1>1. Roll(tables, Trigger(position), writer)
  BY DEF RollLast
<1>2. QED
  BY <1>1 DEF Roll, RollLast

\* The invariant survives the last roll, whichever tables it fails for.
LEMMA FinalRollKeeps ==
    ASSUME ExportInv, NEW tables \in SUBSET Tables, RollLast(tables),
           faults' \in 0 .. MaxFaults
    PROVE  ExportInv'
<1>1. /\ UNCHANGED <<emits, position, lost, store, lastCursor>>
      /\ stage = "rolling" /\ stage' = "closing" /\ unrolled' = Tables \ tables
  BY DEF RollLast, storeVars
<1>2. ASSUME NEW t \in Tables
      PROVE  /\ writer'[t] \in Writer /\ header'[t] \in BOOLEAN
             /\ active'[t] \in Boundary \union {NoBoundary}
             /\ queue'[t] \subseteq File
             /\ \A f \in queue'[t] : IsFile(emits, t, f.range, f.lines)
             /\ queue[t] \subseteq queue'[t]
  <2>1. CASE t \in tables
    BY <2>1, FinalRollTable, EmptyWriterHolds
  <2>2. CASE t \notin tables
    <3>1. /\ queue'[t] = queue[t] /\ writer'[t] = writer[t] /\ active'[t] = active[t]
          /\ header'[t] \in BOOLEAN
      BY <2>2, UnrolledTable DEF RollLast
    <3>2. QED
      BY <3>1 DEF ExportInv, ExportTyped, FilesInv
  <2>3. QED
    BY <2>1, <2>2
<1>3. /\ \E F : writer' = [t \in Tables |-> F[t]]
      /\ \E F : header' = [t \in Tables |-> F[t]]
      /\ \E F : queue' = [t \in Tables |-> F[t]]
      /\ \E F : active' = [t \in Tables |-> F[t]]
  <2>1. header' = [t \in Tables |-> header'[t]]
    BY DEF RollLast
  <2>2. /\ writer' = [t \in Tables |-> writer'[t]] /\ queue' = [t \in Tables |-> queue'[t]]
        /\ active' = [t \in Tables |-> active'[t]]
    <3>1. Roll(tables, Trigger(position), writer)
      BY DEF RollLast
    <3>2. QED
      BY <3>1, RolledTables
  <2>3. QED
    BY <2>1, <2>2
<1>4. /\ writer' \in [Tables -> Writer] /\ header' \in [Tables -> BOOLEAN]
      /\ queue' \in [Tables -> SUBSET File]
      /\ active' \in [Tables -> Boundary \union {NoBoundary}]
  BY <1>2, <1>3
<1>5. ExportTyped'
  BY <1>1, <1>4 DEF ExportInv, ExportTyped
<1>6. FilesInv'
  <2>1. ASSUME NEW t \in Tables, NEW f \in queue'[t] \union lost[t]
        PROVE  IsFile(emits, t, f.range, f.lines)
    BY <1>2 DEF ExportInv, FilesInv
  <2>2. QED
    BY <1>1, <2>1 DEF ExportInv, FilesInv
<1>7. OpenInv'
  BY <1>1 DEF OpenInv, Writing
<1>8. CoverInv'
  <2> SUFFICES ASSUME NEW t \in Tables, NEW c \in Emitted(t)', c <= position
               PROVE  c \in Unrolled(t)' \/ HasFile(t, Home(emits, c))'
    BY <1>1 DEF CoverInv, Writing
  <2>1. c \in Emitted(t)
    BY <1>1 DEF Emitted
  <2>2. c \in RowsOf(emits, t, Home(emits, c))
    BY <2>1, EmittedRows
  <2>3. Home(emits, c) = Open(emits, position) \/ HasFile(t, Home(emits, c))
    BY <1>1, <2>1 DEF ExportInv, CoverInv, Writing
  <2>4. CASE HasFile(t, Home(emits, c))
    <3>1. queue[t] \subseteq queue'[t]
      BY <1>2
    <3>2. QED
      BY <1>1, <2>4, <3>1 DEF HasFile
  <2>5. CASE Home(emits, c) = Open(emits, position) /\ t \in tables
    <3>1. \E f \in queue'[t] : f.range = Open(emits, position)
      BY <2>2, <2>5, FinalRollTable
    <3>2. QED
      BY <2>5, <3>1, <1>1 DEF HasFile
  <2>6. CASE Home(emits, c) = Open(emits, position) /\ t \notin tables
    <3>1. c \in OpenRows(emits, t, position)
      BY <2>2, <2>6 DEF OpenRows
    <3>2. c \in RowsIn(CloseBoundary(writer[t]))
      BY <1>1, <3>1 DEF ExportInv, OpenInv, OpenOf, Writing
    <3>3. writer'[t] = writer[t] /\ t \in unrolled'
      BY <2>6, UnrolledTable
    <3>4. QED
      BY <3>2, <3>3 DEF Unrolled
  <2>7. QED
    BY <2>3, <2>4, <2>5, <2>6
<1>9. StageInv'
  BY <1>1 DEF ExportInv, StageInv, Remaining
<1>10. QED
  BY <1>5, <1>6, <1>7, <1>8, <1>9 DEF ExportInv

\* What an upload leaves in the store: the file as it was queued, even where the store
\* keeps the object it has, and every other file as it was.
LEMMA UploadStores ==
    ASSUME ExportInv, NEW t \in Tables, NEW f \in queue[t],
           store' = [store EXCEPT ![t] = WriteObject(@, f.range, f.lines)]
    PROVE  /\ DOMAIN store' = Tables
           /\ \A u \in Tables : u # t => store'[u] = store[u]
           /\ DOMAIN store'[t] = DOMAIN store[t] \union {f.range}
           /\ store'[t][f.range] = f.lines
           /\ \A r \in DOMAIN store[t] : store'[t][r] = store[t][r]
<1>1. /\ DOMAIN store' = Tables /\ store'[t] = WriteObject(store[t], f.range, f.lines)
      /\ \A u \in Tables : u # t => store'[u] = store[u]
  BY DEF ExportInv, ExportTyped
<1>2. f.lines \in Lines /\ IsFile(emits, t, f.range, f.lines)
  <2>1. f \in File
    BY DEF ExportInv, ExportTyped
  <2>2. IsFile(emits, t, f.range, f.lines)
    BY DEF ExportInv, FilesInv
  <2>3. QED
    BY <2>1, <2>2 DEF File
<1>3. PICK old, new, range, lines : /\ old = store[t] /\ new = store'[t]
                                    /\ range = f.range /\ lines = f.lines
  OBVIOUS
<1>4. new = WriteObject(old, range, lines)
  BY <1>1, <1>3
<1>5. ASSUME range \in DOMAIN old PROVE old[range] = lines
  <2>1. old[range] \in Lines /\ IsFile(emits, t, range, old[range])
    BY <1>3, <1>5 DEF ExportInv, ExportTyped, FilesInv
  <2>2. RowsIn(old[range]) = RowsIn(lines) /\ WellFormed(old[range]) /\ WellFormed(lines)
    BY <1>2, <1>3, <2>1 DEF IsFile
  <2>3. QED
    BY <1>2, <1>3, <2>1, <2>2, SameRows
<1>6. /\ DOMAIN new = DOMAIN old \union {range} /\ new[range] = lines
      /\ \A r \in DOMAIN old : new[r] = old[r]
  <2>1. CASE KeepsExisting /\ range \in DOMAIN old
    <3>1. new = old
      BY <1>4, <2>1 DEF WriteObject
    <3>2. QED
      BY <1>5, <2>1, <3>1
  <2>2. CASE ~ (KeepsExisting /\ range \in DOMAIN old)
    <3>1. new = [k \in DOMAIN old \union {range} |-> IF k = range THEN lines ELSE old[k]]
      BY <1>4, <2>2 DEF WriteObject
    <3>2. QED
      BY <1>5, <3>1
  <2>3. QED
    BY <2>1, <2>2
<1>7. QED
  BY <1>1, <1>3, <1>6

\* The invariant survives an upload, and no file changes.
LEMMA UploadKeeps ==
    ASSUME ExportInv, NEW t \in Tables, UploadBoundary(t)
    PROVE  /\ ExportInv'
           /\ \A u \in Tables : \A r \in DOMAIN store[u] :
                 r \in DOMAIN store'[u] /\ store'[u][r] = store[u][r]
<1>1. PICK f \in queue[t] :
          /\ queue' = [queue EXCEPT ![t] = @ \ {f}]
          /\ store' = [store EXCEPT ![t] = WriteObject(@, f.range, f.lines)]
  BY DEF UploadBoundary
<1>2. /\ UNCHANGED <<emits, stage, position, active, writer, header, lost, unrolled,
                     lastCursor, faults>>
      /\ Alive
  BY DEF UploadBoundary
<1>3. /\ DOMAIN store' = Tables
      /\ \A u \in Tables : u # t => store'[u] = store[u]
      /\ DOMAIN store'[t] = DOMAIN store[t] \union {f.range}
      /\ store'[t][f.range] = f.lines
      /\ \A r \in DOMAIN store[t] : store'[t][r] = store[t][r]
  BY <1>1, UploadStores
<1>4. /\ f.range \in Boundary /\ f.lines \in Lines
      /\ IsFile(emits, t, f.range, f.lines)
  <2>1. f \in File
    BY DEF ExportInv, ExportTyped
  <2>2. IsFile(emits, t, f.range, f.lines)
    BY DEF ExportInv, FilesInv
  <2>3. QED
    BY <2>1, <2>2 DEF File
<1>5. /\ queue' \in [Tables -> SUBSET File]
      /\ \A u \in Tables : queue'[u] \subseteq queue[u]
      /\ \A u \in Tables : \A g \in queue[u] : g \in queue'[u] \/ (u = t /\ g = f)
  <2>1. queue \in [Tables -> SUBSET File]
    BY DEF ExportInv, ExportTyped
  <2>2. QED
    BY <1>1, <2>1
<1>6. ASSUME NEW u \in Tables
      PROVE  /\ \A r \in DOMAIN store[u] : r \in DOMAIN store'[u] /\ store'[u][r] = store[u][r]
             /\ \A r \in DOMAIN store'[u] : r \in DOMAIN store[u] \/ (u = t /\ r = f.range)
  BY <1>3
<1>7. ASSUME NEW u \in Tables, NEW r \in DOMAIN store'[u]
      PROVE  /\ r \in Boundary /\ store'[u][r] \in Lines
             /\ IsFile(emits, u, r, store'[u][r])
  <2>1. CASE r \in DOMAIN store[u]
    <3>1. r \in Boundary /\ store[u][r] \in Lines /\ IsFile(emits, u, r, store[u][r])
      BY <2>1 DEF ExportInv, ExportTyped, FilesInv
    <3>2. QED
      BY <1>6, <2>1, <3>1
  <2>2. CASE u = t /\ r = f.range
    BY <1>3, <1>4, <2>2
  <2>3. QED
    BY <1>6, <2>1, <2>2
<1>8. ExportTyped'
  BY <1>2, <1>3, <1>5, <1>7 DEF ExportInv, ExportTyped
<1>9. FilesInv'
  <2>1. \A u \in Tables : \A g \in queue'[u] \union lost[u] : g \in queue[u] \union lost[u]
    BY <1>5
  <2>2. QED
    BY <1>2, <1>7, <2>1 DEF ExportInv, FilesInv
<1>10. OpenInv'
  BY <1>2 DEF ExportInv, OpenInv, Writing
<1>11. CoverInv'
  <2> SUFFICES ASSUME stage \in {"streaming", "rolling", "closing", "completed"},
                      NEW u \in Tables, NEW c \in Emitted(u)', c <= position
               PROVE  \/ Writing /\ Home(emits, c) = Open(emits, position)
                      \/ ~Writing /\ c \in Unrolled(u)
                      \/ HasFile(u, Home(emits, c))'
    BY <1>2 DEF CoverInv, Writing, Unrolled
  <2>1. c \in Emitted(u)
    BY <1>2 DEF Emitted
  <2>2. \/ Writing /\ Home(emits, c) = Open(emits, position)
        \/ ~Writing /\ c \in Unrolled(u)
        \/ HasFile(u, Home(emits, c))
    BY <2>1 DEF ExportInv, CoverInv
  <2>3. ASSUME NEW r, HasFile(u, r) PROVE HasFile(u, r)'
    <3>1. CASE r \in DOMAIN store[u]
      BY <1>6, <3>1 DEF HasFile
    <3>2. CASE \E g \in queue[u] \union lost[u] : g.range = r
      BY <1>2, <1>3, <1>5, <3>2 DEF HasFile
    <3>3. QED
      BY <2>3, <3>1, <3>2 DEF HasFile
  <2>4. QED
    BY <1>2, <2>2, <2>3 DEF HasFile
<1>12. StageInv'
  BY <1>2, <1>5 DEF ExportInv, StageInv, Remaining, Alive
<1>13. QED
  BY <1>6, <1>8, <1>9, <1>10, <1>11, <1>12 DEF ExportInv

\* The invariant survives an upload that fails.
LEMMA UploadFailsKeeps ==
    ASSUME ExportInv, NEW t \in Tables, UploadBoundaryFails(t)
    PROVE  ExportInv'
<1>1. PICK f \in queue[t] :
          /\ queue' = [queue EXCEPT ![t] = @ \ {f}]
          /\ lost' = [lost EXCEPT ![t] = {f}]
  BY DEF UploadBoundaryFails
<1>2. /\ UNCHANGED <<emits, stage, position, active, writer, header, unrolled, store,
                     lastCursor>>
      /\ Alive /\ lost[t] = {} /\ faults' \in 0 .. MaxFaults
  <2>1. Alive /\ lost[t] = {} /\ faults < MaxFaults /\ faults' = faults + 1
    BY DEF UploadBoundaryFails, Down
  <2>2. MaxFaults \in Nat /\ faults \in 0 .. MaxFaults
    BY ProtoCsvAssumption DEF ExportInv, ExportTyped
  <2>3. faults' \in 0 .. MaxFaults
    BY <2>1, <2>2
  <2>4. UNCHANGED <<emits, stage, position, active, writer, header, unrolled, store, lastCursor>>
    BY DEF UploadBoundaryFails, storeVars
  <2>5. QED
    BY <2>1, <2>3, <2>4
<1>3. queue \in [Tables -> SUBSET File] /\ lost \in [Tables -> SUBSET File]
  BY DEF ExportInv, ExportTyped
<1>4. /\ queue' \in [Tables -> SUBSET File] /\ lost' \in [Tables -> SUBSET File]
      /\ \A u \in Tables : queue'[u] \union lost'[u] = queue[u] \union lost[u]
  BY <1>1, <1>2, <1>3
<1>5. ExportTyped'
  BY <1>2, <1>4 DEF ExportInv, ExportTyped
<1>6. FilesInv'
  BY <1>2, <1>4 DEF ExportInv, FilesInv
<1>7. OpenInv'
  BY <1>2 DEF ExportInv, OpenInv, Writing
<1>8. CoverInv'
  <2> SUFFICES ASSUME stage \in {"streaming", "rolling", "closing", "completed"},
                      NEW u \in Tables, NEW c \in Emitted(u)', c <= position
               PROVE  \/ Writing /\ Home(emits, c) = Open(emits, position)
                      \/ ~Writing /\ c \in Unrolled(u)
                      \/ HasFile(u, Home(emits, c))'
    BY <1>2 DEF CoverInv, Writing, Unrolled
  <2>1. c \in Emitted(u)
    BY <1>2 DEF Emitted
  <2>2. \/ Writing /\ Home(emits, c) = Open(emits, position)
        \/ ~Writing /\ c \in Unrolled(u)
        \/ HasFile(u, Home(emits, c))
    BY <2>1 DEF ExportInv, CoverInv
  <2>3. HasFile(u, Home(emits, c)) => HasFile(u, Home(emits, c))'
    BY <1>2, <1>4 DEF HasFile
  <2>4. QED
    BY <2>2, <2>3
<1>9. StageInv'
  BY <1>2 DEF ExportInv, StageInv, Remaining, Alive
<1>10. QED
  BY <1>5, <1>6, <1>7, <1>8, <1>9 DEF ExportInv

\* A step that only changes the stage, the cursor file or the count of the faults.
LEMMA StageKeeps ==
    ASSUME ExportInv, UNCHANGED <<emits, position, bundlerVars, store>>,
           stage' \in {"streaming", "rolling", "closing", "failing", "completed", "gave up",
                       "down"},
           lastCursor' \in Chain \union {None}, faults' \in 0 .. MaxFaults,
           \/ stage' = stage
           \/ stage' \in {"failing", "gave up", "down"}
           \/ stage' = "rolling" /\ stage = "streaming" /\ Remaining = {}
           \/ /\ stage' = "completed" /\ stage = "closing"
              /\ \A t \in Tables : Down(t) \/ queue[t] = {}
    PROVE  ExportInv'
<1>1. UNCHANGED <<emits, position, active, writer, header, queue, lost, unrolled, store>>
  BY DEF bundlerVars
<1>2. ExportTyped'
  BY <1>1 DEF ExportInv, ExportTyped
<1>3. FilesInv'
  BY <1>1 DEF ExportInv, FilesInv
<1>4. Writing' => Writing
  BY DEF Writing
<1>5. OpenInv'
  BY <1>1, <1>4 DEF ExportInv, OpenInv
<1>6. CoverInv'
  <2> SUFFICES ASSUME stage' \in {"streaming", "rolling", "closing", "completed"},
                      NEW t \in Tables, NEW c \in Emitted(t)', c <= position
               PROVE  \/ Writing' /\ Home(emits, c) = Open(emits, position)
                      \/ ~Writing' /\ c \in Unrolled(t)
                      \/ HasFile(t, Home(emits, c))'
    BY <1>1 DEF CoverInv, Unrolled
  <2>1. c \in Emitted(t) /\ stage \in {"streaming", "rolling", "closing", "completed"}
    BY <1>1 DEF Emitted
  <2>2. Writing <=> Writing'
    BY <2>1 DEF Writing
  <2>3. \/ Writing /\ Home(emits, c) = Open(emits, position)
        \/ ~Writing /\ c \in Unrolled(t)
        \/ HasFile(t, Home(emits, c))
    BY <2>1 DEF ExportInv, CoverInv
  <2>4. QED
    BY <1>1, <2>2, <2>3 DEF HasFile
<1>7. StageInv'
  BY <1>1 DEF ExportInv, StageInv, Remaining, Down
<1>8. QED
  BY <1>2, <1>3, <1>5, <1>6, <1>7 DEF ExportInv

\* Before the first block the boundary of the start block is open, and has no rows.
LEMMA NewBundlerOpen ==
    ASSUME NEW e, NEW t \in Tables
    PROVE  /\ OpenOf(e, t, None, NewBoundary(StartBlock), EmptyWriter, FALSE)
           /\ \A c \in Chain : ~ (c <= None)
<1>1. \A c \in Chain : ~ (c <= None) /\ ~ (c < None + 1)
  <2>1. ASSUME NEW n \in Nat PROVE ~ (n <= None) /\ ~ (n < None + 1)
    BY DEF None
  <2>2. QED
    BY <2>1, ChainType
<1>2. Open(e, None) = NewBoundary(StartBlock)
  <2>1. Before(e, None + 1) = {}
    BY <1>1 DEF Before, Output
  <2>2. QED
    BY <2>1 DEF Open, Opener
<1>3. OpenRows(e, t, None) = {}
  BY <1>1 DEF OpenRows, RowsOf, Output
<1>4. QED
  BY <1>1, <1>2, <1>3, EmptyWriterHolds DEF OpenOf, WriterOf

\* The types of a table's bundler before its first block
LEMMA NewBundlerTyped ==
    /\ [t \in Tables |-> NewBoundary(StartBlock)] \in [Tables -> Boundary \union {NoBoundary}]
    /\ [t \in Tables |-> EmptyWriter] \in [Tables -> Writer]
    /\ [t \in Tables |-> FALSE] \in [Tables -> BOOLEAN]
    /\ [t \in Tables |-> {}] \in [Tables -> SUBSET File]
BY BundlerAssumption, NewBoundaryType, EmptyWriterHolds

\* The invariant holds at the start of the first run.
LEMMA ExportStarts == ASSUME ExportInit PROVE ExportInv
<1>1. DOMAIN store = Tables /\ \A t \in Tables : DOMAIN store[t] = {}
  BY DEF ExportInit
<1>2. ExportTyped
  <2>1. faults \in 0 .. MaxFaults
    BY ProtoCsvAssumption DEF ExportInit
  <2>2. QED
    BY <1>1, <2>1, NewBundlerTyped DEF ExportInit, ExportTyped
<1>3. FilesInv
  BY <1>1 DEF ExportInit, FilesInv
<1>4. OpenInv
  BY NewBundlerOpen DEF ExportInit, OpenInv
<1>5. CoverInv
  BY NewBundlerOpen DEF ExportInit, CoverInv, Emitted
<1>6. StageInv
  BY DEF ExportInit, StageInv
<1>7. QED
  BY <1>2, <1>3, <1>4, <1>5, <1>6 DEF ExportInv

\* A new run leaves the store as it is and starts over.
LEMMA RunKeeps == ASSUME ExportInv, Run PROVE ExportInv'
<1>1. /\ UNCHANGED <<emits, store, lastCursor, faults>>
      /\ stage' = "streaming" /\ position' = None /\ unrolled' = {}
      /\ active' = [t \in Tables |-> NewBoundary(StartBlock)]
      /\ writer' = [t \in Tables |-> EmptyWriter]
      /\ header' = [t \in Tables |-> FALSE]
      /\ queue' = [t \in Tables |-> {}] /\ lost' = [t \in Tables |-> {}]
  BY DEF Run, storeVars
<1>2. ExportTyped'
  BY <1>1, NewBundlerTyped DEF ExportInv, ExportTyped
<1>3. FilesInv'
  BY <1>1 DEF ExportInv, FilesInv
<1>4. OpenInv'
  BY <1>1, NewBundlerOpen DEF OpenInv
<1>5. CoverInv'
  BY <1>1, NewBundlerOpen DEF CoverInv, Emitted
<1>6. StageInv'
  BY <1>1 DEF StageInv
<1>7. QED
  BY <1>2, <1>3, <1>4, <1>5, <1>6 DEF ExportInv

\* Every step keeps the invariant and every file of the store.
LEMMA ExportStep ==
    ASSUME ExportInv, [ExportNext]_exportVars
    PROVE  /\ ExportInv'
           /\ \A t \in Tables : \A r \in DOMAIN store[t] :
                 r \in DOMAIN store'[t] /\ store'[t][r] = store[t][r]
<1>1. ASSUME UNCHANGED <<emits, position, bundlerVars, store>>,
             \/ stage' = stage
             \/ stage' \in {"failing", "gave up", "down"}
             \/ stage' = "rolling" /\ stage = "streaming" /\ Remaining = {}
             \/ /\ stage' = "completed" /\ stage = "closing"
                /\ \A t \in Tables : Down(t) \/ queue[t] = {},
             lastCursor' \in Chain \union {None}, faults' \in 0 .. MaxFaults
      PROVE  ExportInv'
  <2>1. stage \in {"streaming", "rolling", "closing", "failing", "completed", "gave up",
                   "down"}
    BY DEF ExportInv, ExportTyped
  <2>2. stage' \in {"streaming", "rolling", "closing", "failing", "completed", "gave up",
                    "down"}
    BY <1>1, <2>1
  <2>3. QED
    BY <1>1, <2>2, StageKeeps
<1>2. lastCursor \in Chain \union {None} /\ position \in Chain \union {None}
      /\ faults \in 0 .. MaxFaults /\ MaxFaults \in Nat
  BY ProtoCsvAssumption DEF ExportInv, ExportTyped
<1>3. ASSUME store' = store
      PROVE  \A t \in Tables : \A r \in DOMAIN store[t] :
                r \in DOMAIN store'[t] /\ store'[t][r] = store[t][r]
  BY <1>3
<1>4. ASSUME faults < MaxFaults, faults' = faults + 1 PROVE faults' \in 0 .. MaxFaults
  BY <1>2, <1>4
<1>5. ASSUME NEW b \in Chain, HandleBlockScopedData(b) PROVE ExportInv' /\ store' = store
  BY <1>5, HandleBlockKeeps DEF HandleBlockScopedData, storeVars
<1>6. ASSUME NEW b \in Chain, SkipBlock(b) PROVE ExportInv' /\ store' = store
  BY <1>6, SkipBlockKeeps DEF SkipBlock, storeVars
<1>7. ASSUME NEW b \in Chain, RejectBlock(b) PROVE ExportInv' /\ store' = store
  BY <1>1, <1>2, <1>7 DEF RejectBlock, storeVars
<1>8. CASE WriteLastCursor
  BY <1>1, <1>2, <1>3, <1>8 DEF WriteLastCursor, storeVars
<1>9. CASE WriteLastCursorFails
  BY <1>1, <1>2, <1>3, <1>4, <1>9 DEF WriteLastCursorFails, storeVars
<1>10. CASE FinalRoll
  <2>1. RollLast(Tables) /\ faults' \in 0 .. MaxFaults /\ Tables \in SUBSET Tables
    BY <1>2, <1>10 DEF FinalRoll
  <2>2. store' = store
    BY <2>1 DEF RollLast, storeVars
  <2>3. QED
    BY <1>3, <2>1, <2>2, FinalRollKeeps
<1>11. CASE FinalRollFails
  <2>1. PICK tables \in SUBSET Tables : RollLast(tables)
    BY <1>11 DEF FinalRollFails
  <2>2. faults' \in 0 .. MaxFaults
    BY <1>4, <1>11 DEF FinalRollFails
  <2>3. store' = store
    BY <2>1 DEF RollLast, storeVars
  <2>4. QED
    BY <1>3, <2>1, <2>2, <2>3, FinalRollKeeps
<1>12. CASE \E t \in Tables : UploadBoundary(t)
  BY <1>12, UploadKeeps
<1>13. ASSUME NEW t \in Tables, UploadBoundaryFails(t) PROVE ExportInv' /\ store' = store
  BY <1>13, UploadFailsKeeps DEF UploadBoundaryFails, storeVars
<1>14. CASE RunReturns
  BY <1>1, <1>2, <1>3, <1>14 DEF RunReturns, storeVars
<1>15. CASE Crash
  BY <1>1, <1>2, <1>3, <1>4, <1>15 DEF Crash, storeVars
<1>16. CASE Run
  BY <1>3, <1>16, RunKeeps DEF Run, storeVars
<1>17. CASE UNCHANGED exportVars
  BY <1>1, <1>2, <1>3, <1>17 DEF exportVars, bundlerVars
<1>18. QED
  BY <1>3, <1>5, <1>6, <1>7, <1>8, <1>9, <1>10, <1>11, <1>12, <1>13, <1>14, <1>15, <1>16, <1>17
     DEF ExportNext, RunEnded, Hang

-----------------------------------------------------------------------------
(* The versions of the rows.                                               *)

\* What an upload does to the versions: the file has the one of this run, unless the store
\* has the file and keeps it, and every other file the one it had.
LEMMA UploadVersions ==
    ASSUME ExportTyped, VersionInv, NEW t \in Tables, UploadBoundary(t)
    PROVE  /\ VersionInv'
           /\ \A u \in Tables : \A r \in DOMAIN store[u] :
                 \/ version'[u][r] = version[u][r]
                 \/ UseVersionField /\ ~KeepsExisting /\ version'[u][r] > version[u][r]
<1>1. PICK f \in queue[t] :
          /\ store' = [store EXCEPT ![t] = WriteObject(@, f.range, f.lines)]
          /\ version' = [version EXCEPT ![t] = WriteObject(@, f.range, RowVersion)]
  BY DEF UploadBoundary
<1>2. /\ DOMAIN store' = Tables /\ store'[t] = WriteObject(store[t], f.range, f.lines)
      /\ DOMAIN version' = Tables
      /\ version'[t] = WriteObject(version[t], f.range, RowVersion)
      /\ \A u \in Tables : u # t => store'[u] = store[u] /\ version'[u] = version[u]
  BY <1>1 DEF ExportTyped, VersionInv
<1>3. /\ runs' = runs /\ runs \in Nat /\ RowVersion \in 0 .. runs
      /\ ~UseVersionField => RowVersion = 0
  BY DEF UploadBoundary, VersionInv, RowVersion
<1>4. PICK old, new, range, v, m : /\ old = version[t] /\ new = version'[t]
                                   /\ range = f.range /\ v = RowVersion /\ m = runs
  OBVIOUS
<1>5. /\ m \in Nat /\ v \in 0 .. m /\ new = WriteObject(old, range, v)
      /\ UseVersionField => v = m
      /\ ~UseVersionField => v = 0
      /\ \A r \in DOMAIN old : old[r] \in 0 .. m /\ (~UseVersionField => old[r] = 0)
  BY <1>2, <1>3, <1>4 DEF VersionInv, RowVersion
<1>6. CASE KeepsExisting /\ range \in DOMAIN old
  <2>1. store'[t] = store[t] /\ version'[t] = version[t]
    <3>1. range \in DOMAIN store[t]
      BY <1>4, <1>6 DEF VersionInv
    <3>2. QED
      BY <1>2, <1>4, <1>6, <3>1 DEF WriteObject
  <2>2. \A u \in Tables : store'[u] = store[u] /\ version'[u] = version[u]
    BY <1>2, <2>1
  <2>3. QED
    BY <1>2, <1>3, <2>2 DEF VersionInv
<1>7. CASE ~ (KeepsExisting /\ range \in DOMAIN old)
  <2>1. new = [k \in DOMAIN old \union {range} |-> IF k = range THEN v ELSE old[k]]
    BY <1>5, <1>7 DEF WriteObject
  <2>2. DOMAIN version'[t] = DOMAIN store'[t]
    <3>1. DOMAIN store[t] = DOMAIN old
      BY <1>4 DEF VersionInv
    <3>2. DOMAIN store'[t] = DOMAIN store[t] \union {range}
      BY <1>2, <1>4, <1>7, <3>1 DEF WriteObject
    <3>3. QED
      BY <1>4, <2>1, <3>1, <3>2
  <2>3. \A r \in DOMAIN new : new[r] \in 0 .. m /\ (~UseVersionField => new[r] = 0)
    BY <1>5, <2>1
  <2>4. ASSUME NEW r \in DOMAIN old
        PROVE  \/ new[r] = old[r]
               \/ UseVersionField /\ ~KeepsExisting /\ new[r] > old[r]
    <3>1. CASE r # range
      BY <2>1, <3>1
    <3>2. CASE r = range
      <4>1. new[r] = v /\ ~KeepsExisting
        BY <1>7, <2>1, <3>2
      <4>2. CASE UseVersionField
        BY <1>5, <4>1, <4>2
      <4>3. CASE ~UseVersionField
        BY <1>5, <4>1, <4>3
      <4>4. QED
        BY <4>2, <4>3
    <3>3. QED
      BY <3>1, <3>2
  <2>5. VersionInv'
    <3>1. ASSUME NEW u \in Tables
          PROVE  /\ DOMAIN version'[u] = DOMAIN store'[u]
                 /\ \A r \in DOMAIN version'[u] :
                       version'[u][r] \in 0 .. runs /\ (~UseVersionField => version'[u][r] = 0)
      <4>1. CASE u = t
        BY <1>4, <2>2, <2>3, <4>1
      <4>2. CASE u # t
        BY <1>2, <4>2 DEF VersionInv
      <4>3. QED
        BY <4>1, <4>2
    <3>2. QED
      BY <1>2, <1>3, <3>1 DEF VersionInv
  <2>6. ASSUME NEW u \in Tables, NEW r \in DOMAIN store[u]
        PROVE  \/ version'[u][r] = version[u][r]
               \/ UseVersionField /\ ~KeepsExisting /\ version'[u][r] > version[u][r]
    <3>1. CASE u = t
      <4>1. r \in DOMAIN old
        BY <1>4, <3>1 DEF VersionInv
      <4>2. QED
        BY <1>4, <2>4, <3>1, <4>1
    <3>2. CASE u # t
      BY <1>2, <3>2
    <3>3. QED
      BY <3>1, <3>2
  <2>7. QED
    BY <2>5, <2>6
<1>8. QED
  BY <1>6, <1>7

\* Every step keeps the versions, but for a rerun that replaces a file.
LEMMA VersionStep ==
    ASSUME ExportTyped, VersionInv, [ExportNext]_exportVars
    PROVE  /\ VersionInv'
           /\ \A u \in Tables : \A r \in DOMAIN store[u] :
                 \/ version'[u][r] = version[u][r]
                 \/ UseVersionField /\ ~KeepsExisting /\ version'[u][r] > version[u][r]
<1>1. CASE \E t \in Tables : UploadBoundary(t)
  BY <1>1, UploadVersions
<1>2. CASE ~ \E t \in Tables : UploadBoundary(t)
  <2>1. UNCHANGED storeVars /\ (runs' = runs \/ runs' = runs + 1)
    <3>1. ASSUME NEW b \in Chain, HandleBlockScopedData(b) \/ SkipBlock(b) \/ RejectBlock(b)
          PROVE  UNCHANGED storeVars /\ runs' = runs
      BY <3>1 DEF HandleBlockScopedData, SkipBlock, RejectBlock
    <3>2. CASE Hang \/ WriteLastCursor \/ WriteLastCursorFails \/ RunReturns \/ Crash \/ RunEnded
      BY <3>2 DEF Hang, WriteLastCursor, WriteLastCursorFails, RunReturns, Crash, RunEnded,
                  exportVars, storeVars
    <3>3. CASE FinalRoll \/ FinalRollFails
      BY <3>3 DEF FinalRoll, FinalRollFails, RollLast
    <3>4. ASSUME NEW t \in Tables, UploadBoundaryFails(t)
          PROVE  UNCHANGED storeVars /\ runs' = runs
      BY <3>4 DEF UploadBoundaryFails
    <3>5. CASE Run
      BY <3>5 DEF Run
    <3>6. CASE UNCHANGED exportVars
      BY <3>6 DEF exportVars, storeVars
    <3>7. QED
      BY <1>2, <3>1, <3>2, <3>3, <3>4, <3>5, <3>6 DEF ExportNext
  <2>2. store' = store /\ version' = version
    BY <2>1 DEF storeVars
  <2>3. \A n \in 0 .. runs : n \in 0 .. runs'
    BY <2>1 DEF VersionInv
  <2>4. VersionInv'
    BY <2>1, <2>2, <2>3 DEF VersionInv
  <2>5. QED
    BY <2>2, <2>4
<1>3. QED
  BY <1>1, <1>2

-----------------------------------------------------------------------------
(* What the invariant implies.                                             *)

\* A command that has completed has every row in the file of its boundary, or the file
\* was left out.
LEMMA CompletedRows ==
    ASSUME ExportInv, stage = "completed", NEW t \in Tables, NEW b \in Emitted(t)
    PROVE  b \in Stored(t) \/ b \in LeftOut(t)
<1>1. Remaining = {} /\ (Down(t) \/ queue[t] = {})
  BY DEF ExportInv, StageInv
<1>2. b \in Chain /\ b \in RowsOf(emits, t, Home(emits, b))
  BY EmittedRows
<1>3. b <= position
  BY <1>1, <1>2, LastHandled DEF ExportInv
<1>4. b \in Unrolled(t) \/ HasFile(t, Home(emits, b))
  BY <1>3 DEF ExportInv, CoverInv, Writing
<1>5. CASE b \in Unrolled(t)
  BY <1>5 DEF Unrolled, LeftOut
<1>6. CASE Home(emits, b) \in DOMAIN store[t]
  <2>1. IsFile(emits, t, Home(emits, b), store[t][Home(emits, b)])
    BY <1>6 DEF ExportInv, FilesInv
  <2>2. QED
    BY <1>2, <1>6, <2>1 DEF IsFile, Stored
<1>7. ASSUME NEW f \in queue[t] \union lost[t], f.range = Home(emits, b)
      PROVE  b \in LeftOut(t)
  <2>1. Down(t)
    BY <1>1 DEF Down
  <2>2. b \in RowsIn(f.lines)
    <3>1. IsFile(emits, t, f.range, f.lines)
      BY DEF ExportInv, FilesInv
    <3>2. QED
      BY <1>2, <1>7, <3>1 DEF IsFile
  <2>3. b \in RowsOfAll(queue[t] \union lost[t])
    BY <2>2 DEF RowsOfAll
  <2>4. QED
    BY <2>1, <2>3 DEF LeftOut
<1>8. QED
  BY <1>4, <1>5, <1>6, <1>7 DEF HasFile

\* The invariant implies the properties.
LEMMA ExportInvOK == ASSUME ExportInv, VersionInv PROVE ExportOK
<1>1. TypeOK
  <2>1. \A t \in Tables : writer[t].memory \in Seq(Line) /\ writer[t].disk \in Seq(Line)
    BY DEF ExportInv, ExportTyped, Writer, Lines
  <2>2. ASSUME NEW t \in Tables, NEW f \in queue[t] \union lost[t]
        PROVE  f.range \in Boundary /\ f.lines \in Seq(Line)
    <3>1. f \in File
      BY DEF ExportInv, ExportTyped
    <3>2. QED
      BY <3>1 DEF File, Lines
  <2>3. \A t \in Tables : \A r \in DOMAIN version[t] : version[t][r] \in 0 .. runs
    BY DEF VersionInv
  <2>4. QED
    BY <2>1, <2>2, <2>3 DEF ExportInv, ExportTyped, VersionInv, TypeOK, Lines
<1>2. ASSUME stage = "completed", NEW t \in Tables
      PROVE  /\ Stored(t) \subseteq Emitted(t) /\ Emitted(t) \ Stored(t) \subseteq LeftOut(t)
             /\ \A r, s \in DOMAIN store[t] :
                  r # s => RowsIn(store[t][r]) \intersect RowsIn(store[t][s]) = {}
             /\ \A r \in DOMAIN store[t] : WellFormed(store[t][r])
  <2>1. \A r \in DOMAIN store[t] :
           WellFormed(store[t][r]) /\ RowsIn(store[t][r]) = RowsOf(emits, t, r)
    BY DEF ExportInv, FilesInv, IsFile
  <2>2. Stored(t) \subseteq Emitted(t)
    BY <2>1 DEF Stored, RowsOf, Output, Emitted
  <2>3. Emitted(t) \ Stored(t) \subseteq LeftOut(t)
    BY <1>2, CompletedRows
  <2>4. ASSUME NEW r \in DOMAIN store[t], NEW s \in DOMAIN store[t], r # s
        PROVE  RowsIn(store[t][r]) \intersect RowsIn(store[t][s]) = {}
    BY <2>1, <2>4 DEF RowsOf
  <2>5. QED
    BY <2>1, <2>2, <2>3, <2>4
<1>3. ExportComplete
  BY <1>2 DEF ExportComplete
<1>4. QED
  BY <1>1, <1>3 DEF ExportOK

-----------------------------------------------------------------------------
(* Theorems of the exports.                                                *)

\* The invariant: every file of any run has all the rows of its boundary, every row so
\* far is in a file or in the boundary that is open, or its last roll failed, and every
\* file has the version of a run so far.
THEOREM ExportInvariance == ExportSpec => [](ExportInv /\ VersionInv)
<1>1. ExportInit => ExportInv /\ VersionInv
  <2>1. ASSUME ExportInit PROVE VersionInv
    BY <2>1 DEF ExportInit, VersionInv
  <2>2. QED
    BY <2>1, ExportStarts
<1>2. (ExportInv /\ VersionInv) /\ [ExportNext]_exportVars => (ExportInv /\ VersionInv)'
  BY ExportStep, VersionStep DEF ExportInv
<1>3. QED
  BY <1>1, <1>2, PTL DEF ExportSpec

\* A from-proto-generate-csv that completes has exported every row of the range exactly
\* once, after whatever crashes, failed writes and reruns, but for the files of the bundlers
\* a failed upload shut down and the lines of a last roll that failed.
THEOREM ExportsComplete == ExportSpec => []ExportOK
<1>1. ExportInv /\ VersionInv => ExportOK
  BY ExportInvOK
<1>2. QED
  BY <1>1, ExportInvariance, PTL

\* No step of any run, the reruns after a crash included, changes the rows of a file or
\* removes it, and only a rerun that replaces a file changes the version of its rows.
THEOREM FilesAreFinal == ExportSpec => FilesNeverChange
<1>1. (ExportInv /\ VersionInv) /\ [ExportNext]_exportVars
        => [\A t \in Tables : \A r \in DOMAIN store[t] :
              /\ r \in DOMAIN store'[t] /\ store'[t][r] = store[t][r]
              /\ \/ version'[t][r] = version[t][r]
                 \/ UseVersionField /\ ~KeepsExisting
                    /\ version'[t][r] > version[t][r]]_exportVars
  BY ExportStep, VersionStep DEF ExportInv
<1>2. QED
  BY <1>1, ExportInvariance, PTL DEF ExportSpec, FilesNeverChange

-----------------------------------------------------------------------------
(* The numbers of a set in ascending order.                                *)

\* s lists the numbers of S in ascending order.
Lists(s, S) ==
    /\ s \in [1 .. Cardinality(S) -> S]
    /\ Range(s) = S
    /\ \A n, m \in DOMAIN s : n < m => s[n] < s[m]

\* A set of numbers up to n is finite.
LEMMA UpTo ==
    ASSUME NEW n \in Nat, NEW S \in SUBSET (1 .. n)
    PROVE  IsFiniteSet(S) /\ Cardinality(S) \in Nat /\ S \subseteq Nat /\ S \subseteq Int
<1>1. IsFiniteSet(1 .. n)
  BY FS_Interval
<1>2. IsFiniteSet(S)
  BY <1>1, FS_Subset
<1>3. Cardinality(S) \in Nat
  BY <1>2, FS_CardinalityType
<1>4. S \subseteq Nat /\ S \subseteq Int
  OBVIOUS
<1>5. QED
  BY <1>2, <1>3, <1>4

\* A set of numbers up to n can be listed in ascending order.
LEMMA ListExists ==
    ASSUME NEW n \in Nat, NEW S \in SUBSET (1 .. n)
    PROVE  \E s : Lists(s, S)
<1> DEFINE Unlisted == {k \in Nat : \E T \in SUBSET (1 .. k) : \A s : ~Lists(s, T)}
<1>1. SUFFICES ASSUME Unlisted # {}
               PROVE  FALSE
  OBVIOUS
<1>2. Unlisted \subseteq Nat
  OBVIOUS
<1>3. PICK k \in Unlisted : \A m \in Unlisted : k <= m
  <2> HIDE DEF Unlisted
  <2>1. QED
    BY <1>1, <1>2, NatMin
<1>4. k \in Nat
  BY <1>2
<1>5. PICK T \in SUBSET (1 .. k) : \A s : ~Lists(s, T)
  OBVIOUS
<1>6. IsFiniteSet(T) /\ T \subseteq Nat
  BY <1>4, UpTo
<1>7. Cardinality(T) \in Nat
  BY <1>6, FS_CardinalityType
<1>8. CASE k \notin T
  <2>1. CASE k = 0
    <3>1. T = {}
      BY <2>1
    <3>2. Cardinality(T) = 0
      BY <3>1, FS_EmptySet
    <3> DEFINE e == [i \in 1 .. 0 |-> 0]
    <3>3. Lists(e, T)
      BY <3>1, <3>2 DEF Lists, Range
    <3>4. QED
      BY <3>3, <1>5
  <2>2. CASE k > 0
    <3>1. T \in SUBSET (1 .. (k - 1)) /\ k - 1 \in Nat
      BY <2>2, <1>4, <1>8
    <3>2. k - 1 \in Unlisted
      BY <3>1, <1>5
    <3>3. QED
      BY <3>2, <1>3, <1>4
  <2>3. QED
    BY <2>1, <2>2, <1>4
<1>9. CASE k \in T
  <2> DEFINE U == T \ {k}
  <2>1. k > 0 /\ k - 1 \in Nat
    BY <1>4, <1>9
  <2>2. U \in SUBSET (1 .. (k - 1))
    BY <2>1
  <2>3. k - 1 \notin Unlisted
    <3> HIDE DEF Unlisted
    <3>1. ~ (k <= k - 1)
      BY <1>4
    <3>2. QED
      BY <1>3, <3>1
  <2>4. PICK u : Lists(u, U)
    BY <2>1, <2>2, <2>3
  <2>5. Cardinality(U) = Cardinality(T) - 1
    BY <1>6, <1>9, FS_RemoveElement
  <2>6. IsFiniteSet(U) /\ Cardinality(U) \in Nat
    BY <1>6, FS_Subset, FS_CardinalityType
  <2> DEFINE c == Cardinality(T)
             t == [i \in 1 .. c |-> IF i = c THEN k ELSE u[i]]
  <2>7. c \in Nat /\ c > 0
    BY <2>5, <2>6, <1>7
  <2>8. \A i \in 1 .. (c - 1) : u[i] \in U
    BY <2>4, <2>5 DEF Lists
  <2>9. DOMAIN u = 1 .. (c - 1)
    BY <2>4, <2>5 DEF Lists
  <2>10. t \in [1 .. c -> T]
    BY <2>7, <2>8, <1>9
  <2>11. T \subseteq Range(t)
    <3>1. SUFFICES ASSUME NEW x \in T
                   PROVE  x \in Range(t)
      OBVIOUS
    <3>2. CASE x = k
      BY <3>2, <2>7 DEF Range
    <3>3. CASE x # k
      <4>1. PICK i \in 1 .. (c - 1) : u[i] = x
        BY <3>3, <2>4, <2>9 DEF Lists, Range
      <4>2. i \in 1 .. c /\ i # c
        BY <2>7
      <4>3. t[i] = x
        BY <4>1, <4>2
      <4>4. QED
        BY <4>2, <4>3 DEF Range
    <3>4. QED
      BY <3>2, <3>3
  <2>12. Range(t) = T
    BY <2>10, <2>11 DEF Range
  <2>13. ASSUME NEW n1 \in 1 .. c, NEW n2 \in 1 .. c, n1 < n2
         PROVE  t[n1] < t[n2]
    <3>1. n1 \in 1 .. (c - 1) /\ n1 # c /\ t[n1] = u[n1]
      BY <2>7, <2>13
    <3>2. u[n1] \in 1 .. (k - 1)
      BY <3>1, <2>2, <2>8
    <3>3. CASE n2 = c
      BY <3>1, <3>2, <3>3, <1>4
    <3>4. CASE n2 # c
      <4>1. n2 \in 1 .. (c - 1) /\ t[n2] = u[n2]
        BY <2>7, <3>4
      <4>2. u[n1] < u[n2]
        BY <2>4, <2>9, <2>13, <3>1, <4>1 DEF Lists
      <4>3. QED
        BY <3>1, <4>1, <4>2
    <3>5. QED
      BY <3>3, <3>4
  <2>14. Lists(t, T)
    <3>1. DOMAIN t = 1 .. c
      OBVIOUS
    <3> HIDE DEF t
    <3>2. QED
      BY <3>1, <2>10, <2>12, <2>13 DEF Lists
  <2>15. QED
    <3> HIDE DEF t
    <3>1. QED
      BY <2>14, <1>5
<1>10. QED
  BY <1>8, <1>9

\* Ascending lists a set of numbers.
LEMMA AscendingLists ==
    ASSUME NEW n \in Nat, NEW S \in SUBSET (1 .. n)
    PROVE  Lists(Ascending(S), S)
<1>1. PICK s : Lists(s, S)
  BY ListExists
<1>2. QED
  BY <1>1 DEF Lists, Ascending

\* What it is to be the n-th number of a set.
LEMMA AscendingValues ==
    ASSUME NEW n \in Nat, NEW S \in SUBSET (1 .. n)
    PROVE  /\ Ascending(S) \in Seq(S)
           /\ DOMAIN Ascending(S) = 1 .. Cardinality(S)
           /\ Cardinality(S) \in Nat
           /\ \A i \in DOMAIN Ascending(S) : Ascending(S)[i] \in S
           /\ \A x \in S : \E i \in DOMAIN Ascending(S) : Ascending(S)[i] = x
           /\ \A i, j \in DOMAIN Ascending(S) : Ascending(S)[i] = Ascending(S)[j] => i = j
<1> DEFINE s == Ascending(S)
<1>1. Lists(s, S)
  BY AscendingLists
<1>2. IsFiniteSet(S) /\ Cardinality(S) \in Nat
  BY UpTo
<1> HIDE DEF s
<1>3. DOMAIN s = 1 .. Cardinality(S) /\ s \in [1 .. Cardinality(S) -> S]
  BY <1>1 DEF Lists
<1>4. s \in Seq(S)
  BY <1>2, <1>3
<1>5. \A i \in DOMAIN s : s[i] \in S
  BY <1>3
<1>6. \A x \in S : \E i \in DOMAIN s : s[i] = x
  BY <1>1 DEF Lists, Range
<1>7. ASSUME NEW i \in DOMAIN s, NEW j \in DOMAIN s, s[i] = s[j]
      PROVE  i = j
  <2>1. i \in Int /\ j \in Int /\ s[i] \in Int
    BY <1>2, <1>3, UpTo
  <2>2. ~(i < j) /\ ~(j < i)
    <3>1. ~(s[i] < s[j]) /\ ~(s[j] < s[i])
      BY <1>7, <2>1
    <3>2. QED
      BY <1>1, <3>1 DEF Lists
  <2>3. QED
    BY <2>1, <2>2
<1>8. QED
  BY <1>2, <1>3, <1>4, <1>5, <1>6, <1>7 DEF s

\* A set of numbers is listed in one way only.
LEMMA ListUnique ==
    ASSUME NEW n \in Nat, NEW S \in SUBSET (1 .. n), NEW s, NEW t, Lists(s, S), Lists(t, S)
    PROVE  s = t
<1> DEFINE c == Cardinality(S)
           D == {i \in 1 .. c : s[i] # t[i]}
<1>1. c \in Nat
  BY UpTo
<1>2. DOMAIN s = 1 .. c /\ DOMAIN t = 1 .. c /\ s \in [1 .. c -> S] /\ t \in [1 .. c -> S]
  BY DEF Lists
<1>3. SUFFICES ASSUME D # {}
               PROVE  FALSE
  <2>1. CASE D = {}
    <3>1. \A i \in 1 .. c : s[i] = t[i]
      BY <2>1
    <3>2. s = [i \in 1 .. c |-> s[i]] /\ t = [i \in 1 .. c |-> t[i]]
      BY <1>2
    <3>3. QED
      BY <3>1, <3>2
  <2>2. QED
    BY <1>3, <2>1
<1>4. D \subseteq Nat
  BY <1>1
<1>5. PICK i \in D : \A j \in D : i <= j
  <2> HIDE DEF D
  <2>1. QED
    BY <1>3, <1>4, NatMin
<1>6. i \in 1 .. c /\ i \in Nat /\ s[i] # t[i]
  BY <1>4
<1>7. \A j \in 1 .. c : j < i => s[j] = t[j]
  BY <1>5, <1>6, <1>1
<1>8. s[i] \in Int /\ t[i] \in Int /\ s[i] \in S /\ t[i] \in S
  BY <1>2, <1>6, UpTo
<1>9. CASE s[i] < t[i]
  <2>1. PICK j \in 1 .. c : t[j] = s[i]
    BY <1>2, <1>8 DEF Lists, Range
  <2>2. CASE j < i
    <3>1. s[j] = s[i]
      BY <1>7, <2>1, <2>2
    <3>2. s[j] < s[i]
      BY <1>2, <1>6, <2>2 DEF Lists
    <3>3. QED
      BY <3>1, <3>2, <1>8
  <2>3. CASE j = i
    BY <2>1, <2>3, <1>6
  <2>4. CASE i < j
    <3>1. t[i] < t[j]
      BY <1>2, <1>6, <2>4 DEF Lists
    <3>2. QED
      BY <3>1, <2>1, <1>8, <1>9
  <2>5. QED
    BY <2>2, <2>3, <2>4, <1>1, <1>6
<1>10. CASE t[i] < s[i]
  <2>1. PICK j \in 1 .. c : s[j] = t[i]
    BY <1>2, <1>8 DEF Lists, Range
  <2>2. CASE j < i
    <3>1. t[j] = t[i]
      BY <1>7, <2>1, <2>2
    <3>2. t[j] < t[i]
      BY <1>2, <1>6, <2>2 DEF Lists
    <3>3. QED
      BY <3>1, <3>2, <1>8
  <2>3. CASE j = i
    BY <2>1, <2>3, <1>6
  <2>4. CASE i < j
    <3>1. s[i] < s[j]
      BY <1>2, <1>6, <2>4 DEF Lists
    <3>2. QED
      BY <3>1, <2>1, <1>8, <1>10
  <2>5. QED
    BY <2>2, <2>3, <2>4, <1>1, <1>6
<1>11. QED
  BY <1>6, <1>8, <1>9, <1>10

-----------------------------------------------------------------------------
(* The schema.                                                             *)

\* What a schema is: a known database, fields of known kinds, at most one primary key, none
\* without the options, and no messages below the last type.
SchemaInv ==
    /\ driver \in {"postgres", "risingwave", "clickhouse"}
    /\ \A l \in Level : desc[l] \in Seq(Kinds)
    /\ \A l \in Level : ~MultipleKeys(l)
    /\ ~useProtoOptions => \A l \in Level : Keys(l) = {}
    /\ \A i \in 1 .. Len(desc[Levels]) : ~IsMessage(desc[Levels][i])

\* Every schema a sink starts with is such a schema.
LEMMA SchemaStarts ==
    ASSUME Init
    PROVE  SchemaInv
<1>1. driver \in {"postgres", "risingwave", "clickhouse"}
  BY FromProtoRowsAssumption DEF Init
<1>2. ASSUME NEW l \in Level
      PROVE  /\ desc[l] \in Seq(Kinds)
             /\ (\E i \in DOMAIN desc[l] : IsMessage(desc[l][i])) <=> l < Levels
  <2>1. desc[l] \in Descriptors(l)
    BY DEF Init
  <2>2. desc[l] \in BoundedSeq(FieldKind, MaxFields)
    BY <2>1 DEF Descriptors
  <2>3. PICK m \in 0 .. MaxFields : desc[l] \in [1 .. m -> FieldKind]
    BY <2>2 DEF BoundedSeq, SeqOf
  <2>4. m \in Nat
    BY FromProtoRowsAssumption
  <2>5. desc[l] \in [1 .. m -> Kinds]
    BY <2>3, FromProtoRowsAssumption
  <2>6. desc[l] \in Seq(Kinds)
    BY <2>4, <2>5
  <2>7. (\E i \in DOMAIN desc[l] : IsMessage(desc[l][i])) <=> l < Levels
    BY <2>1 DEF Descriptors
  <2>8. QED
    BY <2>6, <2>7
<1>3. /\ \A l \in Level : ~MultipleKeys(l)
      /\ ~useProtoOptions => \A l \in Level : Keys(l) = {}
  BY DEF Init
<1>4. ASSUME NEW i \in 1 .. Len(desc[Levels])
      PROVE  ~IsMessage(desc[Levels][i])
  <2>1. Levels \in Level /\ ~(Levels < Levels)
    BY FromProtoRowsAssumption DEF Level
  <2>2. desc[Levels] \in Seq(Kinds) /\ ~ \E j \in DOMAIN desc[Levels] : IsMessage(desc[Levels][j])
    BY <2>1, <1>2
  <2>3. i \in DOMAIN desc[Levels]
    BY <2>2
  <2>4. QED
    BY <2>2, <2>3
<1>5. QED
  BY <1>1, <1>2, <1>3, <1>4 DEF SchemaInv

\* The sets of fields are sets of numbers up to the number of fields.
LEMMA FieldSets ==
    ASSUME SchemaInv, NEW l \in Level
    PROVE  /\ Len(desc[l]) \in Nat
           /\ ColumnFields(l) \in SUBSET (1 .. Len(desc[l]))
           /\ Keys(l) \in SUBSET (1 .. Len(desc[l]))
           /\ ColumnFields(l) \ Keys(l) \in SUBSET (1 .. Len(desc[l]))
           /\ Keys(l) \subseteq ColumnFields(l)
<1>1. desc[l] \in Seq(Kinds)
  BY DEF SchemaInv
<1>2. Len(desc[l]) \in Nat
  BY <1>1
<1>3. Keys(l) \subseteq ColumnFields(l)
  BY DEF Keys, ColumnFields
<1>4. QED
  BY <1>2, <1>3 DEF Keys, ColumnFields

\* There is at most one key.
LEMMA OneKey ==
    ASSUME SchemaInv, NEW l \in Level, NEW i \in Keys(l)
    PROVE  Keys(l) = {i}
<1>1. IsFiniteSet(Keys(l)) /\ Cardinality(Keys(l)) \in Nat
  BY FieldSets, UpTo
<1>2. ~ (Cardinality(Keys(l)) > 1)
  BY DEF SchemaInv, MultipleKeys
<1> DEFINE R == Keys(l) \ {i}
<1>3. Cardinality(R) = Cardinality(Keys(l)) - 1
  BY <1>1, FS_RemoveElement
<1>4. IsFiniteSet(R) /\ Cardinality(R) \in Nat
  BY <1>1, FS_Subset, FS_CardinalityType
<1>5. Cardinality(R) = 0
  BY <1>1, <1>2, <1>3, <1>4
<1>6. R = {}
  BY <1>4, <1>5, FS_EmptySet
<1>7. QED
  BY <1>6

\* The nearest message above with a key is one.
LEMMA OneParent ==
    ASSUME NEW l \in Nat, NEW a \in Parents(l)
    PROVE  Parents(l) = {a} /\ a \in 1 .. (l - 1) /\ HasKey(a)
<1>1. a \in 1 .. (l - 1) /\ HasKey(a) /\ \A w \in (a + 1) .. (l - 1) : ~HasKey(w)
  BY DEF Parents
<1>2. ASSUME NEW b \in Parents(l)
      PROVE  b = a
  <2>1. b \in 1 .. (l - 1) /\ HasKey(b) /\ \A w \in (b + 1) .. (l - 1) : ~HasKey(w)
    BY DEF Parents
  <2>2. ~ (b \in (a + 1) .. (l - 1)) /\ ~ (a \in (b + 1) .. (l - 1))
    BY <1>1, <2>1
  <2>3. QED
    BY <1>1, <2>1, <2>2
<1>3. QED
  BY <1>1, <1>2

\* The parent of the messages below: the message itself if it has a key, its own otherwise.
LEMMA NextParents ==
    ASSUME NEW l \in Nat, l >= 1
    PROVE  Parents(l + 1) = IF HasKey(l) THEN {l} ELSE Parents(l)
<1>1. ASSUME NEW a
      PROVE  a \in Parents(l + 1) <=> a \in (IF HasKey(l) THEN {l} ELSE Parents(l))
  <2>1. CASE HasKey(l)
    <3>1. ASSUME a \in Parents(l + 1)
          PROVE  a = l
      <4>1. a \in 1 .. l /\ \A w \in (a + 1) .. l : ~HasKey(w)
        BY <3>1 DEF Parents
      <4>2. QED
        BY <2>1, <4>1
    <3>2. l \in Parents(l + 1)
      <4>1. l \in 1 .. ((l + 1) - 1) /\ (l + 1) .. ((l + 1) - 1) = {}
        OBVIOUS
      <4>2. QED
        BY <2>1, <4>1 DEF Parents
    <3>3. QED
      BY <2>1, <3>1, <3>2
  <2>2. CASE ~HasKey(l)
    <3>1. ASSUME a \in Parents(l + 1)
          PROVE  a \in Parents(l)
      <4>1. a \in 1 .. l /\ HasKey(a) /\ \A w \in (a + 1) .. l : ~HasKey(w)
        BY <3>1 DEF Parents
      <4>2. a # l
        BY <2>2, <4>1
      <4>3. a \in 1 .. (l - 1) /\ (a + 1) .. (l - 1) \subseteq (a + 1) .. l
        BY <4>1, <4>2
      <4>4. QED
        BY <4>1, <4>3 DEF Parents
    <3>2. ASSUME a \in Parents(l)
          PROVE  a \in Parents(l + 1)
      <4>1. a \in 1 .. (l - 1) /\ HasKey(a) /\ \A w \in (a + 1) .. (l - 1) : ~HasKey(w)
        BY <3>2 DEF Parents
      <4>2. \A w \in (a + 1) .. l : w = l \/ w \in (a + 1) .. (l - 1)
        BY <4>1
      <4>3. a \in 1 .. ((l + 1) - 1) /\ (l + 1) - 1 = l
        BY <4>1
      <4>4. \A w \in (a + 1) .. ((l + 1) - 1) : ~HasKey(w)
        BY <2>2, <4>1, <4>2, <4>3
      <4>5. QED
        BY <4>1, <4>3, <4>4 DEF Parents
    <3>3. QED
      BY <2>2, <3>1, <3>2
  <2>3. QED
    BY <2>1, <2>2
<1>2. QED
  BY <1>1

-----------------------------------------------------------------------------
(* The messages and their places.                                          *)

\* s is the place of the message at t, or of one around it.
Above(s, t) == Len(s) <= Len(t) /\ \A k \in 1 .. Len(s) : s[k] = t[k]

\* There are finitely many places in a message, and none at the last type.
LEMMA PlacesBounded ==
    ASSUME SchemaInv, NEW l \in Level
    PROVE  /\ \E n \in Nat : Places(l) \in SUBSET (1 .. n)
           /\ l = Levels => Places(l) = {}
<1>1. Len(desc[l]) \in Nat
  BY FieldSets
<1>2. PICK f : f = Len(desc[l])
  OBVIOUS
<1>3. PICK e : e = ListLength
  OBVIOUS
<1>4. f \in Nat /\ e \in Nat /\ e >= 1
  BY <1>1, <1>2, <1>3, FromProtoRowsAssumption
<1>5. f * e \in Nat
  BY <1>4
<1>6. ASSUME NEW i \in 1 .. f, NEW c \in 1 .. e
      PROVE  (i - 1) * e + c \in 1 .. f * e
  <2>1. i - 1 \in Nat /\ (i - 1) * e \in Nat
    BY <1>4
  <2>2. (i - 1) * e + e = i * e
    BY <1>4
  <2>3. i * e <= f * e
    <3>1. PICK d \in Nat : f = i + d
      BY <1>4
    <3>2. f * e = i * e + d * e
      BY <1>4, <3>1
    <3>3. d * e \in Nat /\ i * e \in Nat
      BY <1>4
    <3>4. QED
      BY <3>2, <3>3
  <2>4. (i - 1) * e + c <= (i - 1) * e + e /\ c >= 1
    BY <1>4, <2>1
  <2> HIDE <1>3
  <2>5. i * e \in Nat
    BY <1>4
  <2>6. PICK x, y, z : x = (i - 1) * e /\ y = i * e /\ z = f * e
    OBVIOUS
  <2>7. x \in Nat /\ y \in Nat /\ z \in Nat /\ x + e = y /\ y <= z /\ x + c <= x + e
    BY <2>6, <2>1, <2>5, <1>5, <2>2, <2>3, <2>4
  <2>8. x + c \in 1 .. z
    BY <2>7, <1>4
  <2>9. QED
    BY <2>6, <2>8
<1>7. ASSUME NEW p \in Places(l)
      PROVE  p \in 1 .. f * e
  <2>1. PICK i \in 1 .. f :
          \E c \in 1 .. (IF desc[l][i] = "messages" THEN e ELSE 1) : p = (i - 1) * e + c
    BY <1>2, <1>3 DEF Places, Place
  <2>2. PICK c \in 1 .. e : p = (i - 1) * e + c
    BY <1>4, <2>1
  <2>3. QED
    BY <2>2, <1>6
<1>8. ASSUME l = Levels
      PROVE  Places(l) = {}
  <2>1. \A i \in 1 .. Len(desc[l]) : ~IsMessage(desc[l][i])
    BY <1>8 DEF SchemaInv
  <2>2. QED
    BY <2>1 DEF Places
<1>9. QED
  BY <1>5, <1>7, <1>8

\* The places of a message, listed.
LEMMA PlacesListed ==
    ASSUME SchemaInv, NEW l \in Level
    PROVE  LET s == Ascending(Places(l))
           IN  /\ s \in Seq(Places(l)) /\ Places(l) \subseteq Nat
               /\ DOMAIN s = 1 .. Cardinality(Places(l)) /\ Cardinality(Places(l)) \in Nat
               /\ \A i \in DOMAIN s : s[i] \in Places(l)
               /\ \A x \in Places(l) : \E i \in DOMAIN s : s[i] = x
               /\ \A i, j \in DOMAIN s : s[i] = s[j] => i = j
<1>1. PICK n \in Nat : Places(l) \in SUBSET (1 .. n)
  BY PlacesBounded
<1>2. PICK P : P = Places(l)
  OBVIOUS
<1>3. P \in SUBSET (1 .. n) /\ P \subseteq Nat
  BY <1>1, <1>2
<1>4. QED
  BY <1>2, <1>3, AscendingValues

\* What the places of a message of type l are.
LEMMA MessagePlaces ==
    ASSUME SchemaInv, NEW l \in Level
    PROVE  \A id : id \in Messages(l) <=>
             id \in Seq(Nat) /\ Len(id) = l - 1 /\ \A k \in 1 .. (l - 1) : id[k] \in Places(k)
<1>1. l \in Nat /\ l - 1 \in Nat /\ \A k \in 1 .. (l - 1) : k \in Level
  BY FromProtoRowsAssumption DEF Level
<1>2. \A k \in 1 .. (l - 1) : Places(k) \subseteq Nat
  BY <1>1, PlacesListed
<1>3. ASSUME NEW id, id \in Messages(l)
      PROVE  id \in Seq(Nat) /\ Len(id) = l - 1 /\ \A k \in 1 .. (l - 1) : id[k] \in Places(k)
  <2>1. /\ id \in [1 .. (l - 1) -> UNION {Places(k) : k \in 1 .. (l - 1)}]
        /\ \A k \in 1 .. (l - 1) : id[k] \in Places(k)
    BY <1>3 DEF Messages
  <2>2. \A k \in 1 .. (l - 1) : id[k] \in Nat
    BY <1>2, <2>1
  <2>3. id = [k \in 1 .. (l - 1) |-> id[k]]
    BY <2>1
  <2>4. id \in [1 .. (l - 1) -> Nat]
    BY <2>2, <2>3
  <2>5. id \in Seq(Nat) /\ Len(id) = l - 1
    <3>1. PICK n \in Nat : n = l - 1
      BY <1>1
    <3>2. id \in [1 .. n -> Nat]
      BY <2>4, <3>1
    <3>3. id \in Seq(Nat) /\ Len(id) = n
      BY <3>2
    <3>4. QED
      BY <3>1, <3>3
  <2>6. QED
    BY <2>1, <2>5
<1>4. ASSUME NEW id \in Seq(Nat), Len(id) = l - 1, \A k \in 1 .. (l - 1) : id[k] \in Places(k)
      PROVE  id \in Messages(l)
  <2>1. id \in [1 .. (l - 1) -> UNION {Places(k) : k \in 1 .. (l - 1)}]
    BY <1>4
  <2>2. QED
    BY <1>4, <2>1 DEF Messages
<1>5. QED
  BY <1>3, <1>4

\* The message around a message is above it.
LEMMA AboveAppend ==
    ASSUME NEW s \in Seq(Nat), NEW t \in Seq(Nat), NEW p \in Nat
    PROVE  /\ Append(s, p) \in Seq(Nat) /\ Len(Append(s, p)) = Len(s) + 1
           /\ \A k \in 1 .. Len(s) : Append(s, p)[k] = s[k]
           /\ Append(s, p)[Len(s) + 1] = p
           /\ Above(Append(s, p), t) => Above(s, t) /\ Len(s) + 1 <= Len(t) /\ t[Len(s) + 1] = p
           /\ Above(t, Append(s, p)) => Above(t, s) \/ Above(s, t)
<1>1. PICK u : u = Append(s, p)
  OBVIOUS
<1>2. u \in Seq(Nat) /\ Len(u) = Len(s) + 1 /\ (\A k \in 1 .. Len(s) : u[k] = s[k])
      /\ u[Len(s) + 1] = p
  BY <1>1
<1>3. Len(s) \in Nat /\ Len(t) \in Nat
  OBVIOUS
<1>4. ASSUME Above(u, t)
      PROVE  Above(s, t) /\ Len(s) + 1 <= Len(t) /\ t[Len(s) + 1] = p
  <2>1. Len(s) + 1 <= Len(t) /\ \A k \in 1 .. (Len(s) + 1) : u[k] = t[k]
    BY <1>2, <1>4 DEF Above
  <2>2. Len(s) <= Len(t) /\ t[Len(s) + 1] = p
    BY <2>1, <1>2, <1>3
  <2>3. ASSUME NEW k \in 1 .. Len(s)
        PROVE  s[k] = t[k]
    <3>1. k \in 1 .. (Len(s) + 1)
      BY <1>3
    <3>2. QED
      BY <3>1, <2>1, <1>2
  <2>4. QED
    BY <2>1, <2>2, <2>3 DEF Above
<1>5. ASSUME Above(t, u)
      PROVE  Above(t, s) \/ Above(s, t)
  <2>1. Len(t) <= Len(s) + 1 /\ \A k \in 1 .. Len(t) : t[k] = u[k]
    BY <1>2, <1>5 DEF Above
  <2>2. CASE Len(t) <= Len(s)
    <3>1. \A k \in 1 .. Len(t) : t[k] = s[k]
      BY <2>1, <2>2, <1>2, <1>3
    <3>2. QED
      BY <2>2, <3>1 DEF Above
  <2>3. CASE Len(t) = Len(s) + 1
    <3>1. \A k \in 1 .. Len(s) : s[k] = t[k]
      BY <2>1, <2>3, <1>2, <1>3
    <3>2. QED
      BY <2>3, <3>1, <1>3 DEF Above
  <2>4. QED
    BY <2>1, <2>2, <2>3, <1>3
<1>6. QED
  BY <1>1, <1>2, <1>4, <1>5

\* A message is above itself, and above no message of its own type but itself.
LEMMA AboveSelf ==
    ASSUME NEW s \in Seq(Nat), NEW t \in Seq(Nat)
    PROVE  /\ Above(s, s)
           /\ Above(s, t) /\ Len(s) = Len(t) => s = t
<1>1. Above(s, s)
  BY DEF Above
<1>2. ASSUME Above(s, t), Len(s) = Len(t)
      PROVE  s = t
  BY <1>2, SeqEqual DEF Above
<1>3. QED
  BY <1>1, <1>2

\* The messages below a message of type l.
LEMMA ChildPlaces ==
    ASSUME SchemaInv, NEW l \in Level, NEW id \in Messages(l), NEW p \in Places(l)
    PROVE  l + 1 \in Level /\ Append(id, p) \in Messages(l + 1)
<1>1. l \in Nat /\ l + 1 \in Level /\ l >= 1
  <2>1. l # Levels
    BY PlacesBounded
  <2>2. QED
    BY <2>1, FromProtoRowsAssumption DEF Level
<1>2. id \in Seq(Nat) /\ Len(id) = l - 1 /\ \A k \in 1 .. (l - 1) : id[k] \in Places(k)
  BY MessagePlaces
<1>3. p \in Nat
  BY PlacesListed
<1>4. PICK u : u = Append(id, p)
  OBVIOUS
<1>5. u \in Seq(Nat) /\ Len(u) = l /\ (\A k \in 1 .. (l - 1) : u[k] = id[k]) /\ u[l] = p
  BY <1>1, <1>2, <1>3, <1>4
<1>6. \A k \in 1 .. l : u[k] \in Places(k)
  BY <1>1, <1>2, <1>5
<1>7. (l + 1) - 1 = l
  BY <1>1
<1>8. u \in Messages(l + 1)
  BY <1>1, <1>5, <1>6, <1>7, MessagePlaces
<1>9. QED
  BY <1>1, <1>4, <1>8

\* The parent of a message is not what stands for no parent.
LEMMA ParentIsMessage ==
    ASSUME SchemaInv, NEW l \in Level, NEW id \in Messages(l), NEW n \in 0 .. (l - 1)
    PROVE  SubSeq(id, 1, n) # NoParent /\ SubSeq(id, 1, n) \in Seq(Nat)
           /\ Len(SubSeq(id, 1, n)) = n
           /\ \A k \in 1 .. n : SubSeq(id, 1, n)[k] = id[k]
<1>1. id \in Seq(Nat) /\ Len(id) = l - 1 /\ \A k \in 1 .. (l - 1) : id[k] \in Places(k)
  BY MessagePlaces
<1>2. l \in Nat /\ n \in Nat /\ n <= Len(id)
  BY <1>1, FromProtoRowsAssumption DEF Level
<1>3. PICK s : s = SubSeq(id, 1, n)
  OBVIOUS
<1>4. s \in Seq(Nat) /\ Len(s) = n /\ \A k \in 1 .. n : s[k] = id[k]
  BY <1>1, <1>2, <1>3
<1>5. ASSUME s = NoParent
      PROVE  FALSE
  <2>1. Len(s) = 1 /\ s[1] = 0
    BY <1>5 DEF NoParent
  <2>2. 1 \in 1 .. n /\ 1 \in Level /\ id[1] = 0 /\ 1 \in 1 .. (l - 1)
    <3>1. n = 1 /\ 1 \in 1 .. n
      BY <2>1, <1>4
    <3>2. s[1] = id[1]
      BY <3>1, <1>4
    <3>3. 1 \in 1 .. (l - 1)
      BY <3>1, <1>1, <1>2
    <3>4. 1 \in Level
      BY FromProtoRowsAssumption DEF Level
    <3>5. QED
      BY <2>1, <3>1, <3>2, <3>3, <3>4
  <2>3. 0 \in Places(1)
    BY <1>1, <2>2
  <2>4. PICK k \in Nat : Places(1) \in SUBSET (1 .. k)
    BY <2>2, PlacesBounded
  <2>5. QED
    BY <2>3, <2>4
<1>6. QED
  BY <1>3, <1>4, <1>5

\* What stands for no parent has the places of no message.
LEMMA NoSuchMessage ==
    ASSUME SchemaInv, NEW l \in Level, NEW id \in Messages(l)
    PROVE  id # NoParent /\ id \in Seq(Nat) /\ Len(id) = l - 1
<1>1. id \in Seq(Nat) /\ Len(id) = l - 1
  BY MessagePlaces
<1>2. PICK n \in Nat : n = l - 1
  BY FromProtoRowsAssumption DEF Level
<1>3. n \in 0 .. (l - 1)
  BY <1>2
<1>4. PICK s : s = SubSeq(id, 1, n)
  OBVIOUS
<1>5. s # NoParent /\ s \in Seq(Nat) /\ Len(s) = n /\ \A k \in 1 .. n : s[k] = id[k]
  BY <1>3, <1>4, ParentIsMessage
<1>6. s = id
  BY <1>1, <1>2, <1>5, SeqEqual
<1>7. QED
  BY <1>1, <1>5, <1>6

\* A step of the walk leaves the schema alone.
LEMMA SameSchema ==
    ASSUME SchemaInv, UNCHANGED schemaVars
    PROVE  /\ \A l : (HasTable(l))' = HasTable(l)
           /\ \A l : (HasKey(l))' = HasKey(l)
           /\ \A l : (Parents(l))' = Parents(l)
           /\ \A l : (Places(l))' = Places(l)
           /\ \A l : (Messages(l))' = Messages(l)
           /\ \A l \in Level : (KeyColumn(l))' = KeyColumn(l)
           /\ \A m : m.level \in Level => (Values(m))' = Values(m)
<1>1. /\ driver' = driver /\ desc' = desc /\ annotated' = annotated /\ present' = present
      /\ useProtoOptions' = useProtoOptions
  BY DEF schemaVars
<1>2. \A l : (ColumnFields(l))' = ColumnFields(l)
  BY <1>1 DEF ColumnFields
<1>3. \A l : (Keys(l))' = Keys(l)
  BY <1>1 DEF Keys
<1>4. \A l : (HasTable(l))' = HasTable(l)
  BY <1>1, <1>2 DEF HasTable
<1>5. \A l : (HasKey(l))' = HasKey(l)
  BY <1>3, <1>4 DEF HasKey
<1>6. \A l : (Parents(l))' = Parents(l)
  BY <1>5 DEF Parents
<1>7. \A l : (Places(l))' = Places(l)
  BY <1>1 DEF Places
<1>8. \A l : (Messages(l))' = Messages(l)
  <2>1. SUFFICES ASSUME NEW l
                 PROVE  (Messages(l))' = Messages(l)
    OBVIOUS
  <2>2. UNION {(Places(k))' : k \in 1 .. (l - 1)} = UNION {Places(k) : k \in 1 .. (l - 1)}
    BY <1>7
  <2>3. (Messages(l))' = {id \in [1 .. (l - 1) -> UNION {(Places(k))' : k \in 1 .. (l - 1)}] :
                            \A k \in 1 .. (l - 1) : id[k] \in (Places(k))'}
    BY DEF Messages
  <2>4. QED
    BY <1>7, <2>2, <2>3 DEF Messages
<1>9. \A l \in Level : (KeyColumn(l))' = KeyColumn(l)
  <2>1. SUFFICES ASSUME NEW l \in Level
                 PROVE  (KeyColumn(l))' = KeyColumn(l)
    OBVIOUS
  <2>2. CASE ~HasKey(l)
    BY <2>2, <1>5 DEF KeyColumn
  <2>3. CASE HasKey(l)
    <3>1. PICK i : i \in Keys(l)
      BY <2>3 DEF HasKey
    <3>2. Keys(l) = {i} /\ (Keys(l))' = {i}
      BY <3>1, <1>3, OneKey
    <3>3. (HasKey(l))'
      BY <2>3, <1>5
    <3>4. QED
      BY <2>3, <3>2, <3>3 DEF KeyColumn
  <2>4. QED
    BY <2>2, <2>3
<1>10. \A l : (FieldValues(l))' = FieldValues(l)
  BY <1>1, <1>2, <1>3 DEF FieldValues
<1>11. (Meta)' = Meta
  BY <1>1 DEF Meta
<1>12. \A m : m.level \in Level => (Values(m))' = Values(m)
  BY <1>9, <1>10, <1>11 DEF Values
<1>13. QED
  BY <1>4, <1>5, <1>6, <1>7, <1>8, <1>9, <1>12

-----------------------------------------------------------------------------
(* The walk.                                                               *)

\* Where a message is and whose key is its parent key.
MessageAt(m) ==
    /\ m.level \in Level
    /\ m.id \in Messages(m.level)
    /\ Parents(m.level) = {} => m.parent = NoParent
    /\ \A a \in Parents(m.level) : m.parent = SubSeq(m.id, 1, a - 1)

Message == [level : Level, id : Seq(Nat), parent : Seq(Nat)]
Row == [level : Level, id : Seq(Nat), parent : Seq(Nat), values : Seq(Int)]

\* The messages to be walked are apart: none is in another.
TodoInv(T) ==
    /\ T \in Seq(Message)
    /\ \A n \in DOMAIN T : MessageAt(T[n])
    /\ \A n, j \in DOMAIN T : Above(T[n].id, T[j].id) => n = j

\* The rows are rows of different messages, after those their parent keys refer to.
RowsInv(R) ==
    /\ R \in Seq(Row)
    /\ \A n \in DOMAIN R : /\ MessageAt(R[n])
                           /\ HasTable(R[n].level)
                           /\ R[n].values = Values(R[n])
    /\ \A n, j \in DOMAIN R : R[n].id = R[j].id => n = j
    /\ \A n \in DOMAIN R : \A a \in Parents(R[n].level) :
          \E j \in 1 .. (n - 1) : R[j].level = a /\ R[j].id = R[n].parent

\* A message to be walked has no row yet, nor has one below it; the row of its parent is
\* there; and a message that has a table has a row or will be walked.
WalkInv(T, R) ==
    /\ \A n \in DOMAIN T, j \in DOMAIN R : ~Above(T[n].id, R[j].id)
    /\ \A n \in DOMAIN T : \A a \in Parents(T[n].level) :
          \E j \in DOMAIN R : R[j].level = a /\ R[j].id = T[n].parent
    /\ \A l \in Level : HasTable(l) =>
          \A id \in Messages(l) : \/ \E j \in DOMAIN R : R[j].level = l /\ R[j].id = id
                                  \/ \E n \in DOMAIN T : Above(T[n].id, id)

InsertInv ==
    /\ SchemaInv
    /\ phase \in {"walking", "done", "failed"}
    /\ phase = "done" => todo = <<>>
    /\ TodoInv(todo)
    /\ RowsInv(inserted)
    /\ WalkInv(todo, inserted)

\* The key column of a table is its one key.
LEMMA KeyColumnIs ==
    ASSUME SchemaInv, NEW l \in Level
    PROVE  /\ KeyColumn(l) \in Seq(Int)
           /\ ~HasKey(l) => KeyColumn(l) = <<>>
           /\ HasKey(l) => \E k \in Keys(l) : KeyColumn(l) = <<k>> /\ Keys(l) = {k}
<1>1. CASE ~HasKey(l)
  BY <1>1 DEF KeyColumn
<1>2. CASE HasKey(l)
  <2>1. PICK k : k \in Keys(l)
    BY <1>2 DEF HasKey
  <2>2. Keys(l) = {k}
    BY <2>1, OneKey
  <2>3. k \in Int
    BY <2>1, FieldSets, UpTo
  <2>4. KeyColumn(l) = <<k>>
    BY <1>2, <2>2 DEF KeyColumn
  <2>5. QED
    BY <1>2, <2>1, <2>2, <2>3, <2>4
<1>3. QED
  BY <1>1, <1>2

\* The values of a message are known by numbers.
LEMMA ValuesType ==
    ASSUME SchemaInv, NEW m, m.level \in Level
    PROVE  Values(m) \in Seq(Int)
<1>1. PICK l : l = m.level
  OBVIOUS
<1>2. Meta \in Seq(Int)
  BY DEF Meta, BlockNumber, Timestamp, Version, Deleted
<1>3. KeyColumn(l) \in Seq(Int)
  BY <1>1, KeyColumnIs
<1>4. FieldValues(l) \in Seq(Int)
  <2> DEFINE S == {i \in ColumnFields(l) \ Keys(l) : desc[l][i] = "array" => present[l][i]}
  <2>1. Len(desc[l]) \in Nat /\ S \in SUBSET (1 .. Len(desc[l]))
    BY <1>1, FieldSets
  <2>2. FieldValues(l) = Ascending(S)
    BY DEF FieldValues
  <2> HIDE DEF S
  <2>3. PICK s : s = Ascending(S)
    OBVIOUS
  <2>4. s \in Seq(S) /\ S \subseteq Int
    BY <2>1, <2>3, AscendingValues, UpTo
  <2>5. s \in Seq(Int)
    BY <2>4, SeqMonotonic
  <2>6. QED
    BY <2>2, <2>3, <2>5
<1>5. (IF m.parent = NoParent THEN <<>> ELSE <<ParentKey>>) \in Seq(Int)
  BY DEF ParentKey
<1>6. QED
  BY <1>1, <1>2, <1>3, <1>4, <1>5 DEF Values

\* The INSERTs of each database name the same columns in the same order.
LEMMA InsertColumnsAre ==
    ASSUME SchemaInv, NEW l \in Level
    PROVE  InsertColumns(l) = Meta \o KeyColumn(l) \o ChildOf(l) \o OtherColumns(l)
<1>1. driver \in {"postgres", "risingwave", "clickhouse"}
  BY DEF SchemaInv
<1>2. CASE driver = "postgres"
  BY <1>2 DEF InsertColumns, PostgresColumns, Meta
<1>3. CASE driver = "risingwave"
  BY <1>3 DEF InsertColumns, RisingwaveColumns, Meta
<1>4. CASE driver = "clickhouse"
  BY <1>4 DEF InsertColumns, ClickhouseColumns, Meta
<1>5. QED
  BY <1>1, <1>2, <1>3, <1>4

\* A message has a parent exactly if there is a message above it that has a key.
LEMMA ParentOrNone ==
    ASSUME SchemaInv, NEW m, MessageAt(m)
    PROVE  /\ Parents(m.level) = {} <=> m.parent = NoParent
           /\ \A a \in Parents(m.level) : /\ Parents(m.level) = {a} /\ a \in Level
                                          /\ m.parent \in Seq(Nat) /\ Len(m.parent) = a - 1
<1>1. PICK l : l = m.level
  OBVIOUS
<1>2. l \in Level /\ l \in Nat /\ m.id \in Messages(l)
  BY <1>1, FromProtoRowsAssumption DEF MessageAt, Level
<1>3. ASSUME NEW a \in Parents(l)
      PROVE  /\ Parents(l) = {a} /\ a \in Level /\ m.parent # NoParent
             /\ m.parent \in Seq(Nat) /\ Len(m.parent) = a - 1
  <2>1. a \in 1 .. (l - 1) /\ Parents(l) = {a}
    BY <1>2, OneParent
  <2>2. m.parent = SubSeq(m.id, 1, a - 1)
    BY <1>1 DEF MessageAt
  <2>3. a - 1 \in 0 .. (l - 1) /\ a \in Level
    BY <2>1, <1>2, FromProtoRowsAssumption DEF Level
  <2>4. QED
    BY <2>1, <2>2, <2>3, <1>2, ParentIsMessage
<1>4. Parents(l) = {} => m.parent = NoParent
  BY <1>1 DEF MessageAt
<1>5. QED
  BY <1>1, <1>3, <1>4

\* Where child_of is given exactly if a key is handed down, and no list is empty, the values
\* of a message are those of the columns.
LEMMA ValuesInColumns ==
    ASSUME SchemaInv, NEW m, MessageAt(m), NoEmptyList(m.level),
           childOf[m.level] = NoChildOf <=> Parents(m.level) = {}
    PROVE  Values(m) = InsertColumns(m.level)
<1>1. PICK l : l = m.level
  OBVIOUS
<1>2. l \in Level /\ l \in Nat
  BY <1>1, FromProtoRowsAssumption DEF MessageAt, Level
<1>3. FieldValues(l) = OtherColumns(l)
  <2> DEFINE S == {i \in ColumnFields(l) \ Keys(l) : desc[l][i] = "array" => present[l][i]}
  <2>1. ColumnFields(l) \subseteq 1 .. Len(desc[l])
    BY <1>2, FieldSets
  <2>2. ASSUME NEW i \in ColumnFields(l) \ Keys(l)
        PROVE  desc[l][i] = "array" => present[l][i]
    BY <2>1, <1>1 DEF NoEmptyList
  <2>3. QED
    <3>1. S = ColumnFields(l) \ Keys(l)
      BY <2>2
    <3>2. QED
      BY <3>1 DEF FieldValues, OtherColumns
<1>4. (IF m.parent = NoParent THEN <<>> ELSE <<ParentKey>>) = ChildOf(l)
  <2>1. Parents(l) = {} <=> m.parent = NoParent
    BY <1>1, ParentOrNone
  <2>2. QED
    BY <2>1, <1>1 DEF ChildOf
<1>5. Values(m) = Meta \o KeyColumn(l) \o ChildOf(l) \o OtherColumns(l)
  BY <1>1, <1>3, <1>4 DEF Values
<1>6. QED
  BY <1>1, <1>2, <1>5, InsertColumnsAre

\* The walk starts with nothing inserted.
LEMMA InsertStarts ==
    ASSUME Init
    PROVE  InsertInv
<1>1. SchemaInv
  BY SchemaStarts
<1>2. todo = <<Root>> /\ inserted = <<>> /\ phase = "walking"
  BY DEF Init
<1>3. 1 \in Level
  BY FromProtoRowsAssumption DEF Level
<1>4. <<>> \in Messages(1)
  <2>1. <<>> \in Seq(Nat) /\ Len(<<>>) = 1 - 1 /\ \A k \in 1 .. (1 - 1) : <<>>[k] \in Places(k)
    OBVIOUS
  <2>2. QED
    BY <1>1, <1>3, <2>1, MessagePlaces
<1>5. Root.level = 1 /\ Root.id = <<>> /\ Root.parent = NoParent
  BY DEF Root
<1>6. Parents(1) = {}
  BY DEF Parents
<1>7. MessageAt(Root)
  BY <1>3, <1>4, <1>5, <1>6 DEF MessageAt
<1>8. Root \in Message
  BY <1>3 DEF Root, Message, NoParent
<1> DEFINE T == <<Root>>
<1>9. DOMAIN T = {1} /\ T[1] = Root /\ T \in Seq(Message)
  BY <1>8
<1> HIDE DEF T
<1>10. TodoInv(T)
  BY <1>7, <1>9 DEF TodoInv
<1>11. DOMAIN <<>> = {} /\ <<>> \in Seq(Row)
  OBVIOUS
<1>12. RowsInv(<<>>)
  BY <1>11 DEF RowsInv
<1>13. \A id : Above(T[1].id, id)
  <2>1. SUFFICES ASSUME NEW id
                 PROVE  Above(<<>>, id)
    BY <1>5, <1>9
  <2>2. QED
    BY DEF Above
<1>14. WalkInv(T, <<>>)
  BY <1>5, <1>6, <1>9, <1>11, <1>13 DEF WalkInv
<1>15. QED
  BY <1>1, <1>2, <1>10, <1>12, <1>14 DEF InsertInv, T

\* C is the messages below m, one for each place.
AllBelow(C, m, p) ==
    /\ C \in Seq(Message)
    /\ \A n \in DOMAIN C : /\ C[n].level = m.level + 1
                           /\ C[n].parent = p
                           /\ \E x \in Places(m.level) : C[n].id = Append(m.id, x)
                           /\ C[n].id \in Messages(m.level + 1)
    /\ \A n, j \in DOMAIN C : C[n].id = C[j].id => n = j
    /\ \A x \in Places(m.level) : \E n \in DOMAIN C : C[n].id = Append(m.id, x)

\* The children of a message are the messages below it.
LEMMA ChildrenAre ==
    ASSUME SchemaInv, NEW m, m.level \in Level, m.id \in Messages(m.level), NEW p \in Seq(Nat)
    PROVE  AllBelow(Children(m, p), m, p)
<1>1. PICK l, i : l = m.level /\ i = m.id
  OBVIOUS
<1>2. l \in Level /\ i \in Messages(l) /\ i \in Seq(Nat)
  BY <1>1, MessagePlaces
<1>3. PICK s, c : s = Ascending(Places(l)) /\ c = Cardinality(Places(l))
  OBVIOUS
<1>4. /\ DOMAIN s = 1 .. c /\ c \in Nat /\ Places(l) \subseteq Nat
      /\ \A n \in DOMAIN s : s[n] \in Places(l)
      /\ \A x \in Places(l) : \E n \in DOMAIN s : s[n] = x
      /\ \A n, j \in DOMAIN s : s[n] = s[j] => n = j
  BY <1>2, <1>3, PlacesListed
<1>5. PICK C : C = Children(m, p)
  OBVIOUS
<1>6. C = [n \in 1 .. c |-> [level |-> l + 1, id |-> Append(i, s[n]), parent |-> p]]
  BY <1>1, <1>3, <1>4, <1>5 DEF Children
<1>7. ASSUME NEW n \in 1 .. c
      PROVE  /\ C[n] = [level |-> l + 1, id |-> Append(i, s[n]), parent |-> p]
             /\ s[n] \in Places(l) /\ s[n] \in Nat
             /\ l + 1 \in Level /\ Append(i, s[n]) \in Messages(l + 1)
             /\ Append(i, s[n]) \in Seq(Nat)
  <2>1. C[n] = [level |-> l + 1, id |-> Append(i, s[n]), parent |-> p]
    BY <1>6
  <2>2. s[n] \in Places(l) /\ s[n] \in Nat
    BY <1>4
  <2>3. l + 1 \in Level /\ Append(i, s[n]) \in Messages(l + 1)
    BY <2>2, <1>2, ChildPlaces
  <2>4. Append(i, s[n]) \in Seq(Nat)
    BY <2>2, <1>2
  <2>5. QED
    BY <2>1, <2>2, <2>3, <2>4
<1>8. DOMAIN C = 1 .. c
  BY <1>6
<1>9. C \in Seq(Message)
  <2>1. ASSUME NEW n \in 1 .. c
        PROVE  C[n] \in Message
    <3>1. /\ C[n] = [level |-> l + 1, id |-> Append(i, s[n]), parent |-> p]
          /\ l + 1 \in Level /\ Append(i, s[n]) \in Seq(Nat)
      BY <1>7
    <3>2. PICK u : u = Append(i, s[n])
      OBVIOUS
    <3>3. C[n] = [level |-> l + 1, id |-> u, parent |-> p] /\ l + 1 \in Level /\ u \in Seq(Nat)
      BY <3>1, <3>2
    <3>4. QED
      BY <3>3 DEF Message
  <2> HIDE <1>6
  <2>2. C \in [1 .. c -> Message]
    <3>1. C = [n \in 1 .. c |-> C[n]]
      BY <1>6
    <3>2. QED
      BY <2>1, <3>1
  <2>3. QED
    BY <2>2, <1>4
<1>10. ASSUME NEW n \in DOMAIN C
       PROVE  /\ C[n].level = l + 1
              /\ C[n].parent = p
              /\ C[n].id = Append(i, s[n])
              /\ \E x \in Places(l) : C[n].id = Append(i, x)
              /\ C[n].id \in Messages(l + 1)
  <2>1. /\ C[n] = [level |-> l + 1, id |-> Append(i, s[n]), parent |-> p]
        /\ s[n] \in Places(l) /\ Append(i, s[n]) \in Messages(l + 1)
    BY <1>7, <1>8
  <2>2. C[n].level = l + 1 /\ C[n].parent = p /\ C[n].id = Append(i, s[n])
    BY <2>1
  <2>3. QED
    BY <2>1, <2>2
<1>11. ASSUME NEW n \in DOMAIN C, NEW j \in DOMAIN C, C[n].id = C[j].id
       PROVE  n = j
  <2>1. Append(i, s[n]) = Append(i, s[j]) /\ s[n] \in Nat /\ s[j] \in Nat
    BY <1>10, <1>11, <1>7, <1>8
  <2>2. s[n] = s[j]
    BY <2>1, <1>2, AboveAppend
  <2>3. QED
    BY <2>2, <1>4, <1>8
<1>12. ASSUME NEW x \in Places(l)
       PROVE  \E n \in DOMAIN C : C[n].id = Append(i, x)
  <2>1. PICK n \in 1 .. c : s[n] = x
    BY <1>4
  <2>2. QED
    BY <2>1, <1>8, <1>10
<1>13. AllBelow(C, m, p)
  BY <1>1, <1>9, <1>10, <1>11, <1>12 DEF AllBelow
<1>14. QED
  BY <1>5, <1>13

\* What is left to be walked: what is below the head, then the rest.
LEMMA RestToWalk ==
    ASSUME NEW S, NEW T \in Seq(S), T # <<>>, NEW C \in Seq(S)
    PROVE  LET U == C \o Tail(T)
           IN  /\ U \in Seq(S)
               /\ \A n \in DOMAIN U :
                     \/ n \in DOMAIN C /\ U[n] = C[n]
                     \/ /\ n \notin DOMAIN C /\ n - Len(C) + 1 \in DOMAIN T \ {1}
                        /\ U[n] = T[n - Len(C) + 1]
               /\ \A n \in DOMAIN C : n \in DOMAIN U /\ U[n] = C[n]
               /\ \A n \in DOMAIN T \ {1} : \E j \in DOMAIN U : U[j] = T[n]
<1>1. PICK a, b, V : a = Len(C) /\ b = Len(T) /\ V = Tail(T)
  OBVIOUS
<1>2. a \in Nat /\ b \in Nat /\ b > 0 /\ DOMAIN C = 1 .. a /\ DOMAIN T = 1 .. b
  BY <1>1
<1>3. V \in Seq(S) /\ Len(V) = b - 1 /\ DOMAIN V = 1 .. (b - 1)
      /\ \A n \in 1 .. (b - 1) : V[n] = T[n + 1]
  BY <1>1
<1>4. PICK U : U = C \o V
  OBVIOUS
<1>5. /\ U \in Seq(S) /\ Len(U) = a + (b - 1) /\ DOMAIN U = 1 .. (a + (b - 1))
      /\ \A n \in 1 .. a : U[n] = C[n]
      /\ \A n \in (a + 1) .. (a + (b - 1)) : U[n] = V[n - a]
  BY <1>1, <1>2, <1>3, <1>4
<1>6. ASSUME NEW n \in DOMAIN U, n \notin DOMAIN C
      PROVE  n - a + 1 \in DOMAIN T \ {1} /\ U[n] = T[n - a + 1]
  <2>1. n \in (a + 1) .. (a + (b - 1)) /\ n - a \in 1 .. (b - 1)
    BY <1>2, <1>5, <1>6
  <2>2. U[n] = V[n - a] /\ V[n - a] = T[(n - a) + 1]
    BY <2>1, <1>3, <1>5
  <2>3. QED
    BY <2>1, <2>2, <1>2
<1>7. ASSUME NEW n \in DOMAIN C
      PROVE  n \in DOMAIN U /\ U[n] = C[n]
  BY <1>2, <1>5
<1>8. ASSUME NEW n \in DOMAIN T \ {1}
      PROVE  \E j \in DOMAIN U : U[j] = T[n]
  <2>1. n - 1 \in 1 .. (b - 1) /\ a + (n - 1) \in (a + 1) .. (a + (b - 1))
    BY <1>2
  <2>2. U[a + (n - 1)] = V[(a + (n - 1)) - a] /\ (a + (n - 1)) - a = n - 1
    BY <2>1, <1>2, <1>5
  <2>3. V[n - 1] = T[n]
    <3>1. (n - 1) + 1 = n
      BY <1>2
    <3>2. V[n - 1] = T[(n - 1) + 1]
      BY <2>1, <1>3
    <3>3. QED
      BY <3>1, <3>2
  <2>4. a + (n - 1) \in DOMAIN U
    BY <2>1, <1>2, <1>5
  <2>5. QED
    BY <2>2, <2>3, <2>4
<1>9. ASSUME NEW n \in DOMAIN U
      PROVE  \/ n \in DOMAIN C /\ U[n] = C[n]
             \/ n \notin DOMAIN C /\ n - a + 1 \in DOMAIN T \ {1} /\ U[n] = T[n - a + 1]
  BY <1>6, <1>7
<1>10. QED
  BY <1>1, <1>4, <1>5, <1>7, <1>8, <1>9

\* The row of a message.
RowOf(m) == [level |-> m.level, id |-> m.id, parent |-> m.parent, values |-> Values(m)]

\* The rows after a message has been walked.
LEMMA RowsAfter ==
    ASSUME SchemaInv, NEW R \in Seq(Row), NEW m \in Message,
           NEW Q, Q = IF HasTable(m.level) THEN Append(R, RowOf(m)) ELSE R
    PROVE  /\ Q \in Seq(Row)
           /\ \A j \in DOMAIN R : j \in DOMAIN Q /\ Q[j] = R[j] /\ j < Len(R) + 1 /\ j \in Nat
           /\ \A j \in DOMAIN Q : j \in Nat /\
                 \/ j \in DOMAIN R /\ Q[j] = R[j]
                 \/ HasTable(m.level) /\ j = Len(R) + 1 /\ Q[j] = RowOf(m)
           /\ HasTable(m.level) => Len(R) + 1 \in DOMAIN Q /\ Q[Len(R) + 1] = RowOf(m)
           /\ Len(R) \in Nat /\ DOMAIN R = 1 .. Len(R)
<1>1. RowOf(m) \in Row
  <2>1. m.level \in Level /\ m.id \in Seq(Nat) /\ m.parent \in Seq(Nat)
    BY DEF Message
  <2>2. PICK v : v = Values(m)
    OBVIOUS
  <2>3. v \in Seq(Int)
    BY <2>1, <2>2, ValuesType
  <2>4. QED
    BY <2>1, <2>2, <2>3 DEF RowOf, Row
<1>2. PICK r : r = RowOf(m)
  OBVIOUS
<1>3. r \in Row
  BY <1>1, <1>2
<1>4. CASE HasTable(m.level)
  <2>1. Q = Append(R, r)
    BY <1>2, <1>4
  <2>2. /\ Q \in Seq(Row) /\ Len(Q) = Len(R) + 1 /\ Q[Len(R) + 1] = r
        /\ \A j \in 1 .. Len(R) : Q[j] = R[j]
    BY <2>1, <1>3
  <2>3. DOMAIN Q = 1 .. (Len(R) + 1) /\ DOMAIN R = 1 .. Len(R) /\ Len(R) \in Nat
    BY <2>2
  <2>4. QED
    BY <2>2, <2>3, <1>2, <1>4
<1>5. CASE ~HasTable(m.level)
  <2>1. Q = R
    BY <1>5
  <2>2. DOMAIN R = 1 .. Len(R) /\ Len(R) \in Nat
    OBVIOUS
  <2>3. QED
    BY <2>1, <2>2, <1>5
<1>6. QED
  BY <1>4, <1>5

\* A step of the walk keeps the invariant.
LEMMA WalkKeeps ==
    ASSUME SchemaInv, NEW T, NEW R, TodoInv(T), RowsInv(R), WalkInv(T, R), T # <<>>,
           NEW m, m = Head(T),
           NEW p, p = IF HasKey(m.level) THEN m.id ELSE m.parent,
           NEW U, U = Children(m, p) \o Tail(T),
           NEW Q, Q = IF HasTable(m.level) THEN Append(R, RowOf(m)) ELSE R
    PROVE  TodoInv(U) /\ RowsInv(Q) /\ WalkInv(U, Q)
<1>1. T \in Seq(Message) /\ R \in Seq(Row)
  BY DEF TodoInv, RowsInv
<1>2. 1 \in DOMAIN T /\ m = T[1] /\ m \in Message
  BY <1>1
<1>3. MessageAt(m)
  BY <1>2 DEF TodoInv
<1>4. PICK l, i : l = m.level /\ i = m.id
  OBVIOUS
<1>5. l \in Level /\ l \in Nat /\ l >= 1 /\ i \in Messages(l) /\ i \in Seq(Nat) /\ m.parent \in Seq(Nat)
  BY <1>2, <1>3, <1>4, FromProtoRowsAssumption DEF MessageAt, Level, Message
<1>6. Len(i) = l - 1
  BY <1>5, MessagePlaces
<1>7. p \in Seq(Nat)
  BY <1>4, <1>5
<1>8. PICK C : C = Children(m, p)
  OBVIOUS
<1>9. /\ C \in Seq(Message)
      /\ \A n \in DOMAIN C : /\ C[n].level = l + 1
                             /\ C[n].parent = p
                             /\ \E x \in Places(l) : C[n].id = Append(i, x)
                             /\ C[n].id \in Messages(l + 1)
      /\ \A n, j \in DOMAIN C : C[n].id = C[j].id => n = j
      /\ \A x \in Places(l) : \E n \in DOMAIN C : C[n].id = Append(i, x)
  <2>1. m.level \in Level /\ m.id \in Messages(m.level)
    BY <1>3 DEF MessageAt
  <2>2. AllBelow(Children(m, p), m, p)
    BY <2>1, <1>7, ChildrenAre
  <2>3. AllBelow(C, m, p)
    BY <2>2, <1>8
  <2>4. QED
    BY <2>3, <1>4 DEF AllBelow
<1>10. U = C \o Tail(T)
  BY <1>8
<1> DEFINE Below(n) == n \in DOMAIN C /\ U[n] = C[n]
           Rest(n) == /\ n \notin DOMAIN C /\ n - Len(C) + 1 \in DOMAIN T \ {1}
                      /\ U[n] = T[n - Len(C) + 1]
<1>11. /\ U \in Seq(Message)
       /\ \A n \in DOMAIN U : Below(n) \/ Rest(n)
       /\ \A n \in DOMAIN C : n \in DOMAIN U /\ U[n] = C[n]
       /\ \A n \in DOMAIN T \ {1} : \E j \in DOMAIN U : U[j] = T[n]
  <2>1. LET V == C \o Tail(T)
        IN  /\ V \in Seq(Message)
            /\ \A n \in DOMAIN V :
                  \/ n \in DOMAIN C /\ V[n] = C[n]
                  \/ /\ n \notin DOMAIN C /\ n - Len(C) + 1 \in DOMAIN T \ {1}
                     /\ V[n] = T[n - Len(C) + 1]
            /\ \A n \in DOMAIN C : n \in DOMAIN V /\ V[n] = C[n]
            /\ \A n \in DOMAIN T \ {1} : \E j \in DOMAIN V : V[j] = T[n]
    BY <1>1, <1>9, RestToWalk
  <2>2. QED
    BY <2>1, <1>10
<1>12. ASSUME NEW n \in DOMAIN C
       PROVE  /\ C[n].level = l + 1 /\ C[n].level \in Level /\ C[n].parent = p
              /\ C[n].id \in Messages(l + 1)
              /\ \E x \in Nat : C[n].id = Append(i, x)
  <2>1. PICK x \in Places(l) : C[n].id = Append(i, x)
    BY <1>9
  <2>2. l + 1 \in Level
    BY <2>1, <1>5, ChildPlaces
  <2>3. x \in Nat
    BY <2>1, <1>5, PlacesListed
  <2>4. QED
    BY <2>1, <2>2, <2>3, <1>9
<1>13. ASSUME NEW n \in DOMAIN T \ {1}
       PROVE  /\ T[n].id \in Seq(Nat)
              /\ ~Above(T[n].id, i) /\ ~Above(i, T[n].id)
              /\ T[n].level \in Level
  <2>1. n \in DOMAIN T /\ n # 1 /\ T[n] \in Message
    BY <1>1
  <2>2. T[n].id \in Seq(Nat)
    BY <2>1 DEF Message
  <2>3. QED
    BY <2>1, <2>2, <1>2, <1>4 DEF TodoInv, MessageAt
<1>14. ASSUME NEW n \in DOMAIN C
       PROVE  Above(i, C[n].id) /\ ~Above(C[n].id, i) /\ C[n].id \in Seq(Nat)
  <2>1. PICK x \in Nat : C[n].id = Append(i, x)
    BY <1>12
  <2>2. PICK u : u = Append(i, x)
    OBVIOUS
  <2>3. u \in Seq(Nat) /\ Len(u) = Len(i) + 1 /\ \A k \in 1 .. Len(i) : u[k] = i[k]
    BY <2>2, <1>5
  <2>4. Len(i) \in Nat
    BY <1>5
  <2>5. Above(i, u) /\ ~Above(u, i)
    <3>1. Len(i) <= Len(u) /\ ~(Len(u) <= Len(i))
      BY <2>3, <2>4
    <3>2. \A k \in 1 .. Len(i) : i[k] = u[k]
      BY <2>3
    <3>3. QED
      BY <3>1, <3>2 DEF Above
  <2>6. QED
    BY <2>1, <2>2, <2>3, <2>5
\* Messages in and below the one walked, and those apart from it.
<1>15. ASSUME NEW n \in DOMAIN C, NEW t \in Seq(Nat), ~Above(t, i), ~Above(i, t)
       PROVE  ~Above(C[n].id, t) /\ ~Above(t, C[n].id)
  <2>1. PICK x \in Nat : C[n].id = Append(i, x)
    BY <1>12
  <2>2. QED
    BY <2>1, <1>5, <1>15, AboveAppend
<1>16. TodoInv(U)
  <2>1. ASSUME NEW n \in DOMAIN U
        PROVE  MessageAt(U[n])
    <3>1. CASE Below(n)
      <4>1. PICK c : c = C[n]
        OBVIOUS
      <4>2. /\ c.level = l + 1 /\ c.level \in Level /\ c.parent = p /\ c.id \in Messages(c.level)
            /\ \E x \in Nat : c.id = Append(i, x)
        BY <3>1, <4>1, <1>12
      <4>3. PICK x \in Nat : c.id = Append(i, x)
        BY <4>2
      <4>4. Parents(c.level) = IF HasKey(l) THEN {l} ELSE Parents(l)
        BY <4>2, <1>5, NextParents
      <4>5. ASSUME NEW a \in 1 .. l
            PROVE  SubSeq(c.id, 1, a - 1) = SubSeq(i, 1, a - 1)
        <5>1. a - 1 \in 0 .. Len(i) /\ a - 1 \in Nat
          BY <1>5, <1>6
        <5>2. PICK u : u = Append(i, x)
          OBVIOUS
        <5>3. u \in Seq(Nat) /\ Len(u) = Len(i) + 1 /\ \A k \in 1 .. Len(i) : u[k] = i[k]
          BY <5>2, <1>5
        <5>4. PICK k : k = a - 1
          OBVIOUS
        <5>5. k \in Nat /\ k <= Len(i) /\ Len(i) \in Nat
          BY <5>1, <5>4, <1>5
        <5>6. /\ SubSeq(u, 1, k) = [j \in 1 .. k |-> u[j]]
              /\ SubSeq(i, 1, k) = [j \in 1 .. k |-> i[j]]
          BY <5>3, <5>5, <1>5
        <5>7. SubSeq(u, 1, k) = SubSeq(i, 1, k)
          BY <5>3, <5>5, <5>6
        <5>8. QED
          BY <5>2, <5>4, <5>7, <4>3
      <4>6. CASE HasKey(l)
        <5>1. p = i
          BY <4>6, <1>4
        <5>2. SubSeq(i, 1, l - 1) = i
          BY <1>5, <1>6
        <5>3. SubSeq(c.id, 1, l - 1) = i
          <6>1. l \in 1 .. l
            BY <1>5
          <6>2. SubSeq(c.id, 1, l - 1) = SubSeq(i, 1, l - 1)
            BY <6>1, <4>5
          <6>3. QED
            BY <6>2, <5>2
        <5>4. QED
          BY <5>1, <5>3, <4>1, <4>2, <4>4, <4>6, <3>1 DEF MessageAt
      <4>7. CASE ~HasKey(l)
        <5>1. p = m.parent /\ Parents(c.level) = Parents(l)
          BY <4>4, <4>7, <1>4
        <5>2. ASSUME NEW a \in Parents(l)
              PROVE  p = SubSeq(c.id, 1, a - 1)
          <6>1. a \in 1 .. l
            BY <1>5, OneParent
          <6>2. p = SubSeq(i, 1, a - 1)
            BY <5>1, <1>3, <1>4 DEF MessageAt
          <6>3. QED
            BY <6>1, <6>2, <4>5
        <5>3. Parents(l) = {} => p = NoParent
          BY <5>1, <1>3, <1>4 DEF MessageAt
        <5>4. MessageAt(c)
          BY <5>1, <5>2, <5>3, <4>2 DEF MessageAt
        <5>5. QED
          BY <5>4, <4>1, <3>1
      <4>8. QED
        BY <4>6, <4>7
    <3>2. CASE Rest(n)
      BY <3>2 DEF TodoInv
    <3>3. QED
      BY <3>1, <3>2, <1>11
  <2>2. ASSUME NEW n \in DOMAIN U, NEW j \in DOMAIN U, Above(U[n].id, U[j].id)
        PROVE  n = j
    <3>1. CASE Below(n) /\ Below(j)
      <4>1. PICK x, y \in Nat : C[n].id = Append(i, x) /\ C[j].id = Append(i, y)
        BY <3>1, <1>12
      <4>2. PICK u, v : u = C[n].id /\ v = C[j].id
        OBVIOUS
      <4>3. u \in Seq(Nat) /\ v \in Seq(Nat) /\ Len(u) = Len(v)
        BY <4>1, <4>2, <1>5, AboveAppend
      <4>4. Above(u, v)
        BY <4>2, <2>2, <3>1
      <4>5. u = v
        BY <4>3, <4>4, AboveSelf
      <4>6. QED
        BY <4>2, <4>5, <3>1, <1>9
    <3>2. CASE Below(n) /\ Rest(j)
      BY <3>2, <2>2, <1>13, <1>15
    <3>3. CASE Rest(n) /\ Below(j)
      BY <3>3, <2>2, <1>13, <1>15
    <3>4. CASE Rest(n) /\ Rest(j)
      <4>1. n - Len(C) + 1 = j - Len(C) + 1
        <5>1. PICK x, y : x = n - Len(C) + 1 /\ y = j - Len(C) + 1
          OBVIOUS
        <5>2. x \in DOMAIN T /\ y \in DOMAIN T /\ U[n] = T[x] /\ U[j] = T[y]
          BY <3>4, <5>1
        <5>3. Above(T[x].id, T[y].id)
          BY <5>2, <2>2
        <5>4. QED
          BY <5>1, <5>2, <5>3 DEF TodoInv
      <4>2. n \in Nat /\ j \in Nat /\ Len(C) \in Nat
        <5>1. U \in Seq(Message) /\ C \in Seq(Message)
          BY <1>9, <1>11
        <5>2. Len(C) \in Nat
          BY <5>1
        <5>3. n \in Nat /\ j \in Nat
          BY <5>1
        <5>4. QED
          BY <5>2, <5>3
      <4>3. QED
        BY <4>1, <4>2
    <3>5. QED
      BY <3>1, <3>2, <3>3, <3>4, <1>11
  <2>3. QED
    BY <2>1, <2>2, <1>11 DEF TodoInv
<1>17. /\ Q \in Seq(Row)
       /\ \A j \in DOMAIN R : j \in DOMAIN Q /\ Q[j] = R[j] /\ j < Len(R) + 1 /\ j \in Nat
       /\ \A j \in DOMAIN Q : j \in Nat /\
             \/ j \in DOMAIN R /\ Q[j] = R[j]
             \/ HasTable(l) /\ j = Len(R) + 1 /\ Q[j] = RowOf(m)
       /\ HasTable(l) => Len(R) + 1 \in DOMAIN Q /\ Q[Len(R) + 1] = RowOf(m)
       /\ Len(R) \in Nat /\ DOMAIN R = 1 .. Len(R)
  BY <1>1, <1>2, <1>4, RowsAfter
<1>18. /\ RowOf(m).level = l /\ RowOf(m).id = i /\ RowOf(m).parent = m.parent
       /\ RowOf(m).values = Values(m) /\ MessageAt(RowOf(m))
  <2>1. /\ RowOf(m).level = l /\ RowOf(m).id = i /\ RowOf(m).parent = m.parent
        /\ RowOf(m).values = Values(m)
    BY <1>4 DEF RowOf
  <2>2. QED
    BY <2>1, <1>3, <1>4 DEF MessageAt
<1>19. \A j \in DOMAIN R : R[j].id \in Seq(Nat) /\ ~Above(i, R[j].id) /\ R[j].id # i
  <2>1. SUFFICES ASSUME NEW j \in DOMAIN R
                 PROVE  R[j].id \in Seq(Nat) /\ ~Above(i, R[j].id) /\ R[j].id # i
    OBVIOUS
  <2>2. R[j] \in Row
    BY <1>1
  <2>3. R[j].id \in Seq(Nat)
    BY <2>2 DEF Row
  <2>4. ~Above(i, R[j].id)
    BY <1>2, <1>4 DEF WalkInv
  <2>5. QED
    BY <2>3, <2>4, <1>5, AboveSelf
<1>20. ASSUME NEW a \in Parents(l)
       PROVE  \E j \in DOMAIN R : R[j].level = a /\ R[j].id = m.parent
  <2>1. a \in Parents(T[1].level)
    BY <1>2, <1>4
  <2>2. PICK j \in DOMAIN R : R[j].level = a /\ R[j].id = T[1].parent
    BY <2>1, <1>2 DEF WalkInv
  <2>3. QED
    BY <2>2, <1>2
<1>21. RowsInv(Q)
  <2>1. ASSUME NEW n \in DOMAIN Q
        PROVE  MessageAt(Q[n]) /\ HasTable(Q[n].level) /\ Q[n].values = Values(Q[n])
    <3>1. CASE n \in DOMAIN R /\ Q[n] = R[n]
      BY <3>1 DEF RowsInv
    <3>2. CASE HasTable(l) /\ Q[n] = RowOf(m)
      <4>1. Values(RowOf(m)) = Values(m)
        BY <1>18, <1>4 DEF Values
      <4>2. QED
        BY <4>1, <3>2, <1>18
    <3>3. QED
      BY <3>1, <3>2, <1>17
  <2>2. ASSUME NEW n \in DOMAIN Q, NEW j \in DOMAIN Q, Q[n].id = Q[j].id
        PROVE  n = j
    <3>1. CASE n \in DOMAIN R /\ Q[n] = R[n] /\ j \in DOMAIN R /\ Q[j] = R[j]
      BY <3>1, <2>2 DEF RowsInv
    <3>2. CASE n \in DOMAIN R /\ Q[n] = R[n] /\ j = Len(R) + 1 /\ Q[j] = RowOf(m)
      BY <3>2, <2>2, <1>18, <1>19
    <3>3. CASE j \in DOMAIN R /\ Q[j] = R[j] /\ n = Len(R) + 1 /\ Q[n] = RowOf(m)
      BY <3>3, <2>2, <1>18, <1>19
    <3>4. QED
      BY <3>1, <3>2, <3>3, <1>17
  <2>3. ASSUME NEW n \in DOMAIN Q, NEW a \in Parents(Q[n].level)
        PROVE  \E j \in 1 .. (n - 1) : Q[j].level = a /\ Q[j].id = Q[n].parent
    <3>1. CASE n \in DOMAIN R /\ Q[n] = R[n]
      <4>1. PICK j \in 1 .. (n - 1) : R[j].level = a /\ R[j].id = R[n].parent
        BY <2>3, <3>1 DEF RowsInv
      <4>2. j \in DOMAIN R
        BY <3>1, <1>17
      <4>3. QED
        BY <4>1, <4>2, <3>1, <1>17
    <3>2. CASE HasTable(l) /\ n = Len(R) + 1 /\ Q[n] = RowOf(m)
      <4>1. a \in Parents(l)
        BY <2>3, <3>2, <1>18
      <4>2. PICK j \in DOMAIN R : R[j].level = a /\ R[j].id = m.parent
        BY <4>1, <1>20
      <4>3. j \in 1 .. (n - 1)
        BY <3>2, <1>17
      <4>4. QED
        BY <4>2, <4>3, <3>2, <1>17, <1>18
    <3>3. QED
      BY <3>1, <3>2, <1>17
  <2>4. QED
    BY <2>1, <2>2, <2>3, <1>17 DEF RowsInv
<1>22. WalkInv(U, Q)
  <2>1. ASSUME NEW n \in DOMAIN U, NEW j \in DOMAIN Q, Above(U[n].id, Q[j].id)
        PROVE  FALSE
    <3>1. CASE Below(n) /\ j \in DOMAIN R /\ Q[j] = R[j]
      <4>1. PICK x \in Nat : C[n].id = Append(i, x)
        BY <3>1, <1>12
      <4>2. PICK t : t = R[j].id
        OBVIOUS
      <4>3. t \in Seq(Nat) /\ ~Above(i, t)
        BY <4>2, <3>1, <1>19
      <4>4. Above(Append(i, x), t)
        BY <4>1, <4>2, <2>1, <3>1
      <4>5. QED
        BY <4>3, <4>4, <1>5, AboveAppend
    <3>2. CASE Below(n) /\ Q[j] = RowOf(m)
      BY <3>2, <2>1, <1>14, <1>18
    <3>3. CASE Rest(n) /\ j \in DOMAIN R /\ Q[j] = R[j]
      BY <3>3, <2>1 DEF WalkInv
    <3>4. CASE Rest(n) /\ Q[j] = RowOf(m)
      BY <3>4, <2>1, <1>13, <1>18
    <3>5. QED
      BY <3>1, <3>2, <3>3, <3>4, <1>11, <1>17
  <2>2. ASSUME NEW n \in DOMAIN U, NEW a \in Parents(U[n].level)
        PROVE  \E j \in DOMAIN Q : Q[j].level = a /\ Q[j].id = U[n].parent
    <3>1. CASE Rest(n)
      <4>1. PICK k : k = n - Len(C) + 1
        OBVIOUS
      <4>2. k \in DOMAIN T /\ U[n] = T[k] /\ a \in Parents(T[k].level)
        BY <4>1, <3>1, <2>2
      <4>3. PICK j \in DOMAIN R : R[j].level = a /\ R[j].id = T[k].parent
        BY <4>2 DEF WalkInv
      <4>4. QED
        BY <4>2, <4>3, <1>17
    <3>2. CASE Below(n)
      <4>1. U[n].level = l + 1 /\ U[n].parent = p
        BY <3>2, <1>12
      <4>2. a \in IF HasKey(l) THEN {l} ELSE Parents(l)
        BY <2>2, <4>1, <1>5, NextParents
      <4>3. CASE HasKey(l)
        <5>1. HasTable(l)
          BY <4>3 DEF HasKey
        <5>2. Len(R) + 1 \in DOMAIN Q /\ Q[Len(R) + 1] = RowOf(m)
          BY <5>1, <1>17
        <5>3. a = l /\ p = i
          BY <4>2, <4>3, <1>4
        <5>4. QED
          BY <5>2, <5>3, <4>1, <1>18
      <4>4. CASE ~HasKey(l)
        <5>1. a \in Parents(l) /\ p = m.parent
          BY <4>2, <4>4, <1>4
        <5>2. PICK j \in DOMAIN R : R[j].level = a /\ R[j].id = m.parent
          BY <5>1, <1>20
        <5>3. QED
          BY <5>1, <5>2, <4>1, <1>17
      <4>5. QED
        BY <4>3, <4>4
    <3>3. QED
      BY <3>1, <3>2, <1>11
  <2>3. ASSUME NEW k \in Level, HasTable(k), NEW id \in Messages(k)
        PROVE  \/ \E j \in DOMAIN Q : Q[j].level = k /\ Q[j].id = id
               \/ \E n \in DOMAIN U : Above(U[n].id, id)
    <3>1. \/ \E j \in DOMAIN R : R[j].level = k /\ R[j].id = id
          \/ \E n \in DOMAIN T : Above(T[n].id, id)
      BY <2>3 DEF WalkInv
    <3>2. ASSUME NEW j \in DOMAIN R, R[j].level = k /\ R[j].id = id
          PROVE  \E n \in DOMAIN Q : Q[n].level = k /\ Q[n].id = id
      BY <3>2, <1>17
    <3>3. ASSUME NEW n \in DOMAIN T \ {1}, Above(T[n].id, id)
          PROVE  \E j \in DOMAIN U : Above(U[j].id, id)
      <4>1. PICK j \in DOMAIN U : U[j] = T[n]
        BY <1>11
      <4>2. QED
        BY <4>1, <3>3
    <3>4. ASSUME Above(i, id)
          PROVE  \/ \E j \in DOMAIN Q : Q[j].level = k /\ Q[j].id = id
                 \/ \E n \in DOMAIN U : Above(U[n].id, id)
      <4>1. id \in Seq(Nat) /\ Len(id) = k - 1 /\ (\A w \in 1 .. (k - 1) : id[w] \in Places(w))
            /\ k \in Nat
        BY MessagePlaces, FromProtoRowsAssumption DEF Level
      <4>2. l - 1 <= k - 1 /\ \A w \in 1 .. (l - 1) : i[w] = id[w]
        BY <3>4, <4>1, <1>6 DEF Above
      <4>3. CASE k = l
        <5>1. id = i
          BY <3>4, <4>1, <4>3, <1>5, <1>6, AboveSelf
        <5>2. QED
          BY <5>1, <4>3, <2>3, <1>17, <1>18
      <4>4. CASE k # l
        <5>1. l < k /\ l \in 1 .. (k - 1)
          BY <4>1, <4>2, <4>4, <1>5
        <5>2. PICK n \in DOMAIN C : C[n].id = Append(i, id[l])
          BY <5>1, <4>1, <1>9
        <5>3. PICK x, u : x = id[l] /\ u = Append(i, x)
          OBVIOUS
        <5>4. x \in Nat
          BY <4>1, <5>1, <5>3
        <5>5. u \in Seq(Nat) /\ Len(u) = l /\ u[l] = x /\ \A w \in 1 .. (l - 1) : u[w] = i[w]
          BY <5>3, <5>4, <1>5, <1>6
        <5>6. \A w \in 1 .. l : w = l \/ w \in 1 .. (l - 1)
          BY <1>5
        <5>7. Above(u, id)
          BY <5>1, <5>3, <5>5, <5>6, <4>1, <4>2 DEF Above
        <5>8. n \in DOMAIN U /\ U[n].id = u
          BY <5>2, <5>3, <1>11
        <5>9. QED
          BY <5>7, <5>8
      <4>5. QED
        BY <4>3, <4>4
    <3>5. ASSUME NEW n \in DOMAIN T, Above(T[n].id, id)
          PROVE  \/ \E j \in DOMAIN Q : Q[j].level = k /\ Q[j].id = id
                 \/ \E j \in DOMAIN U : Above(U[j].id, id)
      <4>1. CASE n = 1
        <5>1. T[n].id = i
          BY <4>1, <1>2, <1>4
        <5>2. Above(i, id)
          BY <5>1, <3>5
        <5>3. QED
          BY <5>2, <3>4
      <4>2. CASE n # 1
        BY <4>2, <3>3, <3>5
      <4>3. QED
        BY <4>1, <4>2
    <3>6. QED
      BY <3>1, <3>2, <3>5
  <2>4. \A k \in Level : HasTable(k) =>
          \A id \in Messages(k) : \/ \E j \in DOMAIN Q : Q[j].level = k /\ Q[j].id = id
                                  \/ \E n \in DOMAIN U : Above(U[n].id, id)
    BY <2>3
  <2>5. \A n \in DOMAIN U : \A a \in Parents(U[n].level) :
          \E j \in DOMAIN Q : Q[j].level = a /\ Q[j].id = U[n].parent
    BY <2>2
  <2>6. \A n \in DOMAIN U, j \in DOMAIN Q : ~Above(U[n].id, Q[j].id)
    BY <2>1
  <2>7. QED
    BY <2>4, <2>5, <2>6 DEF WalkInv
<1>23. QED
  BY <1>16, <1>21, <1>22

\* What holds of messages and rows holds after a step that leaves the schema alone.
LEMMA StepKeeps ==
    ASSUME SchemaInv, UNCHANGED schemaVars,
           NEW T, NEW R, TodoInv(T), RowsInv(R), WalkInv(T, R)
    PROVE  SchemaInv' /\ (TodoInv(T))' /\ (RowsInv(R))' /\ (WalkInv(T, R))'
<1>1. /\ \A l : (HasTable(l))' = HasTable(l)
      /\ \A l : (Parents(l))' = Parents(l)
      /\ \A l : (Messages(l))' = Messages(l)
      /\ \A m : m.level \in Level => (Values(m))' = Values(m)
  BY SameSchema
<1>2. SchemaInv'
  <2>1. driver' = driver /\ desc' = desc
    BY DEF schemaVars
  <2>2. \A l : (Keys(l))' = Keys(l)
    BY <2>1 DEF Keys
  <2>3. \A l : (MultipleKeys(l))' = MultipleKeys(l)
    BY <2>2 DEF MultipleKeys
  <2>4. useProtoOptions' = useProtoOptions
    BY DEF schemaVars
  <2>5. QED
    BY <2>1, <2>2, <2>3, <2>4 DEF SchemaInv
<1>3. ASSUME NEW m, MessageAt(m)
      PROVE  (MessageAt(m))'
  BY <1>1, <1>3 DEF MessageAt
<1>4. (TodoInv(T))'
  BY <1>3 DEF TodoInv
<1>5. (RowsInv(R))'
  <2>1. R \in Seq(Row)
    BY DEF RowsInv
  <2>2. \A n \in DOMAIN R : R[n].level \in Level
    BY DEF RowsInv, MessageAt
  <2>3. ASSUME NEW n \in DOMAIN R
        PROVE  (MessageAt(R[n]))' /\ (HasTable(R[n].level))' /\ R[n].values = (Values(R[n]))'
    <3>1. PICK r, v : r = R[n] /\ v = Values(r)
      OBVIOUS
    <3>2. MessageAt(r) /\ HasTable(r.level) /\ r.values = v /\ r.level \in Level
      BY <3>1, <2>2 DEF RowsInv
    <3>3. (MessageAt(r))' /\ (HasTable(r.level))' /\ (Values(r))' = v
      BY <3>1, <3>2, <1>1, <1>3
    <3>4. QED
      BY <3>1, <3>2, <3>3
  <2>4. QED
    BY <2>1, <2>3, <1>1 DEF RowsInv
<1>6. (WalkInv(T, R))'
  BY <1>1 DEF WalkInv
<1>7. QED
  BY <1>2, <1>4, <1>5, <1>6

\* Every step keeps the invariant.
LEMMA InsertStep ==
    ASSUME InsertInv, [Next]_vars
    PROVE  InsertInv'
<1>1. UNCHANGED schemaVars
  BY DEF Next, Walk, Fail, Done, Ended, vars, schemaVars
<1>2. SchemaInv /\ TodoInv(todo) /\ RowsInv(inserted) /\ WalkInv(todo, inserted)
  BY DEF InsertInv
<1>3. SchemaInv'
  BY <1>1, <1>2, StepKeeps
<1>4. PICK T, R : T = todo' /\ R = inserted'
  OBVIOUS
<1>5. CASE Walk
  <2>1. PICK m : m = Head(todo)
    OBVIOUS
  <2>2. PICK p : p = IF HasKey(m.level) THEN m.id ELSE m.parent
    OBVIOUS
  <2>3. /\ phase = "walking" /\ todo # <<>> /\ phase' = phase
        /\ R = IF HasTable(m.level) THEN Append(inserted, RowOf(m)) ELSE inserted
        /\ T = Children(m, p) \o Tail(todo)
    BY <1>4, <1>5, <2>1, <2>2 DEF Walk, RowOf
  <2>4. TodoInv(T) /\ RowsInv(R) /\ WalkInv(T, R)
    <3>1. PICK t, r : t = todo /\ r = inserted
      OBVIOUS
    <3>2. /\ SchemaInv /\ TodoInv(t) /\ RowsInv(r) /\ WalkInv(t, r) /\ t # <<>>
          /\ m = Head(t)
          /\ p = IF HasKey(m.level) THEN m.id ELSE m.parent
          /\ T = Children(m, p) \o Tail(t)
          /\ R = IF HasTable(m.level) THEN Append(r, RowOf(m)) ELSE r
      BY <3>1, <1>2, <2>1, <2>2, <2>3
    <3>3. QED
      BY <3>2, WalkKeeps, ZenonT(60)
  <2>5. (TodoInv(T))' /\ (RowsInv(R))' /\ (WalkInv(T, R))'
    BY <1>1, <1>2, <2>4, StepKeeps
  <2>6. QED
    BY <2>3, <2>5, <1>3, <1>4 DEF InsertInv
<1>6. CASE UNCHANGED <<todo, inserted>>
  <2>1. T = todo /\ R = inserted
    BY <1>4, <1>6
  <2>2. (TodoInv(T))' /\ (RowsInv(R))' /\ (WalkInv(T, R))'
    BY <1>1, <1>2, <2>1, StepKeeps
  <2>3. CASE Fail
    BY <2>2, <2>3, <1>3, <1>4 DEF InsertInv, Fail
  <2>4. CASE Done
    BY <2>2, <2>4, <1>3, <1>4 DEF InsertInv, Done
  <2>5. CASE UNCHANGED vars
    BY <2>2, <2>5, <1>3, <1>4 DEF InsertInv, vars
  <2>6. CASE Walk
    BY <2>6, <1>5
  <2>7. QED
    BY <2>3, <2>4, <2>5, <2>6 DEF Next, Ended
<1>7. QED
  BY <1>5, <1>6 DEF Next, Fail, Done, Ended, vars

\* What is in a sequence.
In(x, s) == \E n \in DOMAIN s : s[n] = x

\* What is in two sequences that are joined.
LEMMA InJoined ==
    ASSUME NEW s \in Seq(Int), NEW t \in Seq(Int)
    PROVE  s \o t \in Seq(Int) /\ \A x : In(x, s \o t) <=> In(x, s) \/ In(x, t)
<1>1. PICK a, b, u : a = Len(s) /\ b = Len(t) /\ u = s \o t
  OBVIOUS
<1>2. a \in Nat /\ b \in Nat /\ u \in Seq(Int) /\ Len(u) = a + b
  BY <1>1, ConcatProperties
<1>3. DOMAIN u = 1 .. (a + b) /\ DOMAIN s = 1 .. a /\ DOMAIN t = 1 .. b
  BY <1>1, <1>2
<1>4. \A i \in 1 .. (a + b) : u[i] = IF i <= a THEN s[i] ELSE t[i - a]
  BY <1>1, ConcatProperties
<1>5. ASSUME NEW x, In(x, s)
      PROVE  In(x, u)
  <2>1. PICK n \in 1 .. a : s[n] = x
    BY <1>3, <1>5 DEF In
  <2>2. n \in 1 .. (a + b) /\ u[n] = x
    BY <2>1, <1>2, <1>4
  <2>3. QED
    BY <2>2, <1>3 DEF In
<1>6. ASSUME NEW x, In(x, t)
      PROVE  In(x, u)
  <2>1. PICK n \in 1 .. b : t[n] = x
    BY <1>3, <1>6 DEF In
  <2>2. a + n \in 1 .. (a + b) /\ ~ (a + n <= a) /\ (a + n) - a = n
    BY <1>2
  <2>3. u[a + n] = x
    BY <2>1, <2>2, <1>4
  <2>4. QED
    BY <2>2, <2>3, <1>3 DEF In
<1>7. ASSUME NEW x, In(x, u)
      PROVE  In(x, s) \/ In(x, t)
  <2>1. PICK n \in 1 .. (a + b) : u[n] = x
    BY <1>3, <1>7 DEF In
  <2>2. CASE n <= a
    <3>1. n \in 1 .. a /\ s[n] = x
      BY <2>1, <2>2, <1>2, <1>4
    <3>2. QED
      BY <3>1, <1>3 DEF In
  <2>3. CASE ~ (n <= a)
    <3>1. n - a \in 1 .. b /\ t[n - a] = x
      BY <2>1, <2>3, <1>2, <1>4
    <3>2. QED
      BY <3>1, <1>3 DEF In
  <2>4. QED
    BY <2>2, <2>3
<1>8. QED
  BY <1>1, <1>2, <1>5, <1>6, <1>7

\* What is in four sequences that are joined.
LEMMA InFourJoined ==
    ASSUME NEW s \in Seq(Int), NEW t \in Seq(Int), NEW u \in Seq(Int), NEW v \in Seq(Int)
    PROVE  /\ s \o t \o u \o v \in Seq(Int)
           /\ \A x : In(x, s \o t \o u \o v) <=> In(x, s) \/ In(x, t) \/ In(x, u) \/ In(x, v)
<1>1. PICK a : a = s \o t
  OBVIOUS
<1>2. a \in Seq(Int) /\ \A x : In(x, a) <=> In(x, s) \/ In(x, t)
  BY <1>1, InJoined
<1>3. PICK b : b = a \o u
  OBVIOUS
<1>4. b \in Seq(Int) /\ \A x : In(x, b) <=> In(x, a) \/ In(x, u)
  BY <1>2, <1>3, InJoined
<1>5. b \o v \in Seq(Int) /\ \A x : In(x, b \o v) <=> In(x, b) \/ In(x, v)
  BY <1>4, InJoined
<1>6. s \o t \o u \o v = b \o v
  BY <1>1, <1>3
<1>7. QED
  BY <1>2, <1>4, <1>5, <1>6

\* The columns in which the others are followed by those of the fields are a sequence.
LEMMA ColumnsSequence ==
    ASSUME SchemaInv, NEW l \in Level
    PROVE  /\ ChildOf(l) \in Seq(Int)
           /\ OtherColumns(l) \in Seq(Int)
           /\ Columns(l) \in Seq(Int)
           /\ \A x \in ColumnFields(l) \ Keys(l) :
                 \E n \in DOMAIN OtherColumns(l) : OtherColumns(l)[n] = x
<1>1. ChildOf(l) \in Seq(Int)
  BY DEF ChildOf, ParentKey
<1>2. ASSUME NEW S \in SUBSET (1 .. Len(desc[l]))
      PROVE  /\ Ascending(S) \in Seq(Int)
             /\ \A x \in S : \E n \in DOMAIN Ascending(S) : Ascending(S)[n] = x
  <2>1. Len(desc[l]) \in Nat
    BY FieldSets
  <2>2. PICK s : s = Ascending(S)
    OBVIOUS
  <2>3. s \in Seq(S) /\ S \subseteq Int /\ \A x \in S : \E n \in DOMAIN s : s[n] = x
    <3>1. PICK b \in Nat : S \in SUBSET (1 .. b)
      BY <2>1
    <3>2. S \subseteq Int
      BY <3>1, UpTo
    <3>3. /\ Ascending(S) \in Seq(S)
          /\ \A x \in S : \E n \in DOMAIN Ascending(S) : Ascending(S)[n] = x
      BY <3>1, AscendingValues
    <3>4. QED
      BY <2>2, <3>2, <3>3
  <2>4. s \in Seq(Int)
    BY <2>3, SeqMonotonic
  <2>5. QED
    BY <2>2, <2>3, <2>4
<1>3. /\ OtherColumns(l) \in Seq(Int)
      /\ \A x \in ColumnFields(l) \ Keys(l) :
            \E n \in DOMAIN OtherColumns(l) : OtherColumns(l)[n] = x
  BY <1>2, FieldSets DEF OtherColumns
<1>4. Columns(l) \in Seq(Int)
  BY <1>2, FieldSets DEF Columns
<1>5. QED
  BY <1>1, <1>3, <1>4

\* What is in the columns of a table: the system columns and the parent have negative
\* numbers, a field is there if it is a column.
LEMMA InColumns ==
    ASSUME SchemaInv, NEW l \in Level
    PROVE  /\ Meta \in Seq(Int) /\ ~In(ParentKey, Meta)
           /\ InsertColumns(l) \in Seq(Int)
           /\ In(ParentKey, InsertColumns(l)) <=> childOf[l] # NoChildOf
           /\ \A i \in ColumnFields(l) \ Keys(l) : i > 0 /\ In(i, InsertColumns(l))
           /\ \A i \in Nat : ~In(i, Meta)
<1>1. /\ Meta \in Seq(Int) /\ ~In(ParentKey, Meta)
      /\ \A i \in Nat : ~In(i, Meta)
  BY DEF Meta, In, ParentKey, BlockNumber, Timestamp, Version, Deleted
<1>2. PICK M, K, P, O : M = Meta /\ K = KeyColumn(l) /\ P = ChildOf(l) /\ O = OtherColumns(l)
  OBVIOUS
<1>3. M \in Seq(Int) /\ K \in Seq(Int) /\ P \in Seq(Int) /\ O \in Seq(Int)
  BY <1>1, <1>2, KeyColumnIs, ColumnsSequence
<1>4. PICK I : I = InsertColumns(l)
  OBVIOUS
<1>5. I = M \o K \o P \o O
  BY <1>2, <1>4, InsertColumnsAre
<1>6. I \in Seq(Int) /\ \A x : In(x, I) <=> In(x, M) \/ In(x, K) \/ In(x, P) \/ In(x, O)
  BY <1>3, <1>5, InFourJoined
<1>7. Len(desc[l]) \in Nat /\ Keys(l) \in SUBSET (1 .. Len(desc[l]))
      /\ ColumnFields(l) \ Keys(l) \in SUBSET (1 .. Len(desc[l]))
  BY FieldSets
<1>8. \A x : In(x, K) => x \in 1 .. Len(desc[l])
  <2>1. CASE ~HasKey(l)
    <3>1. K = <<>>
      BY <2>1, <1>2, KeyColumnIs
    <3>2. QED
      BY <3>1 DEF In
  <2>2. CASE HasKey(l)
    <3>1. PICK k \in Keys(l) : K = <<k>>
      BY <2>2, <1>2, KeyColumnIs
    <3>2. QED
      BY <3>1, <1>7 DEF In
  <2>3. QED
    BY <2>1, <2>2
<1>9. \A x : In(x, O) <=> x \in ColumnFields(l) \ Keys(l)
  <2>1. PICK S : S = ColumnFields(l) \ Keys(l)
    OBVIOUS
  <2>2. S \in SUBSET (1 .. Len(desc[l])) /\ O = Ascending(S)
    BY <2>1, <1>2, <1>7 DEF OtherColumns
  <2>3. /\ \A i \in DOMAIN O : O[i] \in S
        /\ \A x \in S : \E i \in DOMAIN O : O[i] = x
    BY <2>2, <1>7, AscendingValues
  <2>4. QED
    BY <2>1, <2>3 DEF In
<1>10. P = IF childOf[l] = NoChildOf THEN <<>> ELSE <<ParentKey>>
  BY <1>2 DEF ChildOf
<1>11. In(ParentKey, P) <=> childOf[l] # NoChildOf
  BY <1>10 DEF In
<1>12. ParentKey = -5 /\ ~ (ParentKey \in 1 .. Len(desc[l])) /\ ~ (ParentKey \in ColumnFields(l) \ Keys(l))
  BY <1>7 DEF ParentKey
<1>13. In(ParentKey, I) <=> childOf[l] # NoChildOf
  BY <1>1, <1>2, <1>6, <1>8, <1>9, <1>11, <1>12
<1>14. \A i \in ColumnFields(l) \ Keys(l) : i > 0 /\ In(i, I)
  BY <1>6, <1>7, <1>9
<1>15. QED
  BY <1>1, <1>4, <1>6, <1>13, <1>14

\* What is in the values of a message: a key of a parent if there is one, the fields that are
\* set.
LEMMA InValues ==
    ASSUME SchemaInv, NEW m, m.level \in Level
    PROVE  /\ In(ParentKey, Values(m)) <=> m.parent # NoParent
           /\ \A i \in ColumnFields(m.level) \ Keys(m.level) :
                 In(i, Values(m)) => (desc[m.level][i] = "array" => present[m.level][i])
<1>1. PICK l : l = m.level
  OBVIOUS
<1> DEFINE S == {i \in ColumnFields(l) \ Keys(l) : desc[l][i] = "array" => present[l][i]}
<1>2. PICK M, K, P, F : /\ M = Meta /\ K = KeyColumn(l)
                        /\ P = (IF m.parent = NoParent THEN <<>> ELSE <<ParentKey>>)
                        /\ F = FieldValues(l)
  OBVIOUS
<1>3. Len(desc[l]) \in Nat /\ Keys(l) \in SUBSET (1 .. Len(desc[l]))
      /\ S \in SUBSET (1 .. Len(desc[l]))
  BY <1>1, FieldSets
<1>4. F = Ascending(S)
  BY <1>2 DEF FieldValues
<1>5. /\ F \in Seq(Int)
      /\ \A x : In(x, F) => x \in S
  <2> HIDE DEF S
  <2>1. F \in Seq(S) /\ S \subseteq Int /\ \A i \in DOMAIN F : F[i] \in S
    BY <1>3, <1>4, AscendingValues, UpTo
  <2>2. F \in Seq(Int)
    BY <2>1, SeqMonotonic
  <2>3. QED
    BY <2>1, <2>2 DEF In
<1>6. M \in Seq(Int) /\ K \in Seq(Int) /\ P \in Seq(Int)
  <2>1. P \in Seq(Int)
    BY <1>2 DEF ParentKey
  <2>2. QED
    BY <2>1, <1>1, <1>2, InColumns, KeyColumnIs
<1>7. PICK V : V = Values(m)
  OBVIOUS
<1>8. V = M \o K \o P \o F
  BY <1>1, <1>2, <1>7 DEF Values
<1>9. \A x : In(x, V) <=> In(x, M) \/ In(x, K) \/ In(x, P) \/ In(x, F)
  BY <1>5, <1>6, <1>8, InFourJoined
<1>10. \A x : In(x, K) => x \in Keys(l)
  <2>1. CASE ~HasKey(l)
    <3>1. K = <<>>
      BY <2>1, <1>1, <1>2, KeyColumnIs
    <3>2. QED
      BY <3>1 DEF In
  <2>2. CASE HasKey(l)
    <3>1. PICK k \in Keys(l) : K = <<k>>
      BY <2>2, <1>1, <1>2, KeyColumnIs
    <3>2. QED
      BY <3>1 DEF In
  <2>3. QED
    BY <2>1, <2>2
<1>11. ParentKey = -5 /\ ~ (ParentKey \in Keys(l)) /\ ~ (ParentKey \in S)
  BY <1>3 DEF ParentKey
<1>12. /\ \A x : In(x, P) => x = ParentKey
       /\ In(ParentKey, P) <=> m.parent # NoParent
  BY <1>2 DEF In
<1>13. ~In(ParentKey, M) /\ \A i \in Nat : ~In(i, M)
  BY <1>1, <1>2, InColumns
<1>14. In(ParentKey, V) <=> m.parent # NoParent
  BY <1>5, <1>9, <1>10, <1>11, <1>12, <1>13
<1>15. ASSUME NEW i \in ColumnFields(l) \ Keys(l), In(i, V)
       PROVE  i \in S
  <2>1. i \in Nat /\ i # ParentKey
    BY <1>1, <1>11, FieldSets, UpTo
  <2>2. QED
    BY <2>1, <1>5, <1>9, <1>10, <1>12, <1>13, <1>15
<1>16. QED
  BY <1>1, <1>7, <1>14, <1>15

\* A row has its values in the right columns exactly if child_of follows the nesting and no
\* list is empty.
LEMMA InvValuesAligned == InsertInv => ValuesAligned
<1>1. SUFFICES ASSUME InsertInv, NEW n \in DOMAIN inserted
               PROVE  Aligned(inserted[n]) <=> /\ NoEmptyList(inserted[n].level)
                                               /\ ChildOfNearest(inserted[n].level)
  BY DEF ValuesAligned
<1>2. PICK r, l : r = inserted[n] /\ l = r.level
  OBVIOUS
<1>3. MessageAt(r) /\ r.values = Values(r) /\ SchemaInv /\ l \in Level
  BY <1>1, <1>2 DEF InsertInv, RowsInv, MessageAt
<1>4. /\ Parents(l) = {} <=> r.parent = NoParent
      /\ \A a \in Parents(l) : /\ Parents(l) = {a} /\ a \in Level
                               /\ r.parent \in Seq(Nat) /\ Len(r.parent) = a - 1
  BY <1>2, <1>3, ParentOrNone
<1>5. ASSUME NEW a \in Parents(l)
      PROVE  (CHOOSE b \in Parents(l) : TRUE) = a /\ Len(r.parent) + 1 = a
  <2>1. Parents(l) = {a} /\ a \in Level /\ Len(r.parent) = a - 1
    BY <1>4
  <2>2. a \in Int
    BY <2>1, FromProtoRowsAssumption DEF Level
  <2>3. QED
    BY <2>1, <2>2
<1>6. ASSUME NEW a \in Level
      PROVE  KeyOf(a) # NoChildOf
  <2>1. KeyColumn(a) \in Seq(Int) /\ <<a>> \in Seq(Int)
    BY <1>3, KeyColumnIs, FromProtoRowsAssumption DEF Level
  <2>2. Len(<<a>> \o KeyColumn(a)) = 1 + Len(KeyColumn(a)) /\ Len(KeyColumn(a)) \in Nat
    BY <2>1
  <2>3. Len(<<>>) = 0
    OBVIOUS
  <2>4. QED
    BY <2>2, <2>3 DEF KeyOf, NoChildOf
<1>7. ASSUME NoEmptyList(l), ChildOfNearest(l)
      PROVE  Aligned(r)
  <2>1. CASE Parents(l) = {}
    <3>1. childOf[l] = NoChildOf /\ r.parent = NoParent
      BY <2>1, <1>4, <1>7 DEF ChildOfNearest
    <3>2. Values(r) = InsertColumns(r.level)
      BY <3>1, <2>1, <1>2, <1>3, <1>7, ValuesInColumns
    <3>3. QED
      BY <3>1, <3>2, <1>3 DEF Aligned
  <2>2. CASE Parents(l) # {}
    <3>1. PICK a : a \in Parents(l)
      BY <2>2
    <3>2. childOf[l] = KeyOf(a)
      BY <3>1, <2>2, <1>5, <1>7 DEF ChildOfNearest
    <3>3. childOf[l] # NoChildOf
      BY <3>1, <3>2, <1>4, <1>6
    <3>4. Values(r) = InsertColumns(r.level)
      BY <3>3, <2>2, <1>2, <1>3, <1>7, ValuesInColumns
    <3>5. KeyOf(Len(r.parent) + 1) = KeyOf(a)
      BY <3>1, <1>5
    <3>6. QED
      BY <3>2, <3>4, <3>5, <1>2, <1>3 DEF Aligned
  <2>3. QED
    BY <2>1, <2>2
<1>8. ASSUME Aligned(r)
      PROVE  NoEmptyList(l) /\ ChildOfNearest(l)
  <2>1. Values(r) = InsertColumns(l)
    BY <1>2, <1>3, <1>8 DEF Aligned
  <2>2. NoEmptyList(l)
    <3>1. SUFFICES ASSUME NEW i \in 1 .. Len(desc[l]), desc[l][i] = "array"
                   PROVE  present[l][i]
      BY DEF NoEmptyList
    <3>2. i \in ColumnFields(l) \ Keys(l)
      BY <3>1 DEF ColumnFields, Keys, KeyKinds, ScalarKinds
    <3>3. In(i, InsertColumns(l))
      BY <3>2, <1>3, InColumns
    <3>4. In(i, Values(r))
      BY <3>3, <2>1
    <3>5. QED
      BY <3>1, <3>2, <3>4, <1>2, <1>3, InValues
  <2>3. childOf[l] # NoChildOf <=> r.parent # NoParent
    <3>1. In(ParentKey, Values(r)) <=> r.parent # NoParent
      BY <1>2, <1>3, InValues
    <3>2. In(ParentKey, InsertColumns(l)) <=> childOf[l] # NoChildOf
      BY <1>3, InColumns
    <3>3. QED
      BY <3>1, <3>2, <2>1
  <2>4. CASE Parents(l) = {}
    <3>1. childOf[l] = NoChildOf
      BY <2>3, <2>4, <1>4
    <3>2. QED
      BY <3>1, <2>2, <2>4 DEF ChildOfNearest
  <2>5. CASE Parents(l) # {}
    <3>1. PICK a : a \in Parents(l)
      BY <2>5
    <3>2. r.parent # NoParent
      BY <2>5, <1>4
    <3>3. childOf[l] = KeyOf(Len(r.parent) + 1)
      BY <3>2, <1>2, <1>8 DEF Aligned
    <3>4. childOf[l] = KeyOf(CHOOSE b \in Parents(l) : TRUE)
      BY <3>1, <3>3, <1>5
    <3>5. QED
      BY <3>4, <2>2, <2>5 DEF ChildOfNearest
  <2>6. QED
    BY <2>4, <2>5
<1>9. QED
  BY <1>2, <1>7, <1>8

\* Every message with a table has its row when the walk is done, parents first.
LEMMA InvRowsComplete == InsertInv => RowsComplete
<1>1. SUFFICES ASSUME InsertInv
               PROVE  ParentsFirst /\ Complete
  BY DEF RowsComplete
<1>2. SchemaInv /\ RowsInv(inserted) /\ WalkInv(todo, inserted)
  BY <1>1 DEF InsertInv
<1>3. ParentsFirst
  <2>1. SUFFICES ASSUME NEW n \in DOMAIN inserted
                 PROVE  LET l == inserted[n].level
                        IN  /\ Parents(l) = {} <=> inserted[n].parent = NoParent
                            /\ \A a \in Level : HasKey(a) /\ childOf[l] = KeyOf(a) =>
                                  (ForeignKeyFound(n) <=> Parents(l) = {a})
    BY DEF ParentsFirst
  <2>2. PICK r, l : r = inserted[n] /\ l = r.level
    OBVIOUS
  <2>3. MessageAt(r)
    BY <2>2, <1>2 DEF RowsInv
  <2>4. /\ Parents(l) = {} <=> r.parent = NoParent
        /\ \A a \in Parents(l) : /\ Parents(l) = {a} /\ a \in Level
                                 /\ r.parent \in Seq(Nat) /\ Len(r.parent) = a - 1
    BY <2>2, <2>3, <1>2, ParentOrNone
  <2>5. ASSUME NEW a \in Level, HasKey(a), childOf[l] = KeyOf(a)
        PROVE  ForeignKeyFound(n) <=> Parents(l) = {a}
    <3>1. childOf[l][1] = a
      <4>1. PICK k \in Keys(a) : KeyColumn(a) = <<k>>
        BY <2>5, <1>2, KeyColumnIs
      <4>2. KeyOf(a) = <<a>> \o <<k>>
        BY <4>1 DEF KeyOf
      <4>3. a \in Int /\ k \in Int
        BY <4>1, <1>2, FieldSets, UpTo, FromProtoRowsAssumption DEF Level
      <4>4. (<<a>> \o <<k>>)[1] = a
        BY <4>3
      <4>5. QED
        BY <4>2, <4>4, <2>5
    <3>2. ASSUME Parents(l) = {a}
          PROVE  ForeignKeyFound(n)
      <4>1. PICK j \in 1 .. (n - 1) : inserted[j].level = a /\ inserted[j].id = r.parent
        BY <3>2, <2>2, <1>2 DEF RowsInv
      <4>2. QED
        BY <4>1, <3>1, <2>2 DEF ForeignKeyFound
    <3>3. ASSUME ForeignKeyFound(n)
          PROVE  Parents(l) = {a}
      <4>1. PICK j \in 1 .. (n - 1) : inserted[j].level = a /\ inserted[j].id = r.parent
        BY <3>1, <3>3, <2>2 DEF ForeignKeyFound
      <4>2. j \in DOMAIN inserted
        <5>1. inserted \in Seq(Row)
          BY <1>2 DEF RowsInv
        <5>2. QED
          BY <5>1
      <4>3. r.parent \in Messages(a)
        BY <4>1, <4>2, <1>2 DEF RowsInv, MessageAt
      <4>4. r.parent # NoParent /\ Len(r.parent) = a - 1
        BY <4>3, <1>2, NoSuchMessage
      <4>5. PICK b : b \in Parents(l)
        BY <4>4, <2>4
      <4>6. Parents(l) = {b} /\ b \in Level /\ Len(r.parent) = b - 1
        BY <4>5, <2>4
      <4>7. a = b
        BY <4>4, <4>6, FromProtoRowsAssumption DEF Level
      <4>8. QED
        BY <4>6, <4>7
    <3>4. QED
      BY <3>2, <3>3
  <2>6. QED
    BY <2>2, <2>4, <2>5
<1>4. ASSUME phase = "done", NEW l \in Level
      PROVE  {inserted[n].id : n \in {j \in DOMAIN inserted : inserted[j].level = l}}
               = IF HasTable(l) THEN Messages(l) ELSE {}
  <2> DEFINE Ids == {inserted[n].id : n \in {j \in DOMAIN inserted : inserted[j].level = l}}
  <2>1. DOMAIN todo = {}
    BY <1>1, <1>4 DEF InsertInv
  <2>2. ASSUME NEW id \in Ids
        PROVE  HasTable(l) /\ id \in Messages(l)
    <3>1. PICK n \in DOMAIN inserted : inserted[n].level = l /\ inserted[n].id = id
      OBVIOUS
    <3>2. QED
      BY <3>1, <1>2 DEF RowsInv, MessageAt
  <2>3. ASSUME HasTable(l), NEW id \in Messages(l)
        PROVE  id \in Ids
    <3>1. PICK j \in DOMAIN inserted : inserted[j].level = l /\ inserted[j].id = id
      BY <2>1, <2>3, <1>2 DEF WalkInv
    <3>2. QED
      BY <3>1
  <2> HIDE DEF Ids
  <2>4. Ids = IF HasTable(l) THEN Messages(l) ELSE {}
    BY <2>2, <2>3
  <2>5. QED
    BY <2>4 DEF Ids
<1>5. Complete
  BY <1>2, <1>4 DEF RowsInv, Complete
<1>6. QED
  BY <1>3, <1>5

-----------------------------------------------------------------------------
(* Tables, INSERTs and tombstones.                                         *)

\* Without names that are taken createTable of RisingWave has a column for each name.
LEMMA RisingwaveKeepsNames ==
    ASSUME SchemaInv, NEW l \in Level, IsInjective(RisingwaveNames(l))
    PROVE  Range(RisingwaveTable(l)) = Range(RisingwaveNames(l))
<1>1. PICK N : N = RisingwaveNames(l)
  OBVIOUS
<1>2. PICK k \in Nat : DOMAIN N = 1 .. k
  <2>1. PICK c : c = <<BlockNumber, Timestamp>> \o KeyColumn(l) \o ChildOf(l) \o OtherColumns(l)
    OBVIOUS
  <2>2. <<BlockNumber, Timestamp>> \in Seq(Int)
    BY DEF BlockNumber, Timestamp
  <2>3. c \in Seq(Int)
    BY <2>1, <2>2, KeyColumnIs, ColumnsSequence
  <2>4. DOMAIN N = DOMAIN c
    BY <1>1, <2>1 DEF RisingwaveNames, ColumnNames
  <2>5. QED
    BY <2>3, <2>4
<1>3. FirstTimes(N) = DOMAIN N
  <2>1. ASSUME NEW n \in DOMAIN N, NEW m \in 1 .. (n - 1)
        PROVE  N[m] # N[n]
    <3>1. m \in DOMAIN N /\ m # n
      BY <1>2
    <3>2. QED
      BY <3>1, <1>1 DEF IsInjective
  <2>2. QED
    BY <2>1 DEF FirstTimes
<1>4. PICK s : s = Ascending(FirstTimes(N))
  OBVIOUS
<1>5. /\ \A i \in DOMAIN s : s[i] \in DOMAIN N
      /\ \A x \in DOMAIN N : \E i \in DOMAIN s : s[i] = x
  <2>1. FirstTimes(N) \in SUBSET (1 .. k)
    BY <1>2, <1>3
  <2>2. QED
    BY <2>1, <1>3, <1>4, AscendingValues
<1>6. RisingwaveTable(l) = [n \in DOMAIN s |-> N[s[n]]]
  BY <1>1, <1>4 DEF RisingwaveTable
<1>7. Range(RisingwaveTable(l)) = {N[s[n]] : n \in DOMAIN s}
  BY <1>6 DEF Range
<1>8. {N[s[n]] : n \in DOMAIN s} = {N[x] : x \in DOMAIN N}
  BY <1>5
<1>9. QED
  BY <1>1, <1>7, <1>8 DEF Range

\* INSERTs name the columns of their tables.
LEMMA SchemaFits == SchemaInv => InsertsFitTables
<1>1. SUFFICES ASSUME SchemaInv, NEW l \in Level, IsInjective(TableNames(l))
               PROVE  /\ IsInjective(ColumnNames(l, InsertColumns(l)))
                      /\ Range(ColumnNames(l, InsertColumns(l))) = Range(TableColumns(l))
  BY DEF InsertsFitTables
<1>2. driver \in {"postgres", "risingwave", "clickhouse"}
  BY <1>1 DEF SchemaInv
<1>3. CASE driver = "postgres"
  <2>1. ColumnNames(l, InsertColumns(l)) = PostgresTable(l)
    BY <1>3 DEF InsertColumns, PostgresColumns, PostgresTable
  <2>2. TableColumns(l) = PostgresTable(l) /\ TableNames(l) = PostgresTable(l)
    BY <1>3 DEF TableColumns, TableNames
  <2>3. QED
    BY <2>1, <2>2, <1>1
<1>4. CASE driver = "risingwave"
  <2>1. ColumnNames(l, InsertColumns(l)) = RisingwaveNames(l)
    BY <1>4 DEF InsertColumns, RisingwaveColumns, RisingwaveNames
  <2>2. TableColumns(l) = RisingwaveTable(l) /\ TableNames(l) = RisingwaveNames(l)
    BY <1>4 DEF TableColumns, TableNames
  <2>3. QED
    BY <2>1, <2>2, <1>1, RisingwaveKeepsNames
<1>5. CASE driver = "clickhouse"
  <2>1. ColumnNames(l, InsertColumns(l)) = ClickhouseTable(l)
    BY <1>5 DEF InsertColumns, ClickhouseColumns, ClickhouseTable
  <2>2. TableColumns(l) = ClickhouseTable(l) /\ TableNames(l) = ClickhouseTable(l)
    BY <1>5 DEF TableColumns, TableNames
  <2>3. QED
    BY <2>1, <2>2, <1>1
<1>6. QED
  BY <1>2, <1>3, <1>4, <1>5

\* It does not matter in which order three sequences are joined.
LEMMA JoinedTwice ==
    \A s, t, u \in Seq(Int) : (s \o t) \o u = s \o (t \o u)
BY ConcatAssociative, SMTT(60)

\* Two sequences joined.
LEMMA JoinedTwo ==
    ASSUME NEW s \in Seq(Int), NEW t \in Seq(Int)
    PROVE  /\ s \o t \in Seq(Int)
           /\ Len(s) \in Nat /\ Len(t) \in Nat /\ Len(s \o t) = Len(s) + Len(t)
           /\ DOMAIN (s \o t) = 1 .. (Len(s) + Len(t))
           /\ \A i \in 1 .. Len(s) : (s \o t)[i] = s[i]
           /\ \A i \in 1 .. Len(t) : (s \o t)[Len(s) + i] = t[i]
<1>1. PICK a, b, u : a = Len(s) /\ b = Len(t) /\ u = s \o t
  OBVIOUS
<1>2. a \in Nat /\ b \in Nat /\ u \in Seq(Int) /\ Len(u) = a + b
  BY <1>1, ConcatProperties
<1>3. DOMAIN u = 1 .. (a + b)
  BY <1>2
<1>4. \A i \in 1 .. (a + b) : u[i] = IF i <= a THEN s[i] ELSE t[i - a]
  BY <1>1, ConcatProperties
<1>5. \A i \in 1 .. a : u[i] = s[i]
  BY <1>2, <1>4
<1>6. ASSUME NEW i \in 1 .. b
      PROVE  u[a + i] = t[i]
  <2>1. a + i \in 1 .. (a + b) /\ ~ (a + i <= a) /\ (a + i) - a = i
    BY <1>2
  <2>2. QED
    BY <2>1, <1>4
<1>7. QED
  BY <1>1, <1>2, <1>3, <1>5, <1>6

\* A sequence and one more.
LEMMA Joined1 ==
    ASSUME NEW s \in Seq(Int), NEW x \in Int
    PROVE  /\ s \o <<x>> \in Seq(Int)
           /\ Len(s \o <<x>>) = Len(s) + 1
           /\ (s \o <<x>>)[Len(s) + 1] = x
<1>1. <<x>> \in Seq(Int) /\ Len(<<x>>) = 1 /\ <<x>>[1] = x /\ 1 \in 1 .. 1
  OBVIOUS
<1>2. PICK t : t = <<x>>
  OBVIOUS
<1>3. t \in Seq(Int) /\ Len(t) = 1 /\ t[1] = x
  BY <1>1, <1>2
<1>4. s \o t \in Seq(Int) /\ Len(s \o t) = Len(s) + 1 /\ (s \o t)[Len(s) + 1] = t[1]
  <2>1. /\ s \o t \in Seq(Int) /\ Len(s \o t) = Len(s) + Len(t)
        /\ \A i \in 1 .. Len(t) : (s \o t)[Len(s) + i] = t[i]
    BY <1>3, JoinedTwo
  <2>2. 1 \in 1 .. Len(t)
    BY <1>3
  <2>3. QED
    BY <2>1, <2>2, <1>3
<1>5. QED
  BY <1>2, <1>3, <1>4

\* A set of numbers in ascending order: the first, then the others.
LEMMA AscendingFirst ==
    ASSUME NEW n \in Nat, NEW S \in SUBSET (1 .. n), S # {}, NEW k, k = Ascending(S)[1]
    PROVE  k \in S /\ Ascending(S) = <<k>> \o Ascending(S \ {k})
<1>1. PICK c, s, t : c = Cardinality(S) /\ s = Ascending(S) /\ t = Ascending(S \ {k})
  OBVIOUS
<1>2. IsFiniteSet(S) /\ c \in Nat /\ S \subseteq Int
  BY <1>1, UpTo
<1>3. c > 0
  BY <1>1, <1>2, FS_EmptySet
<1>4. Lists(s, S)
  BY <1>1, AscendingLists
<1>5. DOMAIN s = 1 .. c /\ s \in [1 .. c -> S] /\ Range(s) = S
      /\ \A i, j \in 1 .. c : i < j => s[i] < s[j]
  BY <1>1, <1>4 DEF Lists
<1>6. k \in S /\ k = s[1] /\ k \in Int
  BY <1>1, <1>2, <1>3, <1>5
<1>7. Cardinality(S \ {k}) = c - 1
  BY <1>1, <1>2, <1>6, FS_RemoveElement
<1>8. Lists(t, S \ {k})
  BY <1>1, AscendingLists
<1>9. DOMAIN t = 1 .. (c - 1) /\ t \in [1 .. (c - 1) -> S \ {k}] /\ Range(t) = S \ {k}
      /\ \A i, j \in 1 .. (c - 1) : i < j => t[i] < t[j]
  BY <1>7, <1>8 DEF Lists
<1>10. ASSUME NEW x \in S \ {k}
       PROVE  k < x
  <2>1. PICK j \in 1 .. c : s[j] = x
    BY <1>5 DEF Range
  <2>2. j # 1
    BY <2>1, <1>6
  <2>3. 1 \in 1 .. c /\ 1 < j
    BY <2>2, <1>2, <1>3
  <2>4. QED
    BY <2>1, <2>3, <1>5, <1>6
<1>11. PICK u : u = <<k>> \o t
  OBVIOUS
<1>12. t \in Seq(Int) /\ Len(t) = c - 1
  <2>1. t \in Seq(S \ {k}) /\ S \ {k} \subseteq Int
    BY <1>1, <1>2, AscendingValues
  <2>2. t \in Seq(Int)
    BY <2>1, SeqMonotonic
  <2>3. c - 1 \in Nat
    BY <1>2, <1>3
  <2>4. QED
    BY <2>2, <2>3, <1>9
<1>13. /\ u \in Seq(Int) /\ Len(u) = c /\ DOMAIN u = 1 .. c
       /\ u[1] = k /\ \A i \in 1 .. (c - 1) : u[i + 1] = t[i]
  <2>1. PICK g : g = <<k>>
    OBVIOUS
  <2>2. g \in Seq(Int) /\ Len(g) = 1 /\ g[1] = k
    BY <2>1, <1>6
  <2>3. /\ g \o t \in Seq(Int) /\ Len(g \o t) = 1 + (c - 1)
        /\ DOMAIN (g \o t) = 1 .. (1 + (c - 1))
        /\ (g \o t)[1] = g[1] /\ \A i \in 1 .. (c - 1) : (g \o t)[1 + i] = t[i]
    <3>1. /\ g \o t \in Seq(Int) /\ Len(g \o t) = Len(g) + Len(t)
          /\ DOMAIN (g \o t) = 1 .. (Len(g) + Len(t))
          /\ \A i \in 1 .. Len(g) : (g \o t)[i] = g[i]
          /\ \A i \in 1 .. Len(t) : (g \o t)[Len(g) + i] = t[i]
      BY <2>2, <1>12, JoinedTwo
    <3>2. 1 \in 1 .. Len(g)
      BY <2>2
    <3>3. QED
      BY <3>1, <3>2, <2>2, <1>12
  <2>4. 1 + (c - 1) = c /\ \A i \in 1 .. (c - 1) : 1 + i = i + 1
    BY <1>2
  <2>5. QED
    BY <2>1, <2>2, <2>3, <2>4, <1>11
<1>14. ASSUME NEW i \in 1 .. c
       PROVE  i = 1 \/ (i - 1 \in 1 .. (c - 1) /\ u[i] = t[i - 1] /\ t[i - 1] \in S \ {k})
  <2>1. CASE i # 1
    <3>1. i - 1 \in 1 .. (c - 1) /\ (i - 1) + 1 = i
      BY <2>1, <1>2
    <3>2. u[(i - 1) + 1] = t[i - 1]
      BY <3>1, <1>13
    <3>3. QED
      BY <3>1, <3>2, <1>9
  <2>2. QED
    BY <2>1
<1>15. ASSUME NEW i \in 1 .. c
       PROVE  u[i] \in S
  BY <1>6, <1>13, <1>14
<1>16. S \subseteq Range(u)
  <2>1. SUFFICES ASSUME NEW x \in S, x # k
                 PROVE  x \in Range(u)
    <3>1. 1 \in DOMAIN u /\ u[1] = k
      BY <1>2, <1>3, <1>13
    <3>2. k \in Range(u)
      BY <3>1 DEF Range
    <3>3. QED
      BY <3>2
  <2>2. PICK j \in 1 .. (c - 1) : t[j] = x
    BY <2>1, <1>9 DEF Range
  <2>3. j + 1 \in 1 .. c /\ u[j + 1] = x
    BY <2>2, <1>2, <1>13
  <2>4. QED
    BY <2>3, <1>13 DEF Range
<1>17. ASSUME NEW i \in 1 .. c, NEW j \in 1 .. c, i < j
       PROVE  u[i] < u[j]
  <2>1. j # 1
    BY <1>17
  <2>2. j - 1 \in 1 .. (c - 1) /\ u[j] = t[j - 1] /\ t[j - 1] \in S \ {k}
    BY <2>1, <1>14
  <2>3. CASE i = 1
    <3>1. k < t[j - 1]
      BY <2>2, <1>10
    <3>2. QED
      BY <3>1, <2>2, <2>3, <1>13
  <2>4. CASE i # 1
    <3>1. i - 1 \in 1 .. (c - 1) /\ u[i] = t[i - 1]
      BY <2>4, <1>14
    <3>2. i - 1 < j - 1
      BY <1>17, <1>2
    <3>3. t[i - 1] < t[j - 1]
      BY <3>1, <3>2, <2>2, <1>9
    <3>4. QED
      BY <3>1, <3>3, <2>2
  <2>5. QED
    BY <2>3, <2>4
<1>18. Range(u) = S
  BY <1>13, <1>15, <1>16 DEF Range
<1>19. u \in [1 .. c -> S]
  BY <1>13, <1>15
<1>20. Lists(u, S)
  BY <1>1, <1>13, <1>17, <1>18, <1>19 DEF Lists
<1>21. u = s
  BY <1>4, <1>20, ListUnique
<1>22. QED
  BY <1>1, <1>6, <1>11, <1>21

\* The tombstones of ClickHouse fit the table only where the key comes first.
LEMMA SchemaTombstones == SchemaInv => TombstonesAligned
<1>1. SUFFICES ASSUME SchemaInv, NEW l \in Level, HasTable(l), IsInjective(ClickhouseTable(l))
               PROVE  ColumnNames(l, TombstoneColumns(l)) = ClickhouseTable(l)
                        <=> KeyColumn(l) = <<>> \/ (/\ Columns(l)[1] = KeyColumn(l)[1]
                                                   /\ ChildOf(l) = <<>>)
  BY DEF TombstonesAligned
<1>2. PICK H : H = <<BlockNumber, Timestamp, Version, Deleted>>
  OBVIOUS
<1>3. PICK K, P, C, O : K = KeyColumn(l) /\ P = ChildOf(l) /\ C = Columns(l) /\ O = OtherColumns(l)
  OBVIOUS
<1>4. /\ H \in Seq(Int) /\ Len(H) = 4
      /\ K \in Seq(Int) /\ P \in Seq(Int) /\ C \in Seq(Int) /\ O \in Seq(Int)
  <2>1. H \in Seq(Int) /\ Len(H) = 4
    BY <1>2 DEF BlockNumber, Timestamp, Version, Deleted
  <2>2. QED
    BY <2>1, <1>1, <1>3, KeyColumnIs, ColumnsSequence
<1>5. PICK a, b : a = H \o P \o C /\ b = H \o K \o P \o O
  OBVIOUS
<1>6. a \in Seq(Int) /\ b \in Seq(Int)
  BY <1>4, <1>5
<1>7. PICK A, B : A = ColumnNames(l, a) /\ B = ColumnNames(l, b)
  OBVIOUS
<1>8. A = ColumnNames(l, TombstoneColumns(l)) /\ B = ClickhouseTable(l)
  BY <1>2, <1>3, <1>5, <1>7 DEF TombstoneColumns, ClickhouseTable
<1>9. /\ DOMAIN A = DOMAIN a /\ \A n \in DOMAIN a : A[n] = ColumnName(l, a[n])
      /\ DOMAIN B = DOMAIN b /\ \A n \in DOMAIN b : B[n] = ColumnName(l, b[n])
  BY <1>7 DEF ColumnNames
<1>10. \A n, j \in DOMAIN b : B[n] = B[j] => n = j
  BY <1>1, <1>8, <1>9 DEF IsInjective
<1>11. P = <<>> \/ P = <<ParentKey>>
  BY <1>3 DEF ChildOf
<1>12. CASE ~HasKey(l)
  <2>1. K = <<>>
    BY <1>1, <1>3, <1>12, KeyColumnIs
  <2>2. Keys(l) = {}
    BY <1>1, <1>12 DEF HasKey
  <2>3. C = O
    <3>1. ColumnFields(l) \ Keys(l) = ColumnFields(l)
      BY <2>2
    <3>2. QED
      BY <3>1, <1>3 DEF Columns, OtherColumns
  <2>4. H \o K = H
    BY <2>1, <1>4
  <2>5. a = b
    BY <2>3, <2>4, <1>5
  <2>6. QED
    BY <2>1, <2>5, <1>3, <1>7, <1>8
<1>13. CASE HasKey(l)
  <2>1. PICK k \in Keys(l) : K = <<k>> /\ Keys(l) = {k}
    BY <1>1, <1>3, <1>13, KeyColumnIs
  <2>2. k \in Int /\ K # <<>> /\ K[1] = k
    BY <2>1, <1>1, FieldSets, UpTo
  <2>3. PICK x : x = C[1]
    OBVIOUS
  <2>4. /\ x \in ColumnFields(l)
        /\ C = <<x>> \o Ascending(ColumnFields(l) \ {x})
    <3>1. ColumnFields(l) # {}
      BY <1>1 DEF HasTable
    <3>2. Len(desc[l]) \in Nat /\ ColumnFields(l) \in SUBSET (1 .. Len(desc[l]))
      BY <1>1, FieldSets
    <3>3. x = Ascending(ColumnFields(l))[1]
      BY <2>3, <1>3 DEF Columns
    <3>4. QED
      BY <3>1, <3>2, <3>3, <1>3, AscendingFirst DEF Columns
  <2>5. C # <<>> /\ Len(C) > 0 /\ Len(C) \in Nat
    <3>1. PICK w : w = Ascending(ColumnFields(l) \ {x})
      OBVIOUS
    <3>2. w \in Seq(Int)
      <4>1. Len(desc[l]) \in Nat /\ ColumnFields(l) \ {x} \in SUBSET (1 .. Len(desc[l]))
        BY <1>1, FieldSets
      <4>2. w \in Seq(ColumnFields(l) \ {x}) /\ ColumnFields(l) \ {x} \subseteq Int
        BY <4>1, <3>1, AscendingValues, UpTo
      <4>3. QED
        BY <4>2, SeqMonotonic
    <3>3. x \in Int
      BY <2>4, <1>1, FieldSets, UpTo
    <3>4. C = <<x>> \o w
      BY <2>4, <3>1
    <3>5. Len(C) = 1 + Len(w) /\ Len(w) \in Nat
      BY <3>2, <3>3, <3>4
    <3>6. QED
      BY <3>5
  <2>6. ASSUME x = k, P = <<>>
        PROVE  A = B
    <3>1. C = <<k>> \o O
      BY <2>1, <2>4, <2>6, <1>3 DEF OtherColumns
    <3>2. a = H \o C
      BY <2>6, <1>4, <1>5
    <3>3. b = (H \o K) \o O
      BY <2>6, <1>4, <1>5
    <3>4. (H \o K) \o O = H \o (K \o O)
      <4>1. H \in Seq(Int) /\ K \in Seq(Int) /\ O \in Seq(Int)
        BY <1>4
      <4>2. QED
        BY <4>1, JoinedTwice, Zenon
    <3>5. K \o O = C
      BY <3>1, <2>1
    <3>6. a = b
      BY <3>2, <3>3, <3>4, <3>5
    <3>7. QED
      BY <3>6, <1>7
  <2>7. 5 \in DOMAIN b /\ b[5] = k
    <3>1. PICK v : v = P \o O
      OBVIOUS
    <3>2. v \in Seq(Int) /\ Len(v) \in Nat
      BY <3>1, <1>4
    <3>3. PICK g : g = H \o <<k>>
      OBVIOUS
    <3>4. g \in Seq(Int) /\ Len(g) = 5 /\ g[5] = k
      <4>1. g \in Seq(Int) /\ Len(g) = Len(H) + 1 /\ g[Len(H) + 1] = k
        BY <3>3, <1>4, <2>2, Joined1
      <4>2. Len(H) + 1 = 5
        BY <1>4
      <4>3. QED
        BY <4>1, <4>2
    <3>5. b = g \o v
      <4>1. b = ((H \o K) \o P) \o O
        BY <1>5
      <4>2. ((H \o K) \o P) \o O = (H \o K) \o (P \o O)
        <5>1. PICK h : h = H \o K
          OBVIOUS
        <5>2. h \in Seq(Int)
          BY <5>1, <1>4
        <5>3. (h \o P) \o O = h \o (P \o O)
          BY <5>2, <1>4, JoinedTwice
        <5>4. QED
          BY <5>1, <5>3
      <4>3. QED
        BY <4>1, <4>2, <3>1, <3>3, <2>1
    <3>6. DOMAIN (g \o v) = 1 .. (Len(g) + Len(v)) /\ \A i \in 1 .. Len(g) : (g \o v)[i] = g[i]
      BY <3>2, <3>4, JoinedTwo
    <3>7. 5 \in 1 .. Len(g) /\ 5 \in 1 .. (Len(g) + Len(v))
      BY <3>2, <3>4
    <3>8. QED
      BY <3>4, <3>5, <3>6, <3>7
  <2>8. ASSUME A = B
        PROVE  x = k /\ P = <<>>
    <3>1. 5 \in DOMAIN a /\ ColumnName(l, a[5]) = B[5]
      BY <2>7, <2>8, <1>9
    <3>2. CASE P = <<ParentKey>>
      <4>1. a[5] = ParentKey
        <5>1. PICK g : g = H \o P
          OBVIOUS
        <5>2. ParentKey \in Int
          BY DEF ParentKey
        <5>3. g \in Seq(Int) /\ Len(g) = 5 /\ g[5] = ParentKey
          <6>1. g \in Seq(Int) /\ Len(g) = Len(H) + 1 /\ g[Len(H) + 1] = ParentKey
            BY <5>1, <5>2, <3>2, <1>4, Joined1
          <6>2. Len(H) + 1 = 5
            BY <1>4
          <6>3. QED
            BY <6>1, <6>2
        <5>4. a = g \o C
          BY <5>1, <1>5
        <5>5. \A i \in 1 .. Len(g) : (g \o C)[i] = g[i]
          BY <5>3, <1>4, JoinedTwo
        <5>6. 5 \in 1 .. Len(g)
          BY <5>3
        <5>7. QED
          BY <5>3, <5>4, <5>5, <5>6
      <4>2. 6 \in DOMAIN b /\ b[6] = ParentKey
        <5>1. PICK g : g = H \o <<k>>
          OBVIOUS
        <5>2. ParentKey \in Int
          BY DEF ParentKey
        <5>3. g \in Seq(Int) /\ Len(g) = 5
          <6>1. g \in Seq(Int) /\ Len(g) = Len(H) + 1
            BY <5>1, <1>4, <2>2, Joined1
          <6>2. QED
            BY <6>1, <1>4
        <5>4. PICK h : h = g \o P
          OBVIOUS
        <5>5. h \in Seq(Int) /\ Len(h) = 6 /\ h[6] = ParentKey
          <6>1. h \in Seq(Int) /\ Len(h) = Len(g) + 1 /\ h[Len(g) + 1] = ParentKey
            BY <5>2, <5>3, <5>4, <3>2, Joined1
          <6>2. Len(g) + 1 = 6
            BY <5>3
          <6>3. QED
            BY <6>1, <6>2
        <5>6. b = h \o O
          BY <5>1, <5>4, <2>1, <1>5
        <5>7. DOMAIN (h \o O) = 1 .. (Len(h) + Len(O)) /\ Len(O) \in Nat
              /\ \A i \in 1 .. Len(h) : (h \o O)[i] = h[i]
          BY <5>5, <1>4, JoinedTwo
        <5>8. 6 \in 1 .. Len(h) /\ 6 \in 1 .. (Len(h) + Len(O))
          BY <5>5, <5>7
        <5>9. QED
          BY <5>5, <5>6, <5>7, <5>8
      <4>3. B[6] = B[5]
        BY <3>1, <4>1, <4>2, <1>9
      <4>4. QED
        BY <4>2, <4>3, <2>7, <1>10
    <3>3. CASE P = <<>>
      <4>1. a[5] = x
        <5>1. a = H \o C
          BY <3>3, <1>4, <1>5
        <5>2. \A i \in 1 .. Len(C) : (H \o C)[Len(H) + i] = C[i]
          BY <1>4, JoinedTwo
        <5>3. 1 \in 1 .. Len(C) /\ Len(H) + 1 = 5
          BY <1>4, <2>5
        <5>4. QED
          BY <5>1, <5>2, <5>3, <2>3
      <4>2. ASSUME x # k
            PROVE  FALSE
        <5>1. x \in ColumnFields(l) \ Keys(l)
          BY <4>2, <2>1, <2>4
        <5>2. PICK n \in DOMAIN O : O[n] = x
          BY <5>1, <1>1, <1>3, ColumnsSequence
        <5>3. PICK g : g = H \o <<k>>
          OBVIOUS
        <5>4. g \in Seq(Int) /\ Len(g) = 5
          <6>1. g \in Seq(Int) /\ Len(g) = Len(H) + 1
            BY <5>3, <1>4, <2>2, Joined1
          <6>2. QED
            BY <6>1, <1>4
        <5>5. b = g \o O
          BY <5>3, <3>3, <1>4, <1>5, <2>1
        <5>6. n \in Nat /\ n >= 1 /\ 5 + n \in DOMAIN b /\ b[5 + n] = x
          <6>1. DOMAIN (g \o O) = 1 .. (Len(g) + Len(O)) /\ Len(O) \in Nat
                /\ \A i \in 1 .. Len(O) : (g \o O)[Len(g) + i] = O[i]
            BY <5>4, <1>4, JoinedTwo
          <6>2. n \in 1 .. Len(O)
            BY <5>2, <1>4
          <6>3. Len(g) + n = 5 + n /\ 5 + n \in 1 .. (Len(g) + Len(O)) /\ n \in Nat /\ n >= 1
            BY <5>4, <6>1, <6>2
          <6>4. QED
            BY <5>2, <5>5, <6>1, <6>2, <6>3
        <5>7. B[5 + n] = B[5]
          BY <5>6, <4>1, <3>1, <1>9
        <5>8. 5 + n = 5
          BY <5>6, <5>7, <2>7, <1>10
        <5>9. QED
          BY <5>6, <5>8
      <4>3. QED
        BY <4>2, <3>3
    <3>4. QED
      BY <3>2, <3>3, <1>11
  <2>9. QED
    BY <2>2, <2>3, <2>6, <2>8, <1>3, <1>8
<1>14. QED
  BY <1>12, <1>13

-----------------------------------------------------------------------------
(* The two walks, step by step.                                            *)

\* What the CSV walk knows of a message: no table without a key is right above it, if there
\* are any keys, and its parent is the message right above it, if that has a key.
CsvAt(m) ==
    /\ useProtoOptions /\ m.level > 1 /\ HasTable(m.level - 1) => HasKey(m.level - 1)
    /\ m.parent = IF m.level > 1 /\ HasKey(m.level - 1)
                  THEN SubSeq(m.id, 1, m.level - 2) ELSE NoParent

\* The two walks are at the same messages.
Abreast(T, V) ==
    /\ V \in Seq(Message)
    /\ Len(V) = Len(T)
    /\ \A n \in DOMAIN V : V[n].level = T[n].level /\ V[n].id = T[n].id /\ CsvAt(V[n])

\* The schemas for which from-proto takes what the CSV walk takes, and those for which the
\* files and the tables hold the same rows.
AllPlain == \A l \in Level : HasTable(l) => Plain(l)
Comparable == \A l \in Level : HasTable(l) => ~Wrapped(l)

CsvInv ==
    /\ InsertInv
    /\ csvPhase \in {"walking", "done", "failed"}
    /\ AllPlain /\ csvPhase # "failed" =>
          /\ phase = csvPhase
          /\ Abreast(todo, csvTodo)
          /\ Comparable => exported = inserted

\* A message whose table has a table, or none with a key, above it has the same parent in
\* both walks.
LEMMA ParentsAgree ==
    ASSUME SchemaInv, NEW m, NEW c, MessageAt(m), CsvAt(c),
           c.level = m.level, c.id = m.id, ~Wrapped(m.level)
    PROVE  c.parent = m.parent
<1>1. PICK l : l = m.level
  OBVIOUS
<1>2. l \in Nat /\ l >= 1
  BY <1>1, FromProtoRowsAssumption DEF MessageAt, Level
<1>3. CASE l = 1
  <2>1. Parents(l) = {}
    BY <1>3 DEF Parents
  <2>2. m.parent = NoParent
    BY <2>1, <1>1 DEF MessageAt
  <2>3. c.parent = NoParent
    BY <1>1, <1>3 DEF CsvAt
  <2>4. QED
    BY <2>2, <2>3
<1>4. CASE l > 1
  <2>1. PICK w \in Nat : w >= 1 /\ l = w + 1
    <3>1. l - 1 \in Nat /\ l - 1 >= 1 /\ l = (l - 1) + 1
      BY <1>2, <1>4
    <3>2. QED
      BY <3>1
  <2>2. w = l - 1 /\ l - 2 = w - 1
    BY <2>1
  <2>3. Parents(l) = IF HasKey(w) THEN {w} ELSE Parents(w)
    BY <2>1, NextParents
  <2>4. /\ useProtoOptions /\ HasTable(w) => HasKey(w)
        /\ c.parent = IF HasKey(w) THEN SubSeq(c.id, 1, w - 1) ELSE NoParent
    BY <2>2, <1>1, <1>4 DEF CsvAt
  <2>5. CASE HasKey(w)
    <3>1. w \in Parents(m.level)
      BY <2>3, <2>5, <1>1
    <3>2. m.parent = SubSeq(m.id, 1, w - 1)
      BY <3>1 DEF MessageAt
    <3>3. QED
      BY <3>2, <2>4, <2>5
  <2>6. CASE ~HasKey(w)
    <3>1. ASSUME NEW a \in Parents(w)
          PROVE  FALSE
      <4>1. a \in 1 .. (w - 1) /\ HasKey(a)
        BY <2>1, OneParent
      <4>2. useProtoOptions
        <5>1. a \in Level /\ Keys(a) # {}
          BY <4>1, <2>1, <1>1, FromProtoRowsAssumption DEF HasKey, MessageAt, Level
        <5>2. QED
          BY <5>1 DEF SchemaInv
      <4>3. a \in 1 .. (l - 1) /\ w \in 1 .. (l - 1) /\ a < w /\ ~HasTable(w)
        BY <4>1, <4>2, <2>1, <2>4, <2>6
      <4>4. Wrapped(l)
        BY <4>1, <4>3 DEF Wrapped
      <4>5. QED
        BY <4>4, <1>1
    <3>2. Parents(m.level) = {}
      BY <3>1, <2>3, <2>6, <1>1
    <3>3. m.parent = NoParent
      BY <3>2 DEF MessageAt
    <3>4. QED
      BY <3>3, <2>4, <2>6
  <2>7. QED
    BY <2>5, <2>6
<1>5. QED
  BY <1>2, <1>3, <1>4

\* The header of a plain table has the columns of its INSERTs.
LEMMA CsvHeader ==
    ASSUME SchemaInv, NEW l \in Level, Plain(l)
    PROVE  CsvColumns(l) = InsertColumns(l)
<1>1. PICK I : I = InsertColumns(l)
  OBVIOUS
<1>2. /\ I \in Seq(Int)
      /\ In(ParentKey, I) <=> childOf[l] # NoChildOf
      /\ \A i \in ColumnFields(l) \ Keys(l) : i > 0 /\ In(i, I)
  BY <1>1, InColumns
<1>3. \A n, j \in DOMAIN I : ColumnName(l, I[n]) = ColumnName(l, I[j]) => n = j
  BY <1>1 DEF Plain, IsInjective, ColumnNames
<1>4. ASSUME NEW i \in ColumnFields(l) \ Keys(l), i \in ParentNamed(l)
      PROVE  FALSE
  <2>1. childOf[l] # NoChildOf /\ FieldName(l, i) = ColumnName(l, ParentKey)
    BY <1>4 DEF ParentNamed, ChildOf
  <2>2. i > 0 /\ In(i, I) /\ In(ParentKey, I)
    BY <2>1, <1>2
  <2>3. PICK n, j \in DOMAIN I : I[n] = i /\ I[j] = ParentKey
    BY <2>2 DEF In
  <2>4. ColumnName(l, i) = FieldName(l, i)
    BY <2>2 DEF ColumnName, ParentKey
  <2>5. n = j
    BY <2>1, <2>3, <2>4, <1>3
  <2>6. QED
    BY <2>2, <2>3, <2>5 DEF ParentKey
<1>5. ColumnFields(l) \ (Keys(l) \union ParentNamed(l)) = ColumnFields(l) \ Keys(l)
  BY <1>4
<1>6. CsvColumns(l) = Meta \o KeyColumn(l) \o ChildOf(l) \o OtherColumns(l)
  BY <1>5 DEF CsvColumns, OtherColumns
<1>7. QED
  BY <1>6, InsertColumnsAre

\* In a plain table without lists the cells of a row are the values of the INSERT.
LEMMA CellsAgree ==
    ASSUME SchemaInv, NEW m, NEW c, MessageAt(m), c.level = m.level, c.parent = m.parent,
           ~HasNativeList(c), Plain(m.level)
    PROVE  Cells(c) = Values(m)
<1>1. PICK l, I : l = m.level /\ I = InsertColumns(l)
  OBVIOUS
<1>2. l \in Level /\ Plain(l)
  BY <1>1 DEF MessageAt
<1>3. Values(m) = I
  BY <1>1, <1>2, ValuesInColumns DEF Plain
<1>4. CsvColumns(l) = I
  BY <1>1, <1>2, CsvHeader
<1>5. Assigned(c) = I
  <2>1. \A i \in 1 .. Len(desc[l]) : desc[l][i] # "array"
    BY <1>1, <1>2 DEF HasNativeList, NoEmptyList, Plain
  <2>2. ColumnFields(l) \subseteq 1 .. Len(desc[l])
    BY <1>2, FieldSets
  <2>3. {i \in ColumnFields(l) \ Keys(l) : desc[l][i] # "array"} = ColumnFields(l) \ Keys(l)
    BY <2>1, <2>2
  <2>4. m.parent = NoParent <=> childOf[l] = NoChildOf
    BY <1>1, <1>2, ParentOrNone DEF Plain
  <2>5. (IF c.parent = NoParent THEN <<>> ELSE ChildOf(l)) = ChildOf(l)
    BY <2>4 DEF ChildOf
  <2>6. Assigned(c) = Meta \o KeyColumn(l) \o ChildOf(l) \o OtherColumns(l)
    BY <1>1, <2>3, <2>5 DEF Assigned, OtherColumns
  <2>7. QED
    BY <1>1, <1>2, <2>6, InsertColumnsAre
<1>6. PICK N : N = ColumnNames(l, I)
  OBVIOUS
<1>7. PICK w \in Nat : DOMAIN I = 1 .. w /\ I \in Seq(Int)
  <2>1. I \in Seq(Int)
    BY <1>1, <1>2, InColumns
  <2>2. QED
    BY <2>1
<1>8. DOMAIN N = 1 .. w /\ \A n, j \in 1 .. w : N[n] = N[j] => n = j
  BY <1>1, <1>2, <1>6, <1>7 DEF Plain, IsInjective, ColumnNames
<1>9. Len(N) = w
  <2>1. N \in Seq(Range(N))
    <3>1. N \in [1 .. w -> Range(N)]
      BY <1>6, <1>8 DEF Range, ColumnNames
    <3>2. QED
      BY <3>1
  <2>2. QED
    BY <2>1, <1>8
<1> DEFINE Of(n) == {k \in 1 .. w : N[k] = N[n]}
<1>10. Cells(c) = [n \in 1 .. w |->
                     IF Of(n) = {} \/ \E k \in (n + 1) .. w : N[k] = N[n] THEN Empty
                     ELSE I[CHOOSE k \in Of(n) : \A j \in Of(n) : j <= k]]
  BY <1>1, <1>4, <1>5, <1>6, <1>8, <1>9 DEF Cells
<1>11. ASSUME NEW n \in 1 .. w
       PROVE  Cells(c)[n] = I[n]
  <2>1. Of(n) = {n}
    BY <1>8
  <2>2. \A k \in (n + 1) .. w : N[k] # N[n]
    <3>1. SUFFICES ASSUME NEW k \in (n + 1) .. w, N[k] = N[n]
                   PROVE  FALSE
      OBVIOUS
    <3>2. k \in 1 .. w /\ k # n
      BY <1>7
    <3>3. QED
      BY <3>1, <3>2, <1>8
  <2>3. Cells(c)[n] = IF Of(n) = {} \/ \E k \in (n + 1) .. w : N[k] = N[n] THEN Empty
                      ELSE I[CHOOSE k \in Of(n) : \A j \in Of(n) : j <= k]
    BY <1>10
  <2> HIDE DEF Of
  <2>4. Cells(c)[n] = I[CHOOSE k \in {n} : \A j \in {n} : j <= k]
    BY <2>1, <2>2, <2>3
  <2>5. (CHOOSE k \in {n} : \A j \in {n} : j <= k) = n
    <3>1. n <= n
      BY <1>7
    <3>2. QED
      BY <3>1
  <2>6. QED
    BY <2>4, <2>5
<1>12. DOMAIN Cells(c) = 1 .. w /\ Cells(c) = [n \in 1 .. w |-> Cells(c)[n]]
  BY <1>10
<1>13. I = [n \in 1 .. w |-> I[n]]
  BY <1>7
<1>14. Cells(c) = I
  BY <1>11, <1>12, <1>13
<1>15. QED
  BY <1>3, <1>14

\* The same message has the same messages below it in both walks.
LEMMA SameChildren ==
    ASSUME SchemaInv, NEW m, NEW c, c.level = m.level, c.id = m.id, m.level \in Level,
           m.id \in Messages(m.level), NEW p \in Seq(Nat), NEW q \in Seq(Nat)
    PROVE  /\ Children(m, p) \in Seq(Message) /\ Children(c, q) \in Seq(Message)
           /\ DOMAIN Children(c, q) = DOMAIN Children(m, p)
           /\ Len(Children(c, q)) = Len(Children(m, p))
           /\ \A n \in DOMAIN Children(m, p) :
                 /\ Children(c, q)[n].level = Children(m, p)[n].level
                 /\ Children(c, q)[n].id = Children(m, p)[n].id
<1>1. PICK s : s = Ascending(Places(m.level))
  OBVIOUS
<1>2. PICK C, D : C = Children(m, p) /\ D = Children(c, q)
  OBVIOUS
<1>3. /\ C = [n \in DOMAIN s |-> [level |-> m.level + 1, id |-> Append(m.id, s[n]), parent |-> p]]
      /\ D = [n \in DOMAIN s |-> [level |-> m.level + 1, id |-> Append(m.id, s[n]), parent |-> q]]
  BY <1>1, <1>2 DEF Children
<1>4. C \in Seq(Message) /\ D \in Seq(Message)
  <2>1. c.level \in Level /\ c.id \in Messages(c.level)
    OBVIOUS
  <2>2. QED
    BY <2>1, <1>2, ChildrenAre DEF AllBelow
<1>5. DOMAIN C = DOMAIN D
  BY <1>3
<1>6. Len(C) = Len(D)
  BY <1>4, <1>5
<1>7. \A n \in DOMAIN C : D[n].level = C[n].level /\ D[n].id = C[n].id
  BY <1>3
<1>8. QED
  BY <1>2, <1>4, <1>5, <1>6, <1>7

\* When both walk a message they stay abreast.
LEMMA BothWalk ==
    ASSUME SchemaInv, NEW T, NEW V, TodoInv(T), Abreast(T, V), T # <<>>,
           NEW m, m = Head(T), NEW c, c = Head(V), ~NoKeyForChildren(c),
           NEW p, p = IF HasKey(m.level) THEN m.id ELSE m.parent,
           NEW q, q = IF HasKey(c.level) THEN c.id ELSE NoParent
    PROVE  Abreast(Children(m, p) \o Tail(T), Children(c, q) \o Tail(V))
<1>1. T \in Seq(Message) /\ V \in Seq(Message) /\ Len(V) = Len(T) /\ Len(T) \in Nat
  BY DEF TodoInv, Abreast
<1>2. 1 \in DOMAIN T /\ 1 \in DOMAIN V /\ V # <<>> /\ m = T[1] /\ c = V[1] /\ m \in Message
      /\ DOMAIN T = DOMAIN V /\ Len(T) > 0
  BY <1>1
<1>3. c.level = m.level /\ c.id = m.id /\ MessageAt(m)
  BY <1>2 DEF Abreast, TodoInv
<1>4. PICK l, i : l = m.level /\ i = m.id
  OBVIOUS
<1>5. l \in Level /\ l \in Nat /\ l >= 1 /\ i \in Messages(l) /\ i \in Seq(Nat) /\ Len(i) = l - 1
  BY <1>3, <1>4, MessagePlaces, FromProtoRowsAssumption DEF MessageAt, Level
<1>6. p \in Seq(Nat) /\ q \in Seq(Nat)
  <2>1. NoParent \in Seq(Nat)
    BY DEF NoParent
  <2>2. m.parent \in Seq(Nat)
    BY <1>2 DEF Message
  <2>3. QED
    BY <2>1, <2>2, <1>3, <1>4, <1>5
<1>7. PICK C, D : C = Children(m, p) /\ D = Children(c, q)
  OBVIOUS
<1>8. /\ C \in Seq(Message) /\ D \in Seq(Message)
      /\ DOMAIN D = DOMAIN C /\ Len(D) = Len(C)
      /\ \A n \in DOMAIN C : D[n].level = C[n].level /\ D[n].id = C[n].id
  <2>1. m.level \in Level /\ m.id \in Messages(m.level)
    BY <1>4, <1>5
  <2>2. QED
    BY <2>1, <1>3, <1>6, <1>7, SameChildren
<1>9. AllBelow(D, c, q)
  <2>1. c.level \in Level /\ c.id \in Messages(c.level)
    BY <1>3, <1>4, <1>5
  <2>2. QED
    BY <2>1, <1>6, <1>7, ChildrenAre
<1>10. ASSUME NEW n \in DOMAIN D
       PROVE  CsvAt(D[n])
  <2>1. PICK x \in Places(l) : D[n].id = Append(i, x)
    BY <1>3, <1>4, <1>9 DEF AllBelow
  <2>2. D[n].level = l + 1 /\ D[n].parent = q
    BY <1>3, <1>4, <1>9 DEF AllBelow
  <2>3. x \in Nat
    BY <2>1, <1>5, PlacesListed
  <2>4. useProtoOptions /\ HasTable(l) => HasKey(l)
    BY <2>1, <1>3, <1>4 DEF NoKeyForChildren
  <2>5. PICK u : u = Append(i, x)
    OBVIOUS
  <2>6. u \in Seq(Nat) /\ Len(u) = Len(i) + 1 /\ \A k \in 1 .. Len(i) : u[k] = i[k]
    BY <2>3, <2>5, <1>5
  <2>7. SubSeq(u, 1, l - 1) = i
    <3>1. l - 1 \in Nat /\ Len(i) = l - 1
      BY <1>5
    <3>2. SubSeq(u, 1, l - 1) = [k \in 1 .. (l - 1) |-> u[k]]
      BY <2>6, <3>1
    <3>3. i = [k \in 1 .. (l - 1) |-> i[k]]
      BY <3>1, <1>5
    <3>4. QED
      BY <3>1, <3>2, <3>3, <2>6
  <2>8. q = IF HasKey(l) THEN i ELSE NoParent
    BY <1>3, <1>4
  <2>9. (l + 1) - 1 = l /\ (l + 1) - 2 = l - 1 /\ l + 1 > 1
    BY <1>5
  <2>10. QED
    BY <2>1, <2>2, <2>4, <2>5, <2>7, <2>8, <2>9 DEF CsvAt
<1>11. PICK A, B : A = C \o Tail(T) /\ B = D \o Tail(V)
  OBVIOUS
<1>12. /\ A \in Seq(Message)
       /\ \A n \in DOMAIN A :
             \/ n \in DOMAIN C /\ A[n] = C[n]
             \/ /\ n \notin DOMAIN C /\ n - Len(C) + 1 \in DOMAIN T \ {1}
                /\ A[n] = T[n - Len(C) + 1]
  <2>1. LET X == C \o Tail(T)
        IN  /\ X \in Seq(Message)
            /\ \A n \in DOMAIN X :
                  \/ n \in DOMAIN C /\ X[n] = C[n]
                  \/ /\ n \notin DOMAIN C /\ n - Len(C) + 1 \in DOMAIN T \ {1}
                     /\ X[n] = T[n - Len(C) + 1]
            /\ \A n \in DOMAIN C : n \in DOMAIN X /\ X[n] = C[n]
            /\ \A n \in DOMAIN T \ {1} : \E j \in DOMAIN X : X[j] = T[n]
    BY <1>1, <1>8, RestToWalk
  <2>2. QED
    BY <2>1, <1>11
<1>13. /\ B \in Seq(Message)
       /\ \A n \in DOMAIN B :
             \/ n \in DOMAIN D /\ B[n] = D[n]
             \/ /\ n \notin DOMAIN D /\ n - Len(D) + 1 \in DOMAIN V \ {1}
                /\ B[n] = V[n - Len(D) + 1]
  <2>1. LET X == D \o Tail(V)
        IN  /\ X \in Seq(Message)
            /\ \A n \in DOMAIN X :
                  \/ n \in DOMAIN D /\ X[n] = D[n]
                  \/ /\ n \notin DOMAIN D /\ n - Len(D) + 1 \in DOMAIN V \ {1}
                     /\ X[n] = V[n - Len(D) + 1]
            /\ \A n \in DOMAIN D : n \in DOMAIN X /\ X[n] = D[n]
            /\ \A n \in DOMAIN V \ {1} : \E j \in DOMAIN X : X[j] = V[n]
    BY <1>1, <1>2, <1>8, RestToWalk
  <2>2. QED
    BY <2>1, <1>11
<1>14. Len(B) = Len(A) /\ DOMAIN B = DOMAIN A
  <2>1. Tail(T) \in Seq(Message) /\ Len(Tail(T)) = Len(T) - 1
    BY <1>1
  <2>2. Tail(V) \in Seq(Message) /\ Len(Tail(V)) = Len(V) - 1
    BY <1>1, <1>2
  <2>3. Len(A) = Len(C) + Len(Tail(T)) /\ Len(B) = Len(D) + Len(Tail(V))
    BY <2>1, <2>2, <1>8, <1>11, ConcatProperties
  <2>4. QED
    BY <2>1, <2>2, <2>3, <1>1, <1>8, <1>12, <1>13
<1>15. ASSUME NEW n \in DOMAIN B
       PROVE  B[n].level = A[n].level /\ B[n].id = A[n].id /\ CsvAt(B[n])
  <2>1. CASE n \in DOMAIN D
    <3>1. B[n] = D[n] /\ A[n] = C[n]
      BY <2>1, <1>8, <1>12, <1>13, <1>14
    <3>2. QED
      BY <3>1, <2>1, <1>8, <1>10
  <2>2. CASE n \notin DOMAIN D
    <3>1. PICK k : k = n - Len(C) + 1
      OBVIOUS
    <3>2. k \in DOMAIN V /\ B[n] = V[k]
      BY <2>2, <3>1, <1>8, <1>13
    <3>3. A[n] = T[k]
      BY <2>2, <3>1, <1>8, <1>12, <1>14
    <3>4. QED
      BY <3>2, <3>3 DEF Abreast
  <2>3. QED
    BY <2>1, <2>2
<1>16. Abreast(A, B)
  BY <1>13, <1>14, <1>15 DEF Abreast
<1>17. QED
  BY <1>7, <1>11, <1>16

\* Both walks start at the root.
LEMMA CsvStarts ==
    ASSUME CsvInit
    PROVE  CsvInv
<1>1. InsertInv
  BY InsertStarts DEF CsvInit
<1>2. /\ todo = <<Root>> /\ csvTodo = <<Root>> /\ csvPhase = "walking" /\ phase = "walking"
      /\ inserted = <<>> /\ exported = <<>>
  BY DEF CsvInit, Init
<1>3. Root.level = 1 /\ Root.parent = NoParent
  BY DEF Root
<1>4. CsvAt(Root)
  BY <1>3 DEF CsvAt
<1>5. PICK T : T = <<Root>>
  OBVIOUS
<1>6. T \in Seq(Message)
  BY <1>1, <1>2, <1>5 DEF InsertInv, TodoInv
<1>7. \A n \in DOMAIN T : T[n] = Root
  BY <1>5
<1>8. Abreast(T, T)
  BY <1>4, <1>6, <1>7 DEF Abreast
<1>9. QED
  BY <1>1, <1>2, <1>5, <1>8 DEF CsvInv

\* What the walks know of each other outlasts a step, in which the schema stays.
LEMMA CsvKeeps ==
    ASSUME SchemaInv, UNCHANGED schemaVars
    PROVE  /\ AllPlain' = AllPlain /\ Comparable' = Comparable
           /\ \A T, V : Abreast(T, V) => (Abreast(T, V))'
<1>1. /\ desc' = desc /\ present' = present /\ childOf' = childOf /\ driver' = driver
      /\ useProtoOptions' = useProtoOptions
  BY DEF schemaVars
<1>2. /\ \A l : (HasTable(l))' = HasTable(l)
      /\ \A l : (HasKey(l))' = HasKey(l)
      /\ \A l : (Parents(l))' = Parents(l)
      /\ \A l \in Level : (KeyColumn(l))' = KeyColumn(l)
  BY SameSchema
<1>3. \A l : (Wrapped(l))' = Wrapped(l)
  BY <1>2 DEF Wrapped
<1>4. \A l : (NoEmptyList(l))' = NoEmptyList(l)
  BY <1>1 DEF NoEmptyList
<1>5. Comparable' = Comparable
  BY <1>2, <1>3 DEF Comparable
<1>6. \A l, c : (ColumnName(l, c))' = ColumnName(l, c)
  <2>1. \A l, i : (FieldName(l, i))' = FieldName(l, i)
    BY <1>1 DEF FieldName
  <2>2. QED
    BY <2>1, <1>1 DEF ColumnName
<1>7. \A l \in Level : (InsertColumns(l))' = InsertColumns(l)
  <2>1. SUFFICES ASSUME NEW l \in Level
                 PROVE  (InsertColumns(l))' = InsertColumns(l)
    OBVIOUS
  <2>2. (ColumnFields(l))' = ColumnFields(l) /\ (Keys(l))' = Keys(l)
    BY <1>1 DEF ColumnFields, Keys
  <2>3. (OtherColumns(l))' = OtherColumns(l) /\ (ChildOf(l))' = ChildOf(l)
    BY <1>1, <2>2 DEF OtherColumns, ChildOf
  <2>4. QED
    BY <1>1, <1>2, <2>3 DEF InsertColumns, PostgresColumns, RisingwaveColumns, ClickhouseColumns
<1>8. \A l \in Level : (Plain(l))' = Plain(l)
  <2>1. SUFFICES ASSUME NEW l \in Level
                 PROVE  (Plain(l))' = Plain(l)
    OBVIOUS
  <2>2. PICK I : I = InsertColumns(l)
    OBVIOUS
  <2>3. (InsertColumns(l))' = I
    BY <2>2, <1>7
  <2>4. (ColumnNames(l, I))' = ColumnNames(l, I)
    BY <1>6 DEF ColumnNames
  <2>5. (ColumnNames(l, InsertColumns(l)))' = ColumnNames(l, InsertColumns(l))
    BY <2>2, <2>3, <1>6 DEF ColumnNames
  <2>6. QED
    BY <2>5, <1>1, <1>2, <1>4 DEF Plain
<1>9. AllPlain' = AllPlain
  BY <1>2, <1>8 DEF AllPlain
<1>10. \A m : (CsvAt(m))' = CsvAt(m)
  BY <1>1, <1>2 DEF CsvAt
<1>11. \A T, V : Abreast(T, V) => (Abreast(T, V))'
  BY <1>10 DEF Abreast
<1>12. QED
  BY <1>5, <1>9, <1>11

\* A message the CSV walk accepts is walked by from-proto, and the rows agree.
LEMMA BothCollect ==
    ASSUME CsvInv, AllPlain, CollectRow, Next
    PROVE  /\ Walk
           /\ \E U, W : U = todo' /\ W = csvTodo' /\ Abreast(U, W)
           /\ Comparable => exported' = inserted'
<1>1. SchemaInv /\ TodoInv(todo)
  BY DEF CsvInv, InsertInv
<1>2. csvPhase = "walking" /\ csvTodo # <<>> /\ ~Refused(Head(csvTodo))
  BY DEF CollectRow
<1>3. phase = "walking" /\ Abreast(todo, csvTodo) /\ (Comparable => exported = inserted)
  BY <1>2 DEF CsvInv
<1>4. PICK m, c : m = Head(todo) /\ c = Head(csvTodo)
  OBVIOUS
<1>5. todo # <<>> /\ 1 \in DOMAIN todo /\ 1 \in DOMAIN csvTodo /\ m = todo[1] /\ c = csvTodo[1]
  <2>1. todo \in Seq(Message) /\ csvTodo \in Seq(Message) /\ Len(csvTodo) = Len(todo)
    BY <1>1, <1>3 DEF TodoInv, Abreast
  <2>2. Len(csvTodo) \in Nat /\ Len(csvTodo) # 0
    BY <2>1, <1>2
  <2>3. QED
    BY <2>1, <2>2, <1>4
<1>6. c.level = m.level /\ c.id = m.id /\ CsvAt(c) /\ MessageAt(m)
  BY <1>1, <1>3, <1>5 DEF Abreast, TodoInv
<1>7. ~HasNativeList(c) /\ ~NoKeyForChildren(c)
  BY <1>2, <1>4 DEF Refused
<1>8. ~NothingToPropagate(m)
  BY <1>6, <1>7 DEF NothingToPropagate, NoKeyForChildren
<1>9. Walk
  <2>1. ASSUME HasTable(m.level)
        PROVE  Plain(m.level) /\ Values(m) = InsertColumns(m.level)
    <3>1. Plain(m.level)
      BY <2>1, <1>6 DEF AllPlain, MessageAt
    <3>2. QED
      BY <3>1, <1>1, <1>6, ValuesInColumns DEF Plain
  <2>2. ~Misfits(m)
    BY <2>1 DEF Misfits, Plain
  <2>3. QED
    BY <2>2, <1>3, <1>4, <1>5, <1>8 DEF Next, Fail, Done, Ended
<1>10. PICK p, q : /\ p = IF HasKey(m.level) THEN m.id ELSE m.parent
                   /\ q = IF HasKey(c.level) THEN c.id ELSE NoParent
  OBVIOUS
<1>11. /\ todo' = Children(m, p) \o Tail(todo)
       /\ inserted' = IF HasTable(m.level) THEN Append(inserted, RowOf(m)) ELSE inserted
  BY <1>4, <1>9, <1>10 DEF Walk, RowOf
<1>12. /\ csvTodo' = Children(c, q) \o Tail(csvTodo)
       /\ exported' = IF HasTable(c.level)
                      THEN Append(exported, [level |-> c.level, id |-> c.id,
                                             parent |-> c.parent, values |-> Cells(c)])
                      ELSE exported
  BY <1>4, <1>10 DEF CollectRow
<1>13. Abreast(Children(m, p) \o Tail(todo), Children(c, q) \o Tail(csvTodo))
  BY <1>1, <1>3, <1>4, <1>5, <1>7, <1>10, BothWalk
<1>14. \E U, W : U = todo' /\ W = csvTodo' /\ Abreast(U, W)
  BY <1>11, <1>12, <1>13
<1>15. ASSUME Comparable
       PROVE  exported' = inserted'
  <2>1. exported = inserted
    BY <1>3, <1>15
  <2>2. CASE HasTable(m.level)
    <3>1. ~Wrapped(m.level) /\ Plain(m.level)
      BY <2>2, <1>6, <1>15 DEF Comparable, AllPlain, MessageAt
    <3>2. c.parent = m.parent
      BY <3>1, <1>1, <1>6, ParentsAgree
    <3>3. Cells(c) = Values(m)
      BY <3>1, <3>2, <1>1, <1>6, <1>7, CellsAgree
    <3>4. QED
      BY <3>2, <3>3, <2>1, <2>2, <1>6, <1>11, <1>12 DEF RowOf
  <2>3. CASE ~HasTable(m.level)
    BY <2>1, <2>3, <1>6, <1>11, <1>12
  <2>4. QED
    BY <2>2, <2>3
<1>16. QED
  BY <1>9, <1>14, <1>15

\* Every step of the two walks keeps the invariant.
LEMMA CsvKept ==
    ASSUME CsvInv, [CsvNext]_<<vars, csvVars>>
    PROVE  CsvInv'
<1>1. InsertInv' /\ SchemaInv /\ TodoInv(todo)
  BY InsertStep DEF CsvInv, InsertInv, CsvNext, vars
<1>2. UNCHANGED schemaVars
  BY DEF CsvNext, Next, Walk, Fail, Done, Ended, vars
<1>3. AllPlain' = AllPlain /\ Comparable' = Comparable
  BY <1>1, <1>2, CsvKeeps
<1>4. csvPhase' \in {"walking", "done", "failed"}
  BY DEF CsvInv, CsvNext, CsvStep, CollectRow, RefuseMessage, WriteRows, CsvEnded, csvVars
<1>5. ASSUME AllPlain, csvPhase' # "failed"
      PROVE  /\ phase' = csvPhase'
             /\ (Abreast(todo, csvTodo))'
             /\ Comparable => exported' = inserted'
  <2>1. ASSUME csvPhase # "failed"
        PROVE  /\ phase = csvPhase /\ Abreast(todo, csvTodo)
               /\ Comparable => exported = inserted
    BY <2>1, <1>5 DEF CsvInv
  <2>2. ASSUME UNCHANGED <<todo, inserted, phase, csvTodo, exported, csvPhase>>
        PROVE  /\ phase' = csvPhase'
               /\ (Abreast(todo, csvTodo))'
               /\ Comparable => exported' = inserted'
    <3>1. phase = csvPhase /\ Abreast(todo, csvTodo) /\ (Comparable => exported = inserted)
      BY <2>1, <2>2, <1>5
    <3>2. PICK T, V : T = todo /\ V = csvTodo
      OBVIOUS
    <3>3. (Abreast(T, V))'
      BY <3>1, <3>2, <1>1, <1>2, CsvKeeps
    <3>4. T = todo' /\ V = csvTodo'
      BY <3>2, <2>2
    <3>5. QED
      BY <3>1, <3>3, <3>4, <2>2
  <2>3. CASE UNCHANGED <<vars, csvVars>>
    BY <2>2, <2>3 DEF vars, csvVars
  <2>4. CASE CsvNext /\ CollectRow
    <3>1. Next
      BY <2>4 DEF CsvNext
    <3>2. /\ Walk
          /\ \E U, W : U = todo' /\ W = csvTodo' /\ Abreast(U, W)
          /\ Comparable => exported' = inserted'
      BY <3>1, <2>4, <1>5, BothCollect
    <3>3. PICK U, W : U = todo' /\ W = csvTodo' /\ Abreast(U, W)
      BY <3>2
    <3>4. (Abreast(U, W))'
      BY <3>3, <1>1, <1>2, CsvKeeps
    <3>5. (Abreast(todo, csvTodo))'
      BY <3>3, <3>4
    <3>6. csvPhase = "walking" /\ csvPhase' = csvPhase /\ phase' = phase
      BY <3>2, <2>4 DEF CollectRow, Walk
    <3>7. phase = csvPhase
      BY <3>6, <2>1
    <3>8. QED
      BY <3>2, <3>5, <3>6, <3>7
  <2>5. CASE CsvNext /\ RefuseMessage
    BY <2>5, <1>5 DEF RefuseMessage
  <2>6. CASE CsvNext /\ WriteRows
    <3>1. Next /\ csvPhase = "walking" /\ csvTodo = <<>> /\ csvPhase' = "done"
          /\ csvTodo' = csvTodo /\ exported' = exported
      BY <2>6 DEF CsvNext, WriteRows
    <3>2. phase = "walking" /\ Abreast(todo, csvTodo) /\ (Comparable => exported = inserted)
      BY <3>1, <2>1
    <3>3. todo = <<>>
      <4>1. todo \in Seq(Message) /\ Len(todo) = Len(csvTodo) /\ Len(csvTodo) = 0
        BY <3>1, <3>2, <1>1 DEF TodoInv, Abreast
      <4>2. QED
        BY <4>1
    <3>4. Done
      BY <3>1, <3>2, <3>3 DEF Next, Walk, Fail, Ended
    <3>5. phase' = "done" /\ todo' = todo /\ inserted' = inserted
      BY <3>4 DEF Done
    <3>6. PICK T, V : T = todo /\ V = csvTodo
      OBVIOUS
    <3>7. (Abreast(T, V))'
      BY <3>2, <3>6, <1>1, <1>2, CsvKeeps
    <3>8. (Abreast(todo, csvTodo))'
      BY <3>1, <3>5, <3>6, <3>7
    <3>9. QED
      BY <3>1, <3>2, <3>5, <3>8
  <2>7. CASE CsvNext /\ CsvEnded
    <3>1. Next /\ csvPhase \in {"done", "failed"} /\ UNCHANGED <<csvTodo, exported, csvPhase>>
      BY <2>7 DEF CsvNext, CsvEnded, csvVars
    <3>2. csvPhase = "done" /\ phase = "done"
      BY <3>1, <2>1, <1>5
    <3>3. UNCHANGED <<todo, inserted, phase>>
      BY <3>1, <3>2 DEF Next, Walk, Fail, Done, Ended, vars
    <3>4. QED
      BY <3>1, <3>3, <2>2
  <2>8. QED
    BY <2>3, <2>4, <2>5, <2>6, <2>7 DEF CsvNext, CsvStep
<1>6. QED
  BY <1>1, <1>3, <1>4, <1>5 DEF CsvInv

\* For a plain schema both walks have the same rows where both succeed, and the CSV walk is
\* the stricter one.
LEMMA InvCsvAgrees == CsvInv => CsvAgrees
<1>1. SUFFICES ASSUME CsvInv, \A l \in Level : HasTable(l) => Plain(l)
               PROVE  CsvMatchesInsert /\ CsvAcceptsLess
  BY DEF CsvAgrees
<1>2. AllPlain
  BY <1>1 DEF AllPlain
<1>3. CsvAcceptsLess
  BY <1>1, <1>2 DEF CsvInv, CsvAcceptsLess
<1>4. \A l \in Level : HasTable(l) => CsvColumns(l) = InsertColumns(l)
  BY <1>1, CsvHeader DEF CsvInv, InsertInv
<1>5. CsvMatchesInsert
  BY <1>1, <1>2, <1>4 DEF CsvInv, CsvMatchesInsert, Comparable
<1>6. QED
  BY <1>3, <1>5

-----------------------------------------------------------------------------
(* Theorems of the two walks.                                              *)

\* The schema of every state is one the program accepts, the rows and the messages still to
\* be walked are those of a walk that is under way, and for a plain schema the CSV walk is
\* abreast of the other one as long as it has refused nothing.
THEOREM RowsInvariance == CsvSpec => []CsvInv
<1>1. CsvInit => CsvInv
  BY CsvStarts
<1>2. CsvInv /\ [CsvNext]_<<vars, csvVars>> => CsvInv'
  BY CsvKept
<1>3. QED
  BY <1>1, <1>2, PTL DEF CsvSpec

\* Whatever child_of says: the rows the database takes have the values of their columns, and
\* in the column for the parent the key child_of names, exactly if no list of scalars is empty
\* and child_of follows the nesting of the messages.
THEOREM RowsAligned == CsvSpec => []ValuesAligned
<1>1. CsvInv => ValuesAligned
  BY InvValuesAligned DEF CsvInv
<1>2. QED
  BY <1>1, RowsInvariance, PTL

\* Every message with a table gets a row, one; and a foreign key child_of makes on the key of
\* a table is met at every statement exactly if that table is the nearest with a key above.
THEOREM WalksComplete == CsvSpec => []RowsComplete
<1>1. CsvInv => RowsComplete
  BY InvRowsComplete DEF CsvInv
<1>2. QED
  BY <1>1, RowsInvariance, PTL

\* The INSERTs made for a table name each of its columns once, if these have different names.
THEOREM InsertsFit == CsvSpec => []InsertsFitTables
<1>1. CsvInv => InsertsFitTables
  BY SchemaFits DEF CsvInv, InsertInv
<1>2. QED
  BY <1>1, RowsInvariance, PTL

\* A tombstone has the values of its row in the columns of the row only for a table without
\* a parent whose key, if any, is the first column of the message.
THEOREM TombstonesFit == CsvSpec => []TombstonesAligned
<1>1. CsvInv => TombstonesAligned
  BY SchemaTombstones DEF CsvInv, InsertInv
<1>2. QED
  BY <1>1, RowsInvariance, PTL

\* For a plain schema, where child_of is given exactly if a key is handed down, no list is
\* empty and no name is taken twice, the CSV files hold what from-proto would insert, and
\* nothing it would refuse.
THEOREM FilesMatchInserts == CsvSpec => []CsvAgrees
<1>1. CsvInv => CsvAgrees
  BY InvCsvAgrees
<1>2. QED
  BY <1>1, RowsInvariance, PTL

-----------------------------------------------------------------------------
(* Rows as texts.                                                          *)

\* The characters a text may have.
Chars == Char \union {"[..]", "0", "\\x.."}
Ends == {",", "q", "nl"}

\* One step of the recursion of Doubled, from f.
DoubledStep(s, f, n) ==
    IF n = 0 THEN <<>>
    ELSE (IF s[Len(s) - n + 1] = "q" THEN <<"q", "q">> ELSE <<s[Len(s) - n + 1]>>) \o f[n - 1]

\* The recursion has a solution.
LEMMA DoubledExists ==
    ASSUME NEW s, NEW n \in Nat
    PROVE  \E f : f = [i \in 0 .. n |-> DoubledStep(s, f, i)]
<1> DEFINE Fails == {m \in Nat : ~ \E f : f = [i \in 0 .. m |-> DoubledStep(s, f, i)]}
<1>1. ASSUME Fails # {} PROVE FALSE
  <2>1. PICK m \in Fails : \A y \in Fails : m <= y
    BY <1>1, NatMin
  <2>2. CASE m = 0
    <3> DEFINE f == [i \in 0 .. 0 |-> <<>>]
    <3>1. ASSUME NEW i \in 0 .. 0 PROVE DoubledStep(s, f, i) = <<>>
      BY DEF DoubledStep
    <3>2. f = [i \in 0 .. 0 |-> DoubledStep(s, f, i)]
      BY <3>1
    <3>3. QED
      BY <2>1, <2>2, <3>2
  <2>3. CASE m # 0
    <3>1. m - 1 \in Nat /\ ~ (m <= m - 1)
      BY <2>1, <2>3
    <3>2. PICK f : f = [i \in 0 .. (m - 1) |-> DoubledStep(s, f, i)]
      BY <2>1, <3>1
    <3> DEFINE g == [i \in 0 .. m |-> IF i = m THEN DoubledStep(s, f, m) ELSE f[i]]
    <3>3. ASSUME NEW i \in 0 .. m PROVE g[i] = DoubledStep(s, g, i)
      <4>1. i # 0 => i - 1 \in 0 .. m /\ i - 1 # m
        BY <2>1
      <4>2. i # 0 => g[i - 1] = f[i - 1]
        BY <4>1
      <4>3. DoubledStep(s, g, i) = DoubledStep(s, f, i)
        <5> HIDE DEF g
        <5>1. QED
          BY <4>2 DEF DoubledStep
      <4>4. i # m => f[i] = DoubledStep(s, f, i)
        <5>1. i # m => i \in 0 .. (m - 1)
          BY <2>1
        <5>2. QED
          BY <3>2, <5>1
      <4>5. QED
        BY <4>3, <4>4
    <3>4. g = [i \in 0 .. m |-> DoubledStep(s, g, i)]
      BY <3>3
    <3>5. QED
      BY <2>1, <3>4
  <2>4. QED
    BY <2>2, <2>3
<1>2. QED
  BY <1>1

\* The recursion, unfolded once.
LEMMA DoubledUnfolds ==
    ASSUME NEW s, Len(s) \in Nat
    PROVE  \A n \in 0 .. Len(s) : Doubled(s)[n] = DoubledStep(s, Doubled(s), n)
<1>1. Doubled(s) = CHOOSE f : f = [i \in 0 .. Len(s) |-> DoubledStep(s, f, i)]
  BY DEF Doubled, DoubledStep
<1>2. Doubled(s) = [i \in 0 .. Len(s) |-> DoubledStep(s, Doubled(s), i)]
  BY <1>1, DoubledExists
<1>3. QED
  BY <1>2

\* What is left of a text of which j characters are written, quotes doubled.
After(s, j) == Doubled(s)[Len(s) - j]

\* A character at a time.
LEMMA AfterNext ==
    ASSUME NEW s \in Seq(Chars)
    PROVE  /\ After(s, Len(s)) = <<>>
           /\ \A j \in 0 .. (Len(s) - 1) :
                 After(s, j) = (IF s[j + 1] = "q" THEN <<"q", "q">> ELSE <<s[j + 1]>>)
                                 \o After(s, j + 1)
<1>1. Len(s) \in Nat
  OBVIOUS
<1>2. After(s, Len(s)) = <<>>
  <2>1. Len(s) - Len(s) = 0 /\ 0 \in 0 .. Len(s)
    BY <1>1
  <2>2. Doubled(s)[0] = DoubledStep(s, Doubled(s), 0)
    BY <1>1, <2>1, DoubledUnfolds
  <2>3. QED
    BY <2>1, <2>2 DEF After, DoubledStep
<1>3. ASSUME NEW j \in 0 .. (Len(s) - 1)
      PROVE  After(s, j) = (IF s[j + 1] = "q" THEN <<"q", "q">> ELSE <<s[j + 1]>>)
                             \o After(s, j + 1)
  <2>1. PICK n : n = Len(s) - j
    OBVIOUS
  <2>2. n \in 0 .. Len(s) /\ n # 0 /\ Len(s) - n + 1 = j + 1 /\ Len(s) - (j + 1) = n - 1
    BY <1>1, <2>1
  <2>3. Doubled(s)[n] = DoubledStep(s, Doubled(s), n)
    BY <1>1, <2>2, DoubledUnfolds
  <2>4. After(s, j) = Doubled(s)[n] /\ After(s, j + 1) = Doubled(s)[n - 1]
    BY <2>1, <2>2 DEF After
  <2>5. QED
    BY <2>2, <2>3, <2>4 DEF DoubledStep
<1>4. QED
  BY <1>2, <1>3

\* Doubling the quotes of a text gives a text.
LEMMA AfterType ==
    ASSUME NEW s \in Seq(Chars)
    PROVE  \A j \in 0 .. Len(s) : After(s, j) \in Seq(Chars)
<1>1. Len(s) \in Nat
  OBVIOUS
<1> DEFINE Good(n) == After(s, Len(s) - n) \in Seq(Chars)
           Fails == {m \in Nat : m <= Len(s) /\ ~Good(m)}
<1>2. ASSUME Fails # {} PROVE FALSE
  <2>1. PICK m \in Fails : \A y \in Fails : m <= y
    BY <1>2, NatMin
  <2>2. CASE m = 0
    <3>1. Len(s) - m = Len(s)
      BY <1>1, <2>2
    <3>2. After(s, Len(s)) \in Seq(Chars)
      <4>1. After(s, Len(s)) = <<>>
        BY AfterNext
      <4>2. QED
        BY <4>1
    <3>3. QED
      BY <2>1, <3>1, <3>2
  <2>3. CASE m # 0
    <3>1. PICK j : j = Len(s) - m
      OBVIOUS
    <3>2. j \in 0 .. (Len(s) - 1) /\ j + 1 = Len(s) - (m - 1) /\ m - 1 \in Nat /\ ~(m <= m - 1)
          /\ m - 1 <= Len(s) /\ j + 1 \in 1 .. Len(s)
      BY <1>1, <2>1, <2>3, <3>1
    <3>3. Good(m - 1)
      BY <2>1, <3>2
    <3>4. PICK a : a = After(s, j + 1)
      OBVIOUS
    <3>5. a \in Seq(Chars)
      BY <3>2, <3>3, <3>4
    <3>6. s[j + 1] \in Chars /\ "q" \in Chars
      <4>1. "q" \in Chars
        BY DEF Chars, Char
      <4>2. s[j + 1] \in Chars
        BY <3>2
      <4>3. QED
        BY <4>1, <4>2
    <3>7. PICK w : w = IF s[j + 1] = "q" THEN <<"q", "q">> ELSE <<s[j + 1]>>
      OBVIOUS
    <3>8. w \in Seq(Chars)
      BY <3>6, <3>7
    <3>9. After(s, j) = w \o a
      BY <3>2, <3>4, <3>7, AfterNext
    <3>10. w \o a \in Seq(Chars)
      BY <3>5, <3>8
    <3>11. QED
      BY <2>1, <3>1, <3>9, <3>10
  <2>4. QED
    BY <2>2, <2>3
<1>3. ASSUME NEW j \in 0 .. Len(s)
      PROVE  After(s, j) \in Seq(Chars)
  <2>1. Len(s) - j \in Nat /\ Len(s) - j <= Len(s) /\ Len(s) - (Len(s) - j) = j
    BY <1>1
  <2>2. Good(Len(s) - j)
    BY <2>1, <1>2
  <2>3. QED
    BY <2>1, <2>2
<1>4. QED
  BY <1>3

\* A text that begins with a character.
LEMMA Pop ==
    ASSUME NEW x \in Chars, NEW u \in Seq(Chars), NEW v, v = <<x>> \o u
    PROVE  v \in Seq(Chars) /\ v # <<>> /\ Head(v) = x /\ Tail(v) = u
<1>1. v \in Seq(Chars) /\ Len(v) = Len(u) + 1 /\ v[1] = x /\ Len(u) \in Nat
  OBVIOUS
<1>2. v # <<>> /\ Head(v) = x
  BY <1>1
<1>3. Tail(v) = u
  <2>1. Tail(v) \in Seq(Chars) /\ Len(Tail(v)) = Len(u)
    BY <1>1, <1>2
  <2>2. \A i \in 1 .. Len(u) : Tail(v)[i] = u[i]
    BY <1>1, <1>2
  <2>3. QED
    BY <2>1, <2>2
<1>4. QED
  BY <1>1, <1>2, <1>3

\* One step of the recursion of Joined, from f.
JoinedStep(text, written, f, n) ==
    IF n = 0 THEN <<"nl">> ELSE Piece(text, written, Width - n + 1) \o f[n - 1]

\* The recursion has a solution.
LEMMA JoinedExists ==
    ASSUME NEW text, NEW written, NEW n \in Nat
    PROVE  \E f : f = [i \in 0 .. n |-> JoinedStep(text, written, f, i)]
<1> DEFINE Fails == {m \in Nat : ~ \E f : f = [i \in 0 .. m |-> JoinedStep(text, written, f, i)]}
<1>1. ASSUME Fails # {} PROVE FALSE
  <2>1. PICK m \in Fails : \A y \in Fails : m <= y
    BY <1>1, NatMin
  <2>2. CASE m = 0
    <3> DEFINE f == [i \in 0 .. 0 |-> <<"nl">>]
    <3>1. ASSUME NEW i \in 0 .. 0 PROVE JoinedStep(text, written, f, i) = <<"nl">>
      BY DEF JoinedStep
    <3>2. f = [i \in 0 .. 0 |-> JoinedStep(text, written, f, i)]
      BY <3>1
    <3>3. QED
      BY <2>1, <2>2, <3>2
  <2>3. CASE m # 0
    <3>1. m - 1 \in Nat /\ ~ (m <= m - 1)
      BY <2>1, <2>3
    <3>2. PICK f : f = [i \in 0 .. (m - 1) |-> JoinedStep(text, written, f, i)]
      BY <2>1, <3>1
    <3> DEFINE g == [i \in 0 .. m |-> IF i = m THEN JoinedStep(text, written, f, m) ELSE f[i]]
    <3>3. ASSUME NEW i \in 0 .. m PROVE g[i] = JoinedStep(text, written, g, i)
      <4>1. i # 0 => i - 1 \in 0 .. m /\ i - 1 # m
        BY <2>1
      <4>2. i # 0 => g[i - 1] = f[i - 1]
        BY <4>1
      <4>3. JoinedStep(text, written, g, i) = JoinedStep(text, written, f, i)
        <5> HIDE DEF g
        <5>1. QED
          BY <4>2 DEF JoinedStep
      <4>4. i # m => f[i] = JoinedStep(text, written, f, i)
        <5>1. i # m => i \in 0 .. (m - 1)
          BY <2>1
        <5>2. QED
          BY <3>2, <5>1
      <4>5. QED
        BY <4>3, <4>4
    <3>4. g = [i \in 0 .. m |-> JoinedStep(text, written, g, i)]
      BY <3>3
    <3>5. QED
      BY <2>1, <3>4
  <2>4. QED
    BY <2>2, <2>3
<1>2. QED
  BY <1>1

\* The recursion, unfolded once.
LEMMA JoinedUnfolds ==
    ASSUME NEW text, NEW written
    PROVE  \A n \in 0 .. Width :
             Joined(text, written)[n] = JoinedStep(text, written, Joined(text, written), n)
<1>1. Width \in Nat
  BY CsvTextAssumption
<1>2. Joined(text, written) = CHOOSE f : f = [i \in 0 .. Width |-> JoinedStep(text, written, f, i)]
  BY DEF Joined, JoinedStep
<1>3. Joined(text, written)
        = [i \in 0 .. Width |-> JoinedStep(text, written, Joined(text, written), i)]
  BY <1>1, <1>2, JoinedExists
<1>4. QED
  BY <1>3

\* What is behind the k-th of the given texts, when all of them are written.
Behind(text, k) == Joined(text, 1 .. Width)[Width - k]

\* One character is a text.
LEMMA OneChar ==
    ASSUME NEW x \in Chars
    PROVE  <<x>> \in Seq(Chars)
OBVIOUS

\* When every cell is written, only the first has no separator before it.
LEMMA PieceOfAll ==
    ASSUME NEW text, NEW k \in 0 .. (Width - 1)
    PROVE  Piece(text, 1 .. Width, k + 1) = IF k = 0 THEN text[1] ELSE <<",">> \o text[k + 1]
<1>1. Width \in Nat /\ Width >= 1
  BY CsvTextAssumption
<1>2. PICK i, w : i = k + 1 /\ w = 1 .. Width
  OBVIOUS
<1>3. i \in w /\ i - 1 = k
  BY <1>1, <1>2
<1>4. CASE k = 0
  <2>1. 1 .. (i - 1) = {}
    BY <1>3, <1>4
  <2>2. w \intersect 1 .. (i - 1) = {}
    BY <2>1
  <2>3. Piece(text, w, i) = text[i]
    BY <1>3, <2>2 DEF Piece
  <2>4. i = 1
    BY <1>2, <1>4
  <2>5. QED
    BY <1>2, <1>4, <2>3, <2>4
<1>5. CASE k # 0
  <2>1. 1 \in w /\ 1 \in 1 .. (i - 1)
    BY <1>1, <1>2, <1>3, <1>5
  <2>2. w \intersect 1 .. (i - 1) # {}
    BY <2>1
  <2>3. Piece(text, w, i) = <<",">> \o text[i]
    BY <1>3, <2>2 DEF Piece
  <2>4. QED
    BY <1>2, <1>5, <2>3
<1>6. QED
  BY <1>4, <1>5

\* A text at a time.
LEMMA BehindNext ==
    ASSUME NEW text
    PROVE  /\ Behind(text, Width) = <<"nl">>
           /\ Behind(text, 0) = text[1] \o Behind(text, 1)
           /\ \A k \in 1 .. (Width - 1) :
                 Behind(text, k) = (<<",">> \o text[k + 1]) \o Behind(text, k + 1)
<1>1. Width \in Nat /\ Width >= 1
  BY CsvTextAssumption
<1>2. Behind(text, Width) = <<"nl">>
  <2>1. Width - Width = 0 /\ 0 \in 0 .. Width
    BY <1>1
  <2>2. Joined(text, 1 .. Width)[0] = <<"nl">>
    BY <2>1, JoinedUnfolds DEF JoinedStep
  <2>3. QED
    BY <2>1, <2>2 DEF Behind
<1>3. ASSUME NEW k \in 0 .. (Width - 1)
      PROVE  Behind(text, k) = (IF k = 0 THEN text[1] ELSE <<",">> \o text[k + 1])
                                 \o Behind(text, k + 1)
  <2>1. PICK n, w : n = Width - k /\ w = 1 .. Width
    OBVIOUS
  <2>2. n \in 0 .. Width /\ n # 0 /\ Width - n + 1 = k + 1 /\ Width - (k + 1) = n - 1
        /\ k + 1 - 1 = k
    BY <1>1, <2>1
  <2>3. Joined(text, w)[n] = JoinedStep(text, w, Joined(text, w), n)
    BY <2>2, JoinedUnfolds
  <2>4. Behind(text, k) = Joined(text, w)[n] /\ Behind(text, k + 1) = Joined(text, w)[n - 1]
    BY <2>1, <2>2 DEF Behind
  <2>5. JoinedStep(text, w, Joined(text, w), n) = Piece(text, w, k + 1) \o Joined(text, w)[n - 1]
    BY <2>2 DEF JoinedStep
  <2>6. Piece(text, w, k + 1) = (IF k = 0 THEN text[1] ELSE <<",">> \o text[k + 1])
    BY <2>1, PieceOfAll
  <2>7. QED
    BY <2>3, <2>4, <2>5, <2>6
<1>4. Behind(text, 0) = text[1] \o Behind(text, 1)
  <2>1. 0 \in 0 .. (Width - 1) /\ 0 + 1 = 1
    BY <1>1
  <2>2. QED
    BY <2>1, <1>3
<1>5. ASSUME NEW k \in 1 .. (Width - 1)
      PROVE  Behind(text, k) = (<<",">> \o text[k + 1]) \o Behind(text, k + 1)
  <2>1. k \in 0 .. (Width - 1) /\ k # 0
    BY <1>1
  <2>2. QED
    BY <2>1, <1>3
<1>6. QED
  BY <1>2, <1>4, <1>5

\* What is behind a text is a text.
LEMMA BehindType ==
    ASSUME NEW text \in [1 .. Width -> Seq(Chars)]
    PROVE  \A k \in 1 .. Width : Behind(text, k) \in Seq(Chars)
<1>1. Width \in Nat /\ Width >= 1
  BY CsvTextAssumption
<1> DEFINE Good(n) == Behind(text, Width - n) \in Seq(Chars)
           Fails == {m \in Nat : m < Width /\ ~Good(m)}
<1>2. ASSUME Fails # {} PROVE FALSE
  <2>1. PICK m \in Fails : \A y \in Fails : m <= y
    BY <1>2, NatMin
  <2>2. CASE m = 0
    <3>1. Width - m = Width
      BY <1>1, <2>2
    <3>2. Behind(text, Width) \in Seq(Chars)
      <4>1. Behind(text, Width) = <<"nl">>
        BY BehindNext
      <4>2. "nl" \in Chars
        BY DEF Chars, Char
      <4>3. QED
        BY <4>1, <4>2
    <3>3. QED
      BY <2>1, <3>1, <3>2
  <2>3. CASE m # 0
    <3>1. PICK k : k = Width - m
      OBVIOUS
    <3>2. k \in 1 .. (Width - 1) /\ k + 1 = Width - (m - 1) /\ m - 1 \in Nat /\ ~(m <= m - 1)
          /\ m - 1 < Width /\ k + 1 \in 1 .. Width
      BY <1>1, <2>1, <2>3, <3>1
    <3>3. Good(m - 1)
      BY <2>1, <3>2
    <3>4. PICK b, t : b = Behind(text, k + 1) /\ t = text[k + 1]
      OBVIOUS
    <3>5. b \in Seq(Chars)
      BY <3>2, <3>3, <3>4
    <3>6. t \in Seq(Chars)
      BY <3>2, <3>4
    <3>7. "," \in Chars
      BY DEF Chars, Char
    <3>8. Behind(text, k) = (<<",">> \o t) \o b
      BY <3>2, <3>4, BehindNext
    <3>12. PICK a : a = <<",">>
      OBVIOUS
    <3>13. a \in Seq(Chars)
      BY <3>7, <3>12, OneChar
    <3>9. a \o t \in Seq(Chars)
      BY <3>6, <3>13
    <3>10. (a \o t) \o b \in Seq(Chars)
      BY <3>5, <3>9
    <3>11. QED
      BY <2>1, <3>1, <3>8, <3>10, <3>12
  <2>4. QED
    BY <2>2, <2>3
<1>3. ASSUME NEW k \in 1 .. Width
      PROVE  Behind(text, k) \in Seq(Chars)
  <2>1. Width - k \in Nat /\ Width - k < Width /\ Width - (Width - k) = k
    BY <1>1
  <2>2. Good(Width - k)
    BY <2>1, <1>2
  <2>3. QED
    BY <2>1, <2>2
<1>4. QED
  BY <1>3

\* Behind each text comes a separator and the next text, or the end of the line.
LEMMA BehindBegins ==
    ASSUME NEW text \in [1 .. Width -> Seq(Chars)], NEW k \in 1 .. Width
    PROVE  /\ k = Width => Behind(text, k) = <<"nl">> \o <<>>
           /\ k # Width => /\ k + 1 \in 1 .. Width
                           /\ text[k + 1] \o Behind(text, k + 1) \in Seq(Chars)
                           /\ Behind(text, k) = <<",">> \o (text[k + 1] \o Behind(text, k + 1))
<1>1. Width \in Nat
  BY CsvTextAssumption
<1>2. CASE k = Width
  <2>1. Behind(text, k) = <<"nl">>
    BY <1>2, BehindNext
  <2>2. <<"nl">> \o <<>> = <<"nl">>
    <3>1. "nl" \in Chars
      BY DEF Chars, Char
    <3>2. QED
      BY <3>1, ConcatEmptySeq
  <2>3. QED
    BY <2>1, <2>2, <1>2
<1>3. CASE k # Width
  <2>1. k \in 1 .. (Width - 1) /\ k + 1 \in 1 .. Width
    BY <1>1, <1>3
  <2>2. PICK a, b, c : a = <<",">> /\ b = text[k + 1] /\ c = Behind(text, k + 1)
    OBVIOUS
  <2>3. "," \in Chars
    BY DEF Chars, Char
  <2>10. a \in Seq(Chars)
    BY <2>2, <2>3, OneChar
  <2>4. a \in Seq(Chars) /\ b \in Seq(Chars)
    BY <2>1, <2>2, <2>10
  <2>5. c \in Seq(Chars)
    BY <2>1, <2>2, BehindType
  <2>6. (a \o b) \o c = a \o (b \o c)
    BY <2>4, <2>5, ConcatAssociative
  <2>7. b \o c \in Seq(Chars)
    BY <2>4, <2>5
  <2>8. Behind(text, k) = (a \o b) \o c
    BY <2>1, <2>2, BehindNext
  <2>9. QED
    BY <1>3, <2>1, <2>2, <2>6, <2>7, <2>8
<1>4. QED
  BY <1>2, <1>3


\* What is left of a text of which j characters are read, with B behind it: as it is, and
\* inside quotes.
Rest(s, j, B) == SubSeq(s, j + 1, Len(s)) \o B
QuotedRest(s, j, B) == After(s, j) \o (<<"q">> \o B)

\* The quote is a character.
LEMMA QuoteChar == "q" \in Chars
BY DEF Chars, Char

\* Joining texts is associative.
LEMMA ThreeTexts ==
    \A s, t, u \in Seq(Chars) : (s \o t) \o u = s \o (t \o u)
BY ConcatAssociative, SMTT(60)

\* The first characters of a text.
LEMMA Firsts ==
    ASSUME NEW s \in Seq(Chars)
    PROVE  /\ SubSeq(s, 1, 0) = <<>>
           /\ SubSeq(s, 1, Len(s)) = s
           /\ \A j \in 0 .. (Len(s) - 1) :
                 Append(SubSeq(s, 1, j), s[j + 1]) = SubSeq(s, 1, j + 1)
<1>1. SubSeq(s, 1, 0) = <<>> /\ SubSeq(s, 1, Len(s)) = s
  OBVIOUS
<1>2. ASSUME NEW j \in 0 .. (Len(s) - 1)
      PROVE  Append(SubSeq(s, 1, j), s[j + 1]) = SubSeq(s, 1, j + 1)
  <2>1. PICK a, b : a = Append(SubSeq(s, 1, j), s[j + 1]) /\ b = SubSeq(s, 1, j + 1)
    OBVIOUS
  <2>2. a \in Seq(Chars) /\ b \in Seq(Chars) /\ Len(a) = j + 1 /\ Len(b) = j + 1
    BY <2>1
  <2>3. \A i \in 1 .. (j + 1) : a[i] = b[i]
    BY <2>1
  <2>4. a = b
    BY <2>2, <2>3
  <2>5. QED
    BY <2>1, <2>4
<1>3. QED
  BY <1>1, <1>2

\* A plain text, a character at a time.
LEMMA RestNext ==
    ASSUME NEW s \in Seq(Chars), NEW B \in Seq(Chars)
    PROVE  /\ Rest(s, 0, B) = s \o B
           /\ Rest(s, Len(s), B) = B
           /\ \A j \in 0 .. (Len(s) - 1) :
                 /\ s[j + 1] \in Chars /\ Rest(s, j + 1, B) \in Seq(Chars)
                 /\ Rest(s, j, B) = <<s[j + 1]>> \o Rest(s, j + 1, B)
<1>1. Rest(s, 0, B) = s \o B
  <2>1. SubSeq(s, 0 + 1, Len(s)) = s
    OBVIOUS
  <2>2. QED
    BY <2>1 DEF Rest
<1>2. Rest(s, Len(s), B) = B
  <2>1. SubSeq(s, Len(s) + 1, Len(s)) = <<>>
    OBVIOUS
  <2>2. <<>> \o B = B
    BY ConcatEmptySeq
  <2>3. QED
    BY <2>1, <2>2 DEF Rest
<1>3. ASSUME NEW j \in 0 .. (Len(s) - 1)
      PROVE  /\ s[j + 1] \in Chars /\ Rest(s, j + 1, B) \in Seq(Chars)
             /\ Rest(s, j, B) = <<s[j + 1]>> \o Rest(s, j + 1, B)
  <2>1. PICK a, b, x : a = SubSeq(s, j + 1, Len(s)) /\ b = SubSeq(s, j + 2, Len(s)) /\ x = s[j + 1]
    OBVIOUS
  <2>2. a \in Seq(Chars) /\ b \in Seq(Chars) /\ x \in Chars
    BY <2>1
  <2>3. a = <<x>> \o b
    <3>1. Len(a) = Len(s) - j /\ Len(b) = Len(s) - j - 1 /\ Len(<<x>> \o b) = Len(s) - j
      BY <2>1, <2>2
    <3>2. \A i \in 1 .. (Len(s) - j) : a[i] = (<<x>> \o b)[i]
      <4>1. ASSUME NEW i \in 1 .. (Len(s) - j) PROVE a[i] = (<<x>> \o b)[i]
        <5>1. a[i] = s[j + i]
          BY <2>1
        <5>2. CASE i = 1
          BY <2>1, <5>1, <5>2, <2>2
        <5>3. CASE i # 1
          <6>1. (<<x>> \o b)[i] = b[i - 1]
            BY <2>2, <3>1, <5>3
          <6>2. b[i - 1] = s[j + i]
            BY <2>1, <5>3
          <6>3. QED
            BY <5>1, <6>1, <6>2
        <5>4. QED
          BY <5>2, <5>3
      <4>2. QED
        BY <4>1
    <3>3. <<x>> \o b \in Seq(Chars)
      BY <2>2
    <3>4. PICK c : c = <<x>> \o b
      OBVIOUS
    <3>5. c \in Seq(Chars) /\ Len(c) = Len(a) /\ \A i \in 1 .. Len(a) : a[i] = c[i]
      BY <3>1, <3>2, <3>3, <3>4
    <3>6. a = c
      BY <2>2, <3>5
    <3>7. QED
      BY <3>4, <3>6
  <2>4. <<x>> \in Seq(Chars)
    BY <2>2, OneChar
  <2>5. (<<x>> \o b) \o B = <<x>> \o (b \o B)
    BY <2>2, <2>4, ConcatAssociative
  <2>6. b \o B \in Seq(Chars)
    BY <2>2
  <2>7. j + 1 + 1 = j + 2
    OBVIOUS
  <2>8. Rest(s, j, B) = a \o B /\ Rest(s, j + 1, B) = b \o B
    BY <2>1, <2>7 DEF Rest
  <2>9. QED
    BY <2>1, <2>2, <2>3, <2>5, <2>6, <2>8
<1>4. QED
  BY <1>1, <1>2, <1>3

\* A quoted text, a character at a time.
LEMMA QuotedRestNext ==
    ASSUME NEW s \in Seq(Chars), NEW B \in Seq(Chars)
    PROVE  /\ QuotedRest(s, Len(s), B) = <<"q">> \o B
           /\ \A j \in 0 .. Len(s) : QuotedRest(s, j, B) \in Seq(Chars)
           /\ \A j \in 0 .. (Len(s) - 1) :
                 /\ s[j + 1] \in Chars
                 /\ QuotedRest(s, j, B) =
                       IF s[j + 1] = "q" THEN <<"q">> \o (<<"q">> \o QuotedRest(s, j + 1, B))
                                         ELSE <<s[j + 1]>> \o QuotedRest(s, j + 1, B)
<1>1. PICK q : q = <<"q">>
  OBVIOUS
<1>2. q \in Seq(Chars)
  BY <1>1, QuoteChar, OneChar
<1>3. PICK C : C = q \o B
  OBVIOUS
<1>4. C \in Seq(Chars)
  BY <1>2, <1>3
<1>5. QuotedRest(s, Len(s), B) = <<"q">> \o B
  <2>1. After(s, Len(s)) = <<>>
    BY AfterNext
  <2>2. <<>> \o C = C
    BY <1>4, ConcatEmptySeq
  <2>3. QED
    BY <1>1, <1>3, <2>1, <2>2 DEF QuotedRest
<1>6. ASSUME NEW j \in 0 .. Len(s)
      PROVE  QuotedRest(s, j, B) \in Seq(Chars)
  <2>1. PICK a : a = After(s, j)
    OBVIOUS
  <2>2. a \in Seq(Chars)
    BY <2>1, AfterType
  <2>3. a \o C \in Seq(Chars)
    BY <1>4, <2>2
  <2>4. QED
    BY <1>1, <1>3, <2>1, <2>3 DEF QuotedRest
<1>7. ASSUME NEW j \in 0 .. (Len(s) - 1)
      PROVE  /\ s[j + 1] \in Chars
             /\ QuotedRest(s, j, B) =
                   IF s[j + 1] = "q" THEN <<"q">> \o (<<"q">> \o QuotedRest(s, j + 1, B))
                                     ELSE <<s[j + 1]>> \o QuotedRest(s, j + 1, B)
  <2>1. PICK a, x : a = After(s, j + 1) /\ x = s[j + 1]
    OBVIOUS
  <2>2. x \in Chars /\ j + 1 \in 0 .. Len(s)
    BY <2>1
  <2>3. a \in Seq(Chars)
    BY <2>1, <2>2, AfterType
  <2>4. QuotedRest(s, j + 1, B) = a \o C
    BY <1>1, <1>3, <2>1 DEF QuotedRest
  <2>5. QuotedRest(s, j, B) = ((IF x = "q" THEN <<"q", "q">> ELSE <<x>>) \o a) \o C
    <3>1. After(s, j) = (IF x = "q" THEN <<"q", "q">> ELSE <<x>>) \o a
      BY <2>1, AfterNext
    <3>2. QED
      BY <1>1, <1>3, <3>1 DEF QuotedRest
  <2>6. <<x>> \in Seq(Chars)
    BY <2>2, OneChar
  <2>7. (<<x>> \o a) \o C = <<x>> \o (a \o C)
    BY <1>4, <2>3, <2>6, ConcatAssociative
  <2>8. (<<"q", "q">> \o a) \o C = <<"q">> \o (<<"q">> \o (a \o C))
    <3>1. PICK w, d : w = q \o q /\ d = a \o C
      OBVIOUS
    <3>2. w \in Seq(Chars) /\ d \in Seq(Chars)
      BY <1>2, <1>4, <2>3, <3>1
    <3>7. w \in Seq(Chars) /\ a \in Seq(Chars) /\ C \in Seq(Chars)
      BY <1>4, <2>3, <3>2
    <3>3. (w \o a) \o C = w \o (a \o C)
      BY <3>7, ThreeTexts, SMTT(90)
    <3>8. q \in Seq(Chars) /\ d \in Seq(Chars)
      BY <1>2, <3>2
    <3>4. (q \o q) \o d = q \o (q \o d)
      BY <3>8, ThreeTexts, SMTT(90)
    <3>5. <<"q", "q">> = w
      BY <1>1, <3>1
    <3>6. QED
      BY <1>1, <3>1, <3>3, <3>4, <3>5, Zenon
  <2>9. CASE x = "q"
    BY <2>1, <2>2, <2>4, <2>5, <2>8, <2>9
  <2>10. CASE x # "q"
    BY <2>1, <2>2, <2>4, <2>5, <2>7, <2>10
  <2>11. QED
    BY <2>9, <2>10
<1>8. QED
  BY <1>5, <1>6, <1>7

\* The text of a value as the encoder has it before it quotes it.
Raw(c) == IF c.value = Null THEN <<>>
          ELSE IF c.column = "plain" /\ c.value.type = "bytes" THEN FormatBinaryData
          ELSE Sprint(c.value)

\* The four kinds of values.
LEMMA CellValues ==
    ASSUME NEW c \in Cell
    PROVE  /\ c.column \in Column
           /\ c.column = "system" => c.value = Number
           /\ \/ c.value = Null /\ c.value.type = "null"
              \/ c.value = Bytes /\ c.value.type = "bytes"
              \/ c.value = Number /\ c.value.type = "number"
              \/ \E s \in Seq(Char) : c.value = Text(s) /\ c.value.type = "string" /\ c.value.text = s
<1>1. c.column \in Column /\ c.value \in Value /\ (c.column = "system" => c.value = Number)
  BY DEF Cell
<1>2. CASE c.value \in {Null, Bytes, Number}
  BY <1>1, <1>2 DEF Null, Bytes, Number
<1>3. CASE c.value \in {Text(s) : s \in BoundedSeq(Char, MaxText)}
  <2>1. PICK s \in BoundedSeq(Char, MaxText) : c.value = Text(s)
    BY <1>3
  <2>2. s \in Seq(Char)
    <3>1. PICK m \in 0 .. MaxText : s \in [1 .. m -> Char]
      BY <2>1 DEF BoundedSeq, SeqOf
    <3>2. m \in Nat
      BY <3>1
    <3>3. QED
      BY <3>1, <3>2
  <2>3. c.value.type = "string" /\ c.value.text = s
    BY <2>1 DEF Text
  <2>4. QED
    BY <1>1, <2>1, <2>2, <2>3
<1>4. QED
  BY <1>1, <1>2, <1>3 DEF Value

\* The texts the program makes of values that are not strings.
LEMMA Atoms ==
    /\ \A x \in {"[..]", "0", "\\x.."} : <<x>> \in Seq(Chars) /\ <<x>> # <<>> /\ ~Special(<<x>>)
    /\ <<>> \in Seq(Chars) /\ ~Special(<<>>)
<1>1. ASSUME NEW x \in {"[..]", "0", "\\x.."}
      PROVE  <<x>> \in Seq(Chars) /\ <<x>> # <<>> /\ ~Special(<<x>>)
  <2>1. x \in Chars
    BY DEF Chars
  <2>2. <<x>> \in Seq(Chars) /\ <<x>> # <<>> /\ DOMAIN <<x>> = {1} /\ <<x>>[1] = x
    BY <2>1
  <2>3. x \notin {",", "q", "nl"}
    OBVIOUS
  <2>4. QED
    BY <2>2, <2>3 DEF Special
<1>2. <<>> \in Seq(Chars) /\ ~Special(<<>>)
  BY DEF Special
<1>3. QED
  BY <1>1, <1>2

\* What Sprint makes of the values.
LEMMA Sprints ==
    /\ Sprint(Bytes) = <<"[..]">> /\ Sprint(Number) = <<"0">>
    /\ \A s : Sprint(Text(s)) = s
<1>1. Bytes.type = "bytes" /\ Number.type = "number" /\ \A s : Text(s).type = "string" /\ Text(s).text = s
  BY DEF Bytes, Number, Text
<1>2. QED
  BY <1>1 DEF Sprint

\* The text of a value is a text.
LEMMA RawText ==
    ASSUME NEW c \in Cell
    PROVE  Raw(c) \in Seq(Chars)
<1>1. CASE c.value = Null
  BY <1>1, Atoms DEF Raw
<1>2. CASE c.value = Bytes /\ c.value # Null
  <2>1. Raw(c) = <<"[..]">> \/ Raw(c) = <<"\\x..">>
    BY <1>2, Sprints DEF Raw, FormatBinaryData
  <2>2. QED
    BY <2>1, Atoms
<1>3. CASE c.value = Number /\ c.value # Null
  <2>1. c.value.type = "number"
    BY <1>3 DEF Number
  <2>2. Raw(c) = <<"0">>
    BY <1>3, <2>1, Sprints DEF Raw
  <2>3. QED
    BY <2>2, Atoms
<1>4. CASE c.value # Null /\ \E s \in Seq(Char) : c.value = Text(s) /\ c.value.type = "string"
  <2>1. PICK s \in Seq(Char) : c.value = Text(s) /\ c.value.type = "string"
    BY <1>4
  <2>2. Raw(c) = s
    BY <1>4, <2>1, Sprints DEF Raw
  <2>3. s \in Seq(Chars)
    <3>1. Char \subseteq Chars
      BY DEF Chars
    <3>2. QED
      BY <3>1
  <2>4. QED
    BY <2>2, <2>3
<1>5. QED
  BY <1>1, <1>2, <1>3, <1>4, CellValues

\* A value formatRowForCSV writes is its text, escaped.
LEMMA FormattedRaw ==
    ASSUME NEW c \in Cell
    PROVE  FormatValue(c) = EscapeCSVValue(Raw(c))
<1>1. ASSUME NEW x \in {"[..]", "0", "\\x.."} PROVE EscapeCSVValue(<<x>>) = <<x>>
  BY Atoms DEF EscapeCSVValue
<1>2. EscapeCSVValue(<<>>) = <<>>
  BY Atoms DEF EscapeCSVValue
<1>3. CASE c.value = Null
  <2>4. c.value.type = "null"
    BY <1>3 DEF Null
  <2>1. FormatValue(c) = <<>>
    BY <1>3, <2>4 DEF FormatValue
  <2>2. Raw(c) = <<>>
    BY <1>3 DEF Raw
  <2>3. QED
    BY <1>2, <2>1, <2>2
<1>4. CASE c.value # Null /\ c.value = Number
  <2>1. c.value.type = "number"
    BY <1>4 DEF Number
  <2>2. Raw(c) = <<"0">> /\ Sprint(c.value) = <<"0">>
    BY <1>4, <2>1, Sprints DEF Raw
  <2>3. FormatValue(c) = Sprint(c.value) \/ FormatValue(c) = EscapeCSVValue(Sprint(c.value))
    BY <1>4, <2>1 DEF FormatValue
  <2>4. QED
    BY <1>1, <2>2, <2>3
<1>5. CASE c.value # Null /\ c.value = Bytes
  <2>1. c.value.type = "bytes" /\ c.column \in Column /\ c.column # "system"
    <3>1. c.value.type = "bytes" /\ c.value # Number
      BY <1>5 DEF Bytes, Number
    <3>2. QED
      BY <3>1, CellValues
  <2>2. CASE c.column = "plain"
    <3>1. FormatValue(c) = FormatBinaryData /\ Raw(c) = FormatBinaryData
      BY <1>5, <2>1, <2>2 DEF FormatValue, Raw
    <3>2. QED
      BY <1>1, <3>1 DEF FormatBinaryData
  <2>3. CASE c.column # "plain"
    <3>1. c.column \in {"suffix_id", "parent"}
      BY <2>1, <2>3 DEF Column
    <3>2. FormatValue(c) = EscapeCSVValue(Sprint(c.value))
      BY <1>5, <2>1, <3>1 DEF FormatValue
    <3>3. Raw(c) = Sprint(c.value)
      BY <1>5, <2>3 DEF Raw
    <3>4. QED
      BY <3>2, <3>3
  <2>4. QED
    BY <2>2, <2>3
<1>6. CASE c.value # Null /\ \E s \in Seq(Char) : c.value = Text(s) /\ c.value.type = "string" /\ c.value.text = s
  <2>1. PICK s \in Seq(Char) : c.value = Text(s) /\ c.value.type = "string" /\ c.value.text = s
    BY <1>6
  <2>2. c.column \in Column /\ c.column # "system"
    <3>1. c.value # Number
      BY <2>1 DEF Number
    <3>2. QED
      BY <3>1, CellValues
  <2>3. Raw(c) = s /\ Sprint(c.value) = s
    BY <1>6, <2>1, Sprints DEF Raw
  <2>4. FormatValue(c) = EscapeCSVValue(s)
    <3>1. CASE c.column \in {"suffix_id", "parent"}
      BY <1>6, <2>2, <2>3, <3>1 DEF FormatValue
    <3>2. CASE c.column = "plain"
      BY <1>6, <2>1, <3>2 DEF FormatValue
    <3>3. QED
      BY <2>2, <3>1, <3>2 DEF Column
  <2>5. QED
    BY <2>3, <2>4
<1>7. QED
  BY <1>3, <1>4, <1>5, <1>6, CellValues

\* The field the reader should make of a cell.
FieldOf(c) == [text |-> Raw(c), quoted |-> Special(Raw(c))]

\* That field is the value, when the encoder covers the cell.
LEMMA CoveredDecodes ==
    ASSUME NEW c \in Cell, Covered(c)
    PROVE  Decoded(FieldOf(c)) = Meant(c)
<1>1. PICK f : f = FieldOf(c)
  OBVIOUS
<1>2. f.text = Raw(c) /\ f.quoted = Special(Raw(c))
  BY <1>1 DEF FieldOf
<1>3. CASE c.value = Null
  <2>1. f.text = <<>> /\ ~f.quoted
    BY <1>2, <1>3, Atoms DEF Raw
  <2>2. Decoded(f) = Null
    BY <2>1 DEF Decoded
  <2>5. c.value.type = "null"
    BY <1>3 DEF Null
  <2>3. Meant(c) = Null
    BY <1>3, <2>5 DEF Meant
  <2>4. QED
    BY <1>1, <2>2, <2>3
<1>4. CASE c.value # Null /\ c.value = Number
  <2>1. c.value.type = "number"
    BY <1>4 DEF Number
  <2>2. f.text = <<"0">>
    BY <1>2, <1>4, <2>1, Sprints DEF Raw
  <2>3. Decoded(f) = Text(<<"0">>)
    BY <2>2 DEF Decoded
  <2>4. Meant(c) = Text(<<"0">>)
    BY <1>4, <2>1 DEF Meant
  <2>5. QED
    BY <1>1, <2>3, <2>4
<1>5. CASE c.value # Null /\ c.value = Bytes
  <2>1. c.value.type = "bytes"
    BY <1>5 DEF Bytes
  <2>2. c.column = "plain"
    BY <1>5, <2>1 DEF Covered
  <2>3. f.text = FormatBinaryData
    BY <1>2, <1>5, <2>1, <2>2 DEF Raw
  <2>4. Decoded(f) = Text(FormatBinaryData)
    BY <2>3 DEF Decoded, FormatBinaryData
  <2>5. Meant(c) = Text(FormatBinaryData)
    BY <1>5, <2>1 DEF Meant
  <2>6. QED
    BY <1>1, <2>4, <2>5
<1>6. CASE c.value # Null /\ \E s \in Seq(Char) : c.value = Text(s) /\ c.value.type = "string" /\ c.value.text = s
  <2>1. PICK s \in Seq(Char) : c.value = Text(s) /\ c.value.type = "string" /\ c.value.text = s
    BY <1>6
  <2>2. s # <<>>
    BY <2>1 DEF Covered
  <2>3. f.text = s
    BY <1>2, <1>6, <2>1, Sprints DEF Raw
  <2>4. Decoded(f) = Text(s)
    BY <2>2, <2>3 DEF Decoded
  <2>5. Meant(c) = Text(s)
    BY <1>6, <2>1 DEF Meant
  <2>6. QED
    BY <1>1, <2>4, <2>5
<1>7. QED
  BY <1>3, <1>4, <1>5, <1>6, CellValues

\* CSVEncode writes the texts it covers as formatRowForCSV would.
LEMMA PlainRaw ==
    ASSUME NEW c \in Cell, Covered(c), encoder = "CSVEncode"
    PROVE  c.value # Null /\ Sprint(c.value) = EscapeCSVValue(Raw(c))
<1>1. c.value.type = "string" /\ Range(c.value.text) = {"a"}
  BY DEF Covered
<1>2. c.value # Null /\ c.value # Bytes /\ c.value # Number
  BY <1>1 DEF Null, Bytes, Number
<1>3. PICK s \in Seq(Char) : c.value = Text(s) /\ c.value.type = "string" /\ c.value.text = s
  BY <1>2, CellValues
<1>4. Raw(c) = s /\ Sprint(c.value) = s
  BY <1>2, <1>3, Sprints DEF Raw
<1>5. ASSUME NEW i \in DOMAIN s PROVE s[i] \notin {",", "q", "nl"}
  <2>1. s[i] \in Range(s)
    BY DEF Range
  <2>2. s[i] = "a"
    BY <1>1, <1>3, <2>1
  <2>3. QED
    BY <2>2
<1>6. EscapeCSVValue(s) = s
  BY <1>5 DEF EscapeCSVValue, Special
<1>7. QED
  BY <1>2, <1>4, <1>6

-----------------------------------------------------------------------------
(* The reader on one cell.                                                 *)

\* The reader is in a cell of text s, with B behind it: in a text without quotes around it,
\* before the opening quote, between the quotes, between the two quotes of a pair, or behind
\* the closing quote.
Unquoted(s, B) == /\ ~Special(s) /\ mode = "plain" /\ quoted = FALSE
                  /\ \E j \in 0 .. Len(s) : field = SubSeq(s, 1, j) /\ line = Rest(s, j, B)
Opening(s, B) == /\ Special(s) /\ mode = "plain" /\ quoted = FALSE
                 /\ field = <<>> /\ line = <<"q">> \o QuotedRest(s, 0, B)
Inside(s, B) == /\ Special(s) /\ mode = "quoted" /\ quoted = TRUE
                /\ \E j \in 0 .. Len(s) : field = SubSeq(s, 1, j) /\ line = QuotedRest(s, j, B)
Paired(s, B) == /\ Special(s) /\ mode = "closing" /\ quoted = TRUE
                /\ \E j \in 0 .. (Len(s) - 1) :
                      /\ s[j + 1] = "q" /\ field = SubSeq(s, 1, j)
                      /\ line = <<"q">> \o QuotedRest(s, j + 1, B)
Closed(s, B) == /\ Special(s) /\ mode = "closing" /\ quoted = TRUE
                /\ field = s /\ line = B
AtCell(s, B) == Unquoted(s, B) \/ Opening(s, B) \/ Inside(s, B) \/ Paired(s, B) \/ Closed(s, B)

\* The reader leaves the cell: its field is the text, and x the character behind it.
Leaves(s, x, u) == /\ EndField /\ field = s /\ quoted = Special(s)
                   /\ Head(line) = x /\ Tail(line) = u

\* What the reader does with the next character.
LEMMA Reads ==
    ASSUME TextNext, line # <<>>, mode \in {"plain", "quoted", "closing"}
    PROVE  /\ mode = "plain" /\ Head(line) \notin {",", "nl", "q"} => ReadChar
           /\ mode \in {"plain", "closing"} /\ Head(line) \in {",", "nl"} => EndField
           /\ mode = "plain" /\ Head(line) = "q" => OpenQuote
           /\ mode = "quoted" => ReadQuoted
           /\ mode = "closing" /\ Head(line) = "q" => DoubledQuote
BY DEF TextNext, Encode, ReadChar, EndField, OpenQuote, ReadQuoted, DoubledQuote, EndOfFile, TextEnded

\* The first character and the others.
LEMMA TakeOff ==
    ASSUME NEW x \in Chars, NEW u \in Seq(Chars), line = <<x>> \o u
    PROVE  line # <<>> /\ Head(line) = x /\ Tail(line) = u
BY Pop

\* A reader that starts on an escaped text is in the cell.
LEMMA CellStarts ==
    ASSUME NEW s \in Seq(Chars), NEW B \in Seq(Chars), mode' = "plain", quoted' = FALSE,
           field' = <<>>, line' = EscapeCSVValue(s) \o B
    PROVE  AtCell(s, B)'
<1>1. CASE Special(s)
  <2>1. PICK q, a : q = <<"q">> /\ a = After(s, 0)
    OBVIOUS
  <2>2. q \in Seq(Chars) /\ a \in Seq(Chars) /\ Len(s) - 0 = Len(s)
    <3>1. 0 \in 0 .. Len(s) /\ Len(s) - 0 = Len(s)
      OBVIOUS
    <3>2. q \in Seq(Chars)
      BY <2>1, QuoteChar, OneChar
    <3>3. a \in Seq(Chars)
      BY <2>1, <3>1, AfterType
    <3>4. QED
      BY <3>1, <3>2, <3>3
  <2>3. line' = ((q \o a) \o q) \o B
    BY <1>1, <2>1, <2>2 DEF EscapeCSVValue, After
  <2>4. q \o a \in Seq(Chars) /\ q \o B \in Seq(Chars)
    BY <2>2
  <2>9. PICK v, w : v = q \o a /\ w = q \o B
    OBVIOUS
  <2>10. q \in Seq(Chars) /\ a \in Seq(Chars) /\ v \in Seq(Chars) /\ w \in Seq(Chars)
    BY <2>2, <2>4, <2>9
  <2>5. (v \o q) \o B = v \o (q \o B)
    BY <2>10, ThreeTexts, SMTT(90)
  <2>6. (q \o a) \o w = q \o (a \o w)
    BY <2>10, ThreeTexts, SMTT(90)
  <2>7. line' = <<"q">> \o QuotedRest(s, 0, B)
    BY <2>1, <2>3, <2>5, <2>6, <2>9 DEF QuotedRest
  <2>8. QED
    BY <1>1, <2>7 DEF AtCell, Opening
<1>2. CASE ~Special(s)
  <2>1. line' = Rest(s, 0, B)
    BY <1>2, RestNext DEF EscapeCSVValue
  <2>2. 0 \in 0 .. Len(s) /\ field' = SubSeq(s, 1, 0)
    BY Firsts
  <2>3. QED
    BY <1>2, <2>1, <2>2 DEF AtCell, Unquoted
<1>3. QED
  BY <1>1, <1>2

\* Before the last character of a text.
LEMMA WithinText ==
    ASSUME NEW s \in Seq(Chars), NEW j \in 0 .. Len(s), j # Len(s)
    PROVE  j \in 0 .. (Len(s) - 1) /\ j + 1 \in 0 .. Len(s) /\ j + 1 \in DOMAIN s
<1>1. PICK n : n = Len(s)
  OBVIOUS
<1>2. n \in Nat /\ DOMAIN s = 1 .. n
  BY <1>1
<1>3. j \in 0 .. n /\ j # n
  BY <1>1
<1>4. j \in 0 .. (n - 1) /\ j + 1 \in 0 .. n /\ j + 1 \in 1 .. n
  BY <1>2, <1>3
<1>5. QED
  BY <1>1, <1>2, <1>4

\* A text without quotes around it.
LEMMA UnquotedStep ==
    ASSUME NEW s \in Seq(Chars), NEW x \in {",", "nl"}, NEW u \in Seq(Chars),
           NEW B \in Seq(Chars), B = <<x>> \o u, TextNext, Unquoted(s, B)
    PROVE  \/ Unquoted(s, B)' /\ UNCHANGED <<encoder, row, fields, loaded>>
           \/ Leaves(s, x, u)
<1>1. PICK j \in 0 .. Len(s) : field = SubSeq(s, 1, j) /\ line = Rest(s, j, B)
  BY DEF Unquoted
<1>2. ~Special(s) /\ mode = "plain" /\ quoted = FALSE
  BY DEF Unquoted
<1>3. CASE j = Len(s)
  <2>1. line = <<x>> \o u /\ field = s
    BY <1>1, <1>3, RestNext, Firsts
  <2>2. x \in Chars
    BY DEF Chars, Char
  <2>3. line # <<>> /\ Head(line) = x /\ Tail(line) = u
    BY <2>1, <2>2, TakeOff
  <2>4. EndField
    BY <1>2, <2>3, Reads
  <2>5. quoted = Special(s)
    BY <1>2 DEF Special
  <2>6. QED
    BY <2>1, <2>3, <2>4, <2>5 DEF Leaves
<1>4. CASE j # Len(s)
  <2>1. j \in 0 .. (Len(s) - 1) /\ j + 1 \in 0 .. Len(s) /\ j + 1 \in DOMAIN s
    BY <1>4, WithinText
  <2>2. PICK y, r : y = s[j + 1] /\ r = Rest(s, j + 1, B)
    OBVIOUS
  <2>3. y \in Chars /\ r \in Seq(Chars) /\ line = <<y>> \o r
    BY <1>1, <2>1, <2>2, RestNext
  <2>4. line # <<>> /\ Head(line) = y /\ Tail(line) = r
    BY <2>3, TakeOff
  <2>5. y \notin {",", "nl", "q"}
    BY <1>2, <2>1, <2>2 DEF Special
  <2>6. ReadChar
    BY <1>2, <2>4, <2>5, Reads
  <2>7. field' = Append(field, y) /\ line' = r /\ mode' = "plain"
        /\ UNCHANGED <<encoder, row, quoted, fields, loaded>>
    BY <2>4, <2>6 DEF ReadChar
  <2>8. field' = SubSeq(s, 1, j + 1)
    BY <1>1, <2>1, <2>2, <2>7, Firsts
  <2>9. Unquoted(s, B)'
    BY <1>2, <2>1, <2>2, <2>7, <2>8 DEF Unquoted
  <2>10. QED
    BY <2>7, <2>9
<1>5. QED
  BY <1>3, <1>4

\* The opening quote.
LEMMA OpeningStep ==
    ASSUME NEW s \in Seq(Chars), NEW B \in Seq(Chars), TextNext, Opening(s, B)
    PROVE  Inside(s, B)' /\ UNCHANGED <<encoder, row, fields, loaded>>
<1>1. PICK r : r = QuotedRest(s, 0, B)
  OBVIOUS
<1>2. 0 \in 0 .. Len(s)
  OBVIOUS
<1>3. r \in Seq(Chars) /\ line = <<"q">> \o r
  BY <1>1, <1>2, QuotedRestNext DEF Opening
<1>4. line # <<>> /\ Head(line) = "q" /\ Tail(line) = r
  BY <1>3, QuoteChar, TakeOff
<1>5. OpenQuote
  BY <1>4, Reads DEF Opening
<1>6. field' = field /\ line' = r /\ mode' = "quoted" /\ quoted' = TRUE
      /\ UNCHANGED <<encoder, row, fields, loaded>>
  BY <1>4, <1>5 DEF OpenQuote
<1>7. field' = SubSeq(s, 1, 0) /\ Special(s)
  BY <1>6, Firsts DEF Opening
<1>8. Inside(s, B)'
  BY <1>1, <1>2, <1>6, <1>7 DEF Inside
<1>9. QED
  BY <1>6, <1>8

\* Between the quotes.
LEMMA InsideStep ==
    ASSUME NEW s \in Seq(Chars), NEW B \in Seq(Chars), TextNext, Inside(s, B)
    PROVE  (Inside(s, B) \/ Paired(s, B) \/ Closed(s, B))'
           /\ UNCHANGED <<encoder, row, fields, loaded>>
<1>1. PICK j \in 0 .. Len(s) : field = SubSeq(s, 1, j) /\ line = QuotedRest(s, j, B)
  BY DEF Inside
<1>2. Special(s) /\ mode = "quoted" /\ quoted = TRUE
  BY DEF Inside
<1>3. CASE j = Len(s)
  <2>1. line = <<"q">> \o B /\ field = s
    BY <1>1, <1>3, QuotedRestNext, Firsts
  <2>2. line # <<>> /\ Head(line) = "q" /\ Tail(line) = B
    BY <2>1, QuoteChar, TakeOff
  <2>3. ReadQuoted
    BY <1>2, <2>2, Reads
  <2>4. field' = s /\ line' = B /\ mode' = "closing"
        /\ UNCHANGED <<encoder, row, quoted, fields, loaded>>
    BY <2>1, <2>2, <2>3 DEF ReadQuoted
  <2>5. Closed(s, B)'
    BY <1>2, <2>4 DEF Closed
  <2>6. QED
    BY <2>4, <2>5
<1>4. CASE j # Len(s)
  <2>1. j \in 0 .. (Len(s) - 1) /\ j + 1 \in 0 .. Len(s)
    BY <1>4
  <2>2. PICK y, r : y = s[j + 1] /\ r = QuotedRest(s, j + 1, B)
    OBVIOUS
  <2>3. y \in Chars /\ r \in Seq(Chars)
    BY <2>1, <2>2, QuotedRestNext
  <2>4. CASE y = "q"
    <3>1. PICK v : v = <<"q">> \o r
      OBVIOUS
    <3>2. v \in Seq(Chars)
      BY <2>3, <3>1, QuoteChar, Pop
    <3>9. s[j + 1] = "q"
      BY <2>2, <2>4
    <3>10. QuotedRest(s, j, B) = <<"q">> \o (<<"q">> \o QuotedRest(s, j + 1, B))
      BY <2>1, <3>9, QuotedRestNext
    <3>3. line = <<"q">> \o v
      BY <1>1, <2>2, <3>1, <3>10
    <3>4. line # <<>> /\ Head(line) = "q" /\ Tail(line) = v
      BY <3>2, <3>3, QuoteChar, TakeOff
    <3>5. ReadQuoted
      BY <1>2, <3>4, Reads
    <3>6. field' = field /\ line' = v /\ mode' = "closing"
          /\ UNCHANGED <<encoder, row, quoted, fields, loaded>>
      BY <3>4, <3>5 DEF ReadQuoted
    <3>7. Paired(s, B)'
      BY <1>1, <1>2, <2>1, <2>2, <2>4, <3>1, <3>6 DEF Paired
    <3>8. QED
      BY <3>6, <3>7
  <2>5. CASE y # "q"
    <3>1. line = <<y>> \o r
      BY <1>1, <2>1, <2>2, <2>5, QuotedRestNext
    <3>2. line # <<>> /\ Head(line) = y /\ Tail(line) = r
      BY <2>3, <3>1, TakeOff
    <3>3. ReadQuoted
      BY <1>2, <3>2, Reads
    <3>4. field' = Append(field, y) /\ line' = r /\ mode' = "quoted"
          /\ UNCHANGED <<encoder, row, quoted, fields, loaded>>
      BY <2>5, <3>2, <3>3 DEF ReadQuoted
    <3>5. field' = SubSeq(s, 1, j + 1)
      BY <1>1, <2>1, <2>2, <3>4, Firsts
    <3>6. Inside(s, B)'
      BY <1>2, <2>1, <2>2, <3>4, <3>5 DEF Inside
    <3>7. QED
      BY <3>4, <3>6
  <2>6. QED
    BY <2>4, <2>5
<1>5. QED
  BY <1>3, <1>4

\* Between the two quotes of a pair.
LEMMA PairedStep ==
    ASSUME NEW s \in Seq(Chars), NEW B \in Seq(Chars), TextNext, Paired(s, B)
    PROVE  Inside(s, B)' /\ UNCHANGED <<encoder, row, fields, loaded>>
<1>1. PICK j \in 0 .. (Len(s) - 1) :
         /\ s[j + 1] = "q" /\ field = SubSeq(s, 1, j)
         /\ line = <<"q">> \o QuotedRest(s, j + 1, B)
  BY DEF Paired
<1>2. Special(s) /\ mode = "closing" /\ quoted = TRUE
  BY DEF Paired
<1>3. j + 1 \in 0 .. Len(s)
  OBVIOUS
<1>4. PICK r : r = QuotedRest(s, j + 1, B)
  OBVIOUS
<1>5. r \in Seq(Chars) /\ line = <<"q">> \o r
  BY <1>1, <1>3, <1>4, QuotedRestNext
<1>6. line # <<>> /\ Head(line) = "q" /\ Tail(line) = r
  BY <1>5, QuoteChar, TakeOff
<1>7. DoubledQuote
  BY <1>2, <1>6, Reads
<1>8. field' = Append(field, "q") /\ line' = r /\ mode' = "quoted"
      /\ UNCHANGED <<encoder, row, quoted, fields, loaded>>
  BY <1>6, <1>7 DEF DoubledQuote
<1>9. field' = SubSeq(s, 1, j + 1)
  BY <1>1, <1>8, Firsts
<1>10. Inside(s, B)'
  BY <1>2, <1>3, <1>4, <1>8, <1>9 DEF Inside
<1>11. QED
  BY <1>8, <1>10

\* A step in a cell stays in it or ends it.
LEMMA CellStep ==
    ASSUME NEW s \in Seq(Chars), NEW x \in {",", "nl"}, NEW u \in Seq(Chars),
           NEW B \in Seq(Chars), B = <<x>> \o u, TextNext, AtCell(s, B)
    PROVE  \/ AtCell(s, B)' /\ UNCHANGED <<encoder, row, fields, loaded>>
           \/ Leaves(s, x, u)
<1>1. CASE Unquoted(s, B)
  BY <1>1, UnquotedStep DEF AtCell
<1>2. CASE Opening(s, B)
  BY <1>2, OpeningStep DEF AtCell
<1>3. CASE Inside(s, B)
  BY <1>3, InsideStep DEF AtCell
<1>4. CASE Paired(s, B)
  BY <1>4, PairedStep DEF AtCell
<1>5. CASE Closed(s, B)
  <2>1. Special(s) /\ mode = "closing" /\ quoted = TRUE /\ field = s /\ line = <<x>> \o u
    BY <1>5 DEF Closed
  <2>2. x \in Chars
    BY DEF Chars, Char
  <2>3. line # <<>> /\ Head(line) = x /\ Tail(line) = u
    BY <2>1, <2>2, TakeOff
  <2>4. EndField
    BY <2>1, <2>3, Reads
  <2>5. QED
    BY <2>1, <2>3, <2>4 DEF Leaves
<1>6. QED
  BY <1>1, <1>2, <1>3, <1>4, <1>5 DEF AtCell

-----------------------------------------------------------------------------
(* The reader on the row.                                                  *)

\* The texts of the cells as the encoder writes them, and the fields of the first k of them as
\* they should be read.
Texts == [i \in 1 .. Width |-> EscapeCSVValue(Raw(row[i]))]
LineFields(k) == [i \in 1 .. k |-> FieldOf(row[i])]

\* CSVEncode has a row it covers.
Proper == encoder = "CSVEncode" => \A i \in DOMAIN row : Covered(row[i])

\* Before the row is written; in the k-th of its cells; and when it has been read.
NotRead == mode = "encoding" /\ field = <<>> /\ quoted = FALSE /\ fields = <<>> /\ loaded = <<>>
InRow(k) == /\ fields = LineFields(k - 1) /\ loaded = <<>>
            /\ AtCell(Raw(row[k]), Behind(Texts, k))
RowRead == /\ mode \in {"plain", "end"} /\ line = <<>> /\ field = <<>>
           /\ fields = <<>> /\ loaded = <<LineFields(Width)>>

\* What TextSpec keeps true.
TextInv == /\ row \in [1 .. Width -> Cell]
           /\ Proper => NotRead \/ (\E k \in 1 .. Width : InRow(k)) \/ RowRead

\* The texts are texts.
LEMMA TextsType ==
    ASSUME row \in [1 .. Width -> Cell]
    PROVE  Texts \in [1 .. Width -> Seq(Chars)]
<1>1. ASSUME NEW i \in 1 .. Width PROVE EscapeCSVValue(Raw(row[i])) \in Seq(Chars)
  <2>1. PICK s : s = Raw(row[i])
    OBVIOUS
  <2>2. s \in Seq(Chars)
    BY <2>1, RawText
  <2>3. CASE Special(s)
    <3>1. PICK q, a : q = <<"q">> /\ a = Doubled(s)[Len(s)]
      OBVIOUS
    <3>2. 0 \in 0 .. Len(s) /\ Len(s) - 0 = Len(s)
      BY <2>2
    <3>3. a \in Seq(Chars)
      BY <2>2, <3>1, <3>2, AfterType DEF After
    <3>4. q \in Seq(Chars)
      BY <3>1, QuoteChar, OneChar
    <3>5. (q \o a) \o q \in Seq(Chars)
      BY <3>3, <3>4
    <3>6. EscapeCSVValue(s) = (q \o a) \o q
      BY <2>3, <3>1 DEF EscapeCSVValue
    <3>7. QED
      BY <2>1, <3>5, <3>6
  <2>4. CASE ~Special(s)
    BY <2>1, <2>2, <2>4 DEF EscapeCSVValue
  <2>5. QED
    BY <2>3, <2>4
<1>2. QED
  BY <1>1 DEF Texts

\* Both encoders write the texts one behind the other.
LEMMA RowWritten ==
    ASSUME row \in [1 .. Width -> Cell], Proper
    PROVE  (IF encoder = "CSVEncode" THEN CSVEncode(row) ELSE FormatRowForCSV(row))
             = Texts[1] \o Behind(Texts, 1)
<1>1. DOMAIN row = 1 .. Width /\ Width \in Nat
  BY CsvTextAssumption
<1>2. Behind(Texts, 0) = Joined(Texts, 1 .. Width)[Width]
  <2>1. Width - 0 = Width
    BY <1>1
  <2>2. QED
    BY <2>1 DEF Behind
<1>3. FormatRowForCSV(row) = Joined(Texts, 1 .. Width)[Width]
  <2>1. \A i \in 1 .. Width : FormatValue(row[i]) = EscapeCSVValue(Raw(row[i]))
    BY FormattedRaw
  <2>2. [i \in DOMAIN row |-> FormatValue(row[i])] = Texts
    BY <1>1, <2>1 DEF Texts
  <2>3. QED
    BY <1>1, <2>2 DEF FormatRowForCSV
<1>4. ASSUME encoder = "CSVEncode" PROVE CSVEncode(row) = Joined(Texts, 1 .. Width)[Width]
  <2>1. ASSUME NEW i \in 1 .. Width
        PROVE  row[i].value # Null /\ Sprint(row[i].value) = EscapeCSVValue(Raw(row[i]))
    <3>1. row[i] \in Cell /\ Covered(row[i])
      BY <1>1, <1>4 DEF Proper
    <3>2. QED
      BY <1>4, <3>1, PlainRaw
  <2>2. [i \in DOMAIN row |-> Sprint(row[i].value)] = Texts
    BY <1>1, <2>1 DEF Texts
  <2>3. {i \in DOMAIN row : row[i].value # Null} = 1 .. Width
    BY <1>1, <2>1
  <2>4. QED
    BY <2>2, <2>3 DEF CSVEncode
<1>5. Behind(Texts, 0) = Texts[1] \o Behind(Texts, 1)
  BY BehindNext
<1>6. QED
  BY <1>2, <1>3, <1>4, <1>5

\* The row has been written: the reader is at its first cell.
LEMMA EncodeStarts ==
    ASSUME TextInv, Proper, NotRead, Encode
    PROVE  InRow(1)' /\ UNCHANGED row
<1>1. row \in [1 .. Width -> Cell] /\ row' = row /\ encoder' = encoder /\ Width \in Nat /\ Width >= 1
  BY CsvTextAssumption DEF TextInv, Encode
<1>2. line' = Texts[1] \o Behind(Texts, 1)
  BY <1>1, RowWritten DEF Encode
<1>3. PICK s, B : s = Raw(row[1]) /\ B = Behind(Texts, 1)
  OBVIOUS
<1>4. 1 \in 1 .. Width
  BY <1>1
<1>5. s \in Seq(Chars)
  BY <1>1, <1>3, <1>4, RawText
<1>6. B \in Seq(Chars)
  BY <1>1, <1>3, <1>4, TextsType, BehindType
<1>7. line' = EscapeCSVValue(s) \o B
  BY <1>2, <1>3, <1>4 DEF Texts
<1>8. mode' = "plain" /\ quoted' = FALSE /\ field' = <<>> /\ fields' = <<>> /\ loaded' = <<>>
  BY DEF Encode, NotRead
<1>9. AtCell(s, B)'
  BY <1>5, <1>6, <1>7, <1>8, CellStarts
<1>10. Texts' = Texts
  BY <1>1 DEF Texts
<1>11. LineFields(0)' = <<>>
  BY DEF LineFields
<1>12. QED
  BY <1>1, <1>3, <1>8, <1>9, <1>10, <1>11 DEF InRow

\* The cells of a row, one behind the other.
LEMMA NextCell ==
    ASSUME NEW k \in 1 .. Width
    PROVE  /\ k - 1 \in Nat /\ k \in Nat /\ k = (k - 1) + 1
           /\ k # Width => k + 1 \in 1 .. Width /\ (k + 1) - 1 = k
BY CsvTextAssumption

\* One line.
LEMMA FirstLine ==
    ASSUME NEW D
    PROVE  Append(<<>>, D) = <<D>>
<1> DEFINE A == {D}
<1>1. <<>> \in Seq(A) /\ Len(<<>>) = 0 /\ D \in A
  OBVIOUS
<1> HIDE DEF A
<1>2. PICK e, a, b : e = <<>> /\ a = Append(e, D) /\ b = <<D>>
  OBVIOUS
<1>3. a \in Seq(A) /\ Len(a) = 1 /\ a[1] = D
  BY <1>1, <1>2
<1>4. b \in Seq(A) /\ Len(b) = 1 /\ b[1] = D
  BY <1>1, <1>2
<1>5. \A i \in 1 .. 1 : a[i] = b[i]
  BY <1>3, <1>4
<1>6. a = b
  BY <1>3, <1>4, <1>5
<1>7. QED
  BY <1>2, <1>6

\* A field more.
LEMMA FieldsGrow ==
    ASSUME NEW k \in 1 .. Width
    PROVE  Append(LineFields(k - 1), FieldOf(row[k])) = LineFields(k)
<1> DEFINE A == {FieldOf(row[i]) : i \in 1 .. k}
<1>1. k - 1 \in Nat /\ k \in Nat /\ k = (k - 1) + 1
  BY NextCell
<1>2. PICK F, D, e : F = LineFields(k - 1) /\ D = LineFields(k) /\ e = FieldOf(row[k])
  OBVIOUS
<1>3. F = [i \in 1 .. (k - 1) |-> FieldOf(row[i])] /\ D = [i \in 1 .. k |-> FieldOf(row[i])]
  BY <1>2 DEF LineFields
<1>4. F \in [1 .. (k - 1) -> A] /\ D \in [1 .. k -> A] /\ e \in A
  BY <1>1, <1>2, <1>3
<1>5. D[k] = e /\ \A i \in 1 .. (k - 1) : F[i] = D[i]
  BY <1>1, <1>2, <1>3
<1> HIDE DEF A
<1>6. F \in Seq(A) /\ Len(F) = k - 1 /\ D \in Seq(A) /\ Len(D) = k
  BY <1>1, <1>4
<1>7. PICK C : C = Append(F, e)
  OBVIOUS
<1>8. C \in Seq(A) /\ Len(C) = k /\ C[k] = e /\ \A i \in 1 .. (k - 1) : C[i] = F[i]
  BY <1>1, <1>4, <1>6, <1>7
<1>9. \A i \in 1 .. k : C[i] = D[i]
  BY <1>1, <1>5, <1>8
<1>10. C = D
  BY <1>6, <1>8, <1>9
<1>11. QED
  BY <1>2, <1>7, <1>10

\* A field has been read: the reader is at the next cell, or has read the row.
LEMMA FieldEnds ==
    ASSUME TextInv, NEW k \in 1 .. Width, InRow(k), NEW x, NEW u,
           Behind(Texts, k) = <<x>> \o u, Leaves(Raw(row[k]), x, u),
           \/ k = Width /\ x = "nl" /\ u = <<>>
           \/ k # Width /\ x = "," /\ u = Texts[k + 1] \o Behind(Texts, k + 1)
    PROVE  RowRead' \/ \E i \in 1 .. Width : InRow(i)'
<1>1. row \in [1 .. Width -> Cell] /\ row' = row /\ Width \in Nat
  BY CsvTextAssumption DEF TextInv, Leaves, EndField
<1>2. Texts' = Texts
  BY <1>1 DEF Texts
<1>3. PICK F : F = LineFields(k - 1)
  OBVIOUS
<1>4. Append(F, Field) = LineFields(k)
  <2>1. Field = FieldOf(row[k])
    BY DEF Leaves, Field, FieldOf
  <2>2. QED
    BY <1>3, <2>1, FieldsGrow
<1>5. fields = F /\ loaded = <<>>
  BY <1>3 DEF InRow
<1>6. field' = <<>> /\ quoted' = FALSE /\ mode' = "plain" /\ line' = u
      /\ fields' = (IF x = "," THEN Append(F, Field) ELSE <<>>)
      /\ loaded' = (IF x = "," THEN loaded ELSE Append(loaded, Append(F, Field)))
  BY <1>5 DEF Leaves, EndField
<1>7. CASE k = Width
  <2>5. PICK D : D = LineFields(k)
    OBVIOUS
  <2>1. fields' = <<>> /\ loaded' = Append(<<>>, D) /\ line' = <<>>
    BY <1>4, <1>5, <1>6, <1>7, <2>5
  <2>6. Append(<<>>, D) = <<D>>
    BY FirstLine
  <2>2. loaded' = <<LineFields(Width)>>
    BY <1>7, <2>1, <2>5, <2>6
  <2>3. LineFields(Width)' = LineFields(Width)
    BY <1>1 DEF LineFields
  <2>4. QED
    BY <1>6, <2>1, <2>2, <2>3 DEF RowRead
<1>8. CASE k # Width
  <2>1. k + 1 \in 1 .. Width /\ (k + 1) - 1 = k
    BY <1>8, NextCell
  <2>2. PICK s, B : s = Raw(row[k + 1]) /\ B = Behind(Texts, k + 1)
    OBVIOUS
  <2>3. s \in Seq(Chars)
    BY <1>1, <2>1, <2>2, RawText
  <2>4. B \in Seq(Chars)
    BY <1>1, <2>1, <2>2, TextsType, BehindType
  <2>5. line' = EscapeCSVValue(s) \o B
    BY <1>6, <1>8, <2>1, <2>2 DEF Texts
  <2>6. AtCell(s, B)'
    BY <1>6, <2>3, <2>4, <2>5, CellStarts
  <2>7. fields' = LineFields(k) /\ loaded' = <<>>
    BY <1>4, <1>5, <1>6, <1>8
  <2>8. LineFields(k)' = LineFields(k)
    BY <1>1 DEF LineFields
  <2>9. InRow(k + 1)'
    BY <1>1, <1>2, <2>1, <2>2, <2>6, <2>7, <2>8 DEF InRow
  <2>10. QED
    BY <2>1, <2>9
<1>9. QED
  BY <1>7, <1>8

\* A step in a row.
LEMMA RowStep ==
    ASSUME TextInv, NEW k \in 1 .. Width, InRow(k), TextNext
    PROVE  row' = row /\ (RowRead' \/ \E i \in 1 .. Width : InRow(i)')
<1>1. row \in [1 .. Width -> Cell]
  BY DEF TextInv
<1>2. Texts \in [1 .. Width -> Seq(Chars)]
  BY <1>1, TextsType
<1>3. PICK s, B, T : s = Raw(row[k]) /\ B = Behind(Texts, k) /\ T = Texts
  OBVIOUS
<1>4. s \in Seq(Chars)
  BY <1>1, <1>3, RawText
<1>5. B \in Seq(Chars)
  BY <1>2, <1>3, BehindType
<1>6. AtCell(s, B)
  BY <1>3 DEF InRow
<1>7. PICK x \in {",", "nl"}, u \in Seq(Chars) :
        /\ B = <<x>> \o u
        /\ \/ k = Width /\ x = "nl" /\ u = <<>>
           \/ k # Width /\ x = "," /\ u = Texts[k + 1] \o Behind(Texts, k + 1)
  <2>1. CASE k = Width
    <3>1. B = <<"nl">> \o <<>>
      BY <1>2, <1>3, <2>1, BehindBegins
    <3>3. <<>> \in Seq(Chars) /\ "nl" \in {",", "nl"}
      OBVIOUS
    <3>2. QED
      BY <2>1, <3>1, <3>3, Zenon
  <2>2. CASE k # Width
    <3>1. PICK v : v = T[k + 1] \o Behind(T, k + 1)
      OBVIOUS
    <3>2. v \in Seq(Chars) /\ B = <<",">> \o v
      BY <1>2, <1>3, <2>2, <3>1, BehindBegins
    <3>3. QED
      BY <1>3, <2>2, <3>1, <3>2
  <2>3. QED
    BY <2>1, <2>2
<1>8. \/ AtCell(s, B)' /\ UNCHANGED <<encoder, row, fields, loaded>>
      \/ Leaves(s, x, u)
  BY <1>4, <1>5, <1>6, <1>7, CellStep
<1>9. CASE AtCell(s, B)' /\ UNCHANGED <<encoder, row, fields, loaded>>
  <2>1. Texts' = Texts /\ LineFields(k - 1)' = LineFields(k - 1)
    BY <1>9 DEF Texts, LineFields
  <2>2. InRow(k)'
    BY <1>3, <1>9, <2>1 DEF InRow
  <2>3. QED
    BY <1>9, <2>2
<1>10. CASE Leaves(s, x, u)
  <2>1. Behind(Texts, k) = <<x>> \o u /\ Leaves(Raw(row[k]), x, u)
    BY <1>3, <1>7, <1>10
  <2>2. RowRead' \/ \E i \in 1 .. Width : InRow(i)'
    BY <1>7, <2>1, FieldEnds
  <2>3. row' = row
    BY <1>10 DEF Leaves, EndField
  <2>4. QED
    BY <2>2, <2>3
<1>11. QED
  BY <1>8, <1>9, <1>10

\* Nothing is read behind the row.
LEMMA ReadStep ==
    ASSUME RowRead, TextNext
    PROVE  row' = row /\ RowRead'
<1>1. line = <<>> /\ mode \in {"plain", "end"}
  BY DEF RowRead
<1>2. EndOfFile \/ TextEnded
  BY <1>1 DEF TextNext, Encode, ReadChar, EndField, OpenQuote, ReadQuoted, DoubledQuote
<1>3. mode' \in {"plain", "end"} /\ UNCHANGED <<encoder, row, line, field, quoted, fields, loaded>>
  BY <1>1, <1>2 DEF EndOfFile, TextEnded, textVars
<1>4. LineFields(Width)' = LineFields(Width)
  BY <1>3 DEF LineFields
<1>5. QED
  BY <1>3, <1>4 DEF RowRead

\* The invariant holds at the start,
LEMMA TextStarts ==
    ASSUME TextInit
    PROVE  TextInv
<1>1. row \in [1 .. Width -> Given] /\ Given \subseteq Cell
  BY DEF TextInit, Given
<1>2. row \in [1 .. Width -> Cell]
  BY <1>1
<1>3. NotRead
  BY DEF TextInit, NotRead
<1>4. QED
  BY <1>2, <1>3 DEF TextInv

\* and every step keeps it.
LEMMA TextKeeps ==
    ASSUME TextInv, TextNext \/ UNCHANGED textVars
    PROVE  TextInv'
<1>1. CASE UNCHANGED textVars
  <2>1. UNCHANGED <<encoder, row, line, field, quoted, mode, fields, loaded>>
    BY <1>1 DEF textVars
  <2>2. Texts' = Texts /\ \A k \in Nat : LineFields(k)' = LineFields(k)
    BY <2>1 DEF Texts, LineFields
  <2>3. QED
    BY <2>1, <2>2 DEF TextInv, Proper, Covered, NotRead, InRow, RowRead, LineFields, Texts, AtCell,
      Unquoted, Opening, Inside, Paired, Closed
<1>2. CASE TextNext
  <2>1. row' = row /\ encoder' = encoder
    BY <1>2 DEF TextNext, Encode, ReadChar, EndField, OpenQuote, ReadQuoted, DoubledQuote,
      EndOfFile, TextEnded, textVars
  <2>2. row' \in [1 .. Width -> Cell]
    BY <2>1 DEF TextInv
  <2>3. Proper' <=> Proper
    BY <2>1 DEF Proper, Covered
  <2>4. ASSUME Proper PROVE NotRead' \/ (\E k \in 1 .. Width : InRow(k)') \/ RowRead'
    <3>1. CASE NotRead
      <4>1. Encode
        BY <1>2, <3>1 DEF NotRead, TextNext, ReadChar, EndField, OpenQuote, ReadQuoted,
          DoubledQuote, EndOfFile, TextEnded
      <4>2. InRow(1)'
        BY <2>4, <3>1, <4>1, EncodeStarts
      <4>3. 1 \in 1 .. Width
        BY CsvTextAssumption
      <4>4. QED
        BY <4>2, <4>3
    <3>2. CASE \E k \in 1 .. Width : InRow(k)
      BY <1>2, <3>2, RowStep
    <3>3. CASE RowRead
      BY <1>2, <3>3, ReadStep
    <3>4. QED
      BY <2>4, <3>1, <3>2, <3>3 DEF TextInv
  <2>5. QED
    BY <2>2, <2>3, <2>4 DEF TextInv
<1>3. QED
  BY <1>1, <1>2

\* When the reader is at the end of the file, the row is one line of it.
LEMMA ReadInFull ==
    ASSUME TextInv
    PROVE  RowReadsBack
<1>1. SUFFICES ASSUME mode = "end", Proper
               PROVE  /\ OneLine
                      /\ \A i \in DOMAIN row : Covered(row[i]) => ReadsBack(i)
  BY DEF RowReadsBack, Proper
<1>2. RowRead
  <2>1. ASSUME NEW k \in 1 .. Width, InRow(k) PROVE FALSE
    BY <1>1, <2>1 DEF InRow, AtCell, Unquoted, Opening, Inside, Paired, Closed
  <2>2. QED
    BY <1>1, <2>1 DEF TextInv, NotRead
<1>3. row \in [1 .. Width -> Cell] /\ Width \in Nat /\ DOMAIN row = 1 .. Width
  BY CsvTextAssumption DEF TextInv
<1>4. PICK F : F = LineFields(Width)
  OBVIOUS
<1>5. Len(F) = Width /\ \A i \in 1 .. Width : F[i] = FieldOf(row[i])
  BY <1>3, <1>4 DEF LineFields
<1>6. loaded = <<F>> /\ fields = <<>> /\ field = <<>>
  BY <1>2, <1>4 DEF RowRead
<1>7. Len(loaded) = 1 /\ loaded[1] = F
  BY <1>6
<1>8. Len(row) = Width
  BY <1>3
<1>9. ASSUME NEW i \in DOMAIN row, Covered(row[i]) PROVE ReadsBack(i)
  <2>1. Decoded(FieldOf(row[i])) = Meant(row[i])
    BY <1>3, <1>9, CoveredDecodes
  <2>2. QED
    BY <1>3, <1>5, <1>7, <1>9, <2>1 DEF ReadsBack
<1>10. QED
  BY <1>5, <1>6, <1>7, <1>8, <1>9 DEF OneLine

\* RowReadsBack: whatever the encoder wrote, the reader takes it for one line with a field per
\* column (escapeCSVValue quotes what holds a separator, a quote or the end of a line).
THEOREM RowsReadBack == TextSpec => []RowReadsBack
<1>1. TextInit => TextInv
  BY TextStarts
<1>2. TextInv /\ [TextNext]_textVars => TextInv'
  BY TextKeeps
<1>3. TextInv => RowReadsBack
  BY ReadInFull
<1>4. QED
  BY <1>1, <1>2, <1>3, PTL DEF TextSpec
=============================================================================
