--------------------------- MODULE InjectCsvProofs ---------------------------
(***************************************************************************)
(* Proofs about GenerateCsv and InjectCsv, for all tables, chains, rows,   *)
(* bundle and buffer sizes, ranges and numbers of crashes and failures.    *)
(***************************************************************************)
EXTENDS InjectCsv, WellFoundedInduction, SequenceTheorems, TLAPS

-----------------------------------------------------------------------------
(* Numbers: the least element of a set, induction, multiples.              *)

\* Every set of natural numbers that is not empty has a least element.
LEMMA NatMin ==
    ASSUME NEW T, T \subseteq Nat, T # {}
    PROVE  \E x \in T : \A y \in T : x <= y
<1> DEFINE R == OpToRel(<, Nat)
<1>1. IsWellFoundedOn(R, Nat)
  BY NatLessThanWellFounded
<1>2. ASSUME NEW a \in Nat, NEW b \in Nat, a < b PROVE <<a, b>> \in R
  BY <1>2 DEF OpToRel
<1> HIDE DEF R
<1>3. PICK x \in T : \A y \in T : ~ (<<y, x>> \in R)
  BY <1>1, WFMin
<1>4. ASSUME NEW y \in T PROVE x <= y
  <2>1. ~ (y < x)
    BY <1>2, <1>3
  <2>2. x \in Nat /\ y \in Nat
    OBVIOUS
  <2>3. QED
    BY <2>1, <2>2
<1>5. QED
  BY <1>4

\* Min of a set of natural numbers that is not empty is its least element.
LEMMA MinProperties ==
    ASSUME NEW T, T \subseteq Nat, T # {}
    PROVE  Min(T) \in T /\ \A y \in T : Min(T) <= y
BY NatMin DEF Min

\* Max of a set of natural numbers below a bound is its greatest element.
LEMMA MaxProperties ==
    ASSUME NEW n \in Nat, NEW T, T \subseteq 0 .. n, T # {}
    PROVE  Max(T) \in T /\ \A y \in T : y <= Max(T)
<1> DEFINE Gap == {g \in Nat : n - g \in T}
<1>1. PICK t \in T : TRUE
  OBVIOUS
<1>2. n - t \in Gap
  <2>1. t \in 0 .. n /\ n - t \in Nat /\ n - (n - t) = t
    OBVIOUS
  <2>2. QED
    BY <2>1
<1>3. PICK g \in Gap : \A h \in Gap : g <= h
  BY <1>2, NatMin
<1>4. n - g \in T
  OBVIOUS
<1>5. ASSUME NEW y \in T PROVE n - g >= y
  <2>1. y \in 0 .. n /\ n - y \in Nat /\ n - (n - y) = y
    OBVIOUS
  <2>2. n - y \in Gap
    BY <2>1
  <2>3. g <= n - y
    BY <2>2, <1>3
  <2>4. QED
    BY <2>1, <2>3
<1>6. \E x \in T : \A y \in T : x >= y
  BY <1>4, <1>5
<1>7. Max(T) \in T /\ \A y \in T : Max(T) >= y
  BY <1>6 DEF Max
<1>8. ASSUME NEW y \in T PROVE y <= Max(T)
  <2>1. T \subseteq Int /\ Max(T) \in T
    BY <1>7
  <2>2. QED
    BY <1>7, <2>1
<1>9. QED
  BY <1>7, <1>8

\* A remainder is below the divisor.
LEMMA RemainderRange ==
    ASSUME NEW b \in Nat, NEW n \in Nat \ {0}
    PROVE  b % n \in 0 .. (n - 1)
OBVIOUS

\* Division with remainder.
LEMMA Division ==
    ASSUME NEW b \in Nat, NEW n \in Nat \ {0}
    PROVE  \E q \in Nat : b = n * q + (b % n)
<1>1. b = n * (b \div n) + (b % n)
  OBVIOUS
<1>2. b \div n \in Nat
  OBVIOUS
<1>3. QED
  BY <1>1, <1>2

\* Quotient and remainder are unique.
LEMMA DivisionUnique ==
    ASSUME NEW n \in Nat \ {0}, NEW p \in Int, NEW q \in Int,
           NEW r \in 0 .. (n - 1), NEW u \in 0 .. (n - 1),
           n * p + r = n * q + u
    PROVE  p = q /\ r = u
<1>1. n * p \in Int /\ n * q \in Int
  OBVIOUS
<1>2. CASE p > q
  <2>1. n * p >= n * (q + 1)
    BY <1>2
  <2>2. n * (q + 1) = n * q + n
    OBVIOUS
  <2>3. QED
    BY <2>1, <2>2, <1>1
<1>3. CASE q > p
  <2>1. n * q >= n * (p + 1)
    BY <1>3
  <2>2. n * (p + 1) = n * p + n
    OBVIOUS
  <2>3. QED
    BY <2>1, <2>2, <1>1
<1>4. CASE p = q
  BY <1>4, <1>1
<1>5. QED
  BY <1>2, <1>3, <1>4

\* A multiple has no remainder.
LEMMA Multiple ==
    ASSUME NEW n \in Nat \ {0}, NEW q \in Nat
    PROVE  (n * q) % n = 0
<1>1. n * q \in Nat
  OBVIOUS
<1>2. PICK r \in 0 .. (n - 1) : r = (n * q) % n
  BY <1>1, RemainderRange
<1>3. PICK p \in Nat : n * q = n * p + r
  BY <1>1, <1>2, Division
<1>4. n * p + r = n * q + 0
  BY <1>3, <1>1
<1>5. 0 \in 0 .. (n - 1)
  OBVIOUS
<1>6. r = 0
  BY <1>4, <1>5, DivisionUnique
<1>7. QED
  BY <1>2, <1>6

\* The multiple of n at or below b.
LEMMA Aligned ==
    ASSUME NEW b \in Nat, NEW n \in Nat \ {0}
    PROVE  /\ b - (b % n) \in Nat /\ (b - (b % n)) % n = 0
           /\ b - (b % n) <= b /\ b < b - (b % n) + n
<1>1. PICK p \in Nat : b = n * p + (b % n)
  BY Division
<1>2. b % n \in 0 .. (n - 1)
  BY RemainderRange
<1>3. b - (b % n) = n * p /\ n * p \in Nat
  BY <1>1, <1>2
<1>4. (b - (b % n)) % n = 0
  BY <1>3, Multiple
<1>5. QED
  BY <1>2, <1>3, <1>4

\* The next multiple.
LEMMA AlignedNext ==
    ASSUME NEW s \in Nat, NEW n \in Nat \ {0}, s % n = 0
    PROVE  (s + n) % n = 0
<1>1. PICK p \in Nat : s = n * p + (s % n)
  BY Division
<1>2. s + n = n * (p + 1)
  BY <1>1
<1>3. (n * (p + 1)) % n = 0
  BY Multiple
<1>4. QED
  BY <1>2, <1>3

\* The multiple at or below b is the only one less than n away.
LEMMA AlignedUnique ==
    ASSUME NEW s \in Nat, NEW b \in Nat, NEW n \in Nat \ {0},
           s % n = 0, s <= b, b < s + n
    PROVE  b - (b % n) = s
OBVIOUS

\* A multiple at or below b is at or below the multiple at or below b.
LEMMA AlignedBelow ==
    ASSUME NEW s \in Nat, NEW b \in Nat, NEW n \in Nat \ {0},
           s % n = 0, s <= b
    PROVE  s <= b - (b % n)
<1>1. PICK p \in Nat : s = n * p
  <2>1. PICK p \in Nat : s = n * p + (s % n)
    BY Division
  <2>2. s = n * p
    BY <2>1
  <2>3. QED
    BY <2>2
<1>2. PICK q \in Nat : b = n * q + (b % n)
  BY Division
<1>3. PICK r \in 0 .. (n - 1) : r = b % n
  BY RemainderRange
<1>4. n * q \in Nat /\ n * p \in Nat
  OBVIOUS
<1>5. b - (b % n) = n * q
  BY <1>2, <1>3, <1>4
<1>6. CASE p <= q
  <2>1. n * p <= n * q
    BY <1>6
  <2>2. QED
    BY <2>1, <1>1, <1>5
<1>7. CASE q < p
  <2>1. n * p >= n * (q + 1)
    BY <1>7
  <2>2. n * (q + 1) = n * q + n
    OBVIOUS
  <2>3. FALSE
    BY <1>1, <1>2, <1>3, <1>4, <2>1, <2>2
  <2>4. QED
    BY <2>3
<1>8. QED
  BY <1>6, <1>7

-----------------------------------------------------------------------------
(* Boundaries.                                                             *)

BlockRanges == [start : Nat, end : Nat]

\* The boundary the bundlers start with
First == NewBoundary(StartBlock)

\* The blocks up to the first block at or past n: those a bundler has handled
\* when it rolls to the boundary that starts at n
Rolled(n) == {c \in Chain : \A d \in Chain : n <= d => c <= d}

\* The blocks of the chain are those of the range.
LEMMA ChainType == Chain \subseteq Nat /\ \A b \in Chain : StartBlock <= b /\ b < StopBlock
BY BundlerAssumption, GenerateCsvAssumption

\* A boundary starts at a multiple of the bundle size and ends at the next one, or
\* at the stop block if that comes first.
LEMMA NewBoundaryShape ==
    ASSUME NEW b \in Nat
    PROVE  LET r == NewBoundary(b)
           IN  /\ r \in BlockRanges
               /\ r.start % BundleSize = 0 /\ r.start <= b
               /\ b < r.start + BundleSize
               /\ r.end = IF StopBlock < r.start + BundleSize
                          THEN StopBlock ELSE r.start + BundleSize
<1> USE BundlerAssumption
<1>1. PICK s \in Nat : /\ s = b - (b % BundleSize) /\ s % BundleSize = 0
                       /\ s <= b /\ b < s + BundleSize
  BY Aligned
<1>2. NewBoundary(b) = [start |-> s, end |-> IF StopBlock < s + BundleSize
                                             THEN StopBlock ELSE s + BundleSize]
  BY <1>1 DEF NewBoundary, BlockRange
<1>3. QED
  BY <1>1, <1>2 DEF BlockRanges

\* The boundary of a block of the chain holds the block.
LEMMA NewBoundaryHolds ==
    ASSUME NEW b \in Chain
    PROVE  LET r == NewBoundary(b)
           IN  r.start <= b /\ b < r.end /\ r.start < r.end
<1>1. b \in Nat /\ b < StopBlock /\ StopBlock \in Nat /\ BundleSize \in Nat
  BY ChainType, BundlerAssumption
<1> DEFINE r == NewBoundary(b)
<1>2. /\ r \in BlockRanges /\ r.start <= b /\ b < r.start + BundleSize
      /\ r.end = IF StopBlock < r.start + BundleSize
                 THEN StopBlock ELSE r.start + BundleSize
  BY <1>1, NewBoundaryShape
<1>3. r.start \in Nat /\ r.end \in Nat
  BY <1>2 DEF BlockRanges
<1>4. r.start <= b /\ b < r.end /\ r.start < r.end
  BY <1>1, <1>2, <1>3
<1>5. QED
  BY <1>4

\* A block past the end of a boundary belongs to one that starts there or later.
LEMMA NewBoundaryAfter ==
    ASSUME NEW b \in Chain, NEW a \in Nat, NewBoundary(a).end <= b
    PROVE  /\ NewBoundary(a).end = NewBoundary(a).start + BundleSize
           /\ NewBoundary(a).end <= NewBoundary(b).start
<1>1. b \in Nat /\ b < StopBlock /\ StopBlock \in Nat /\ BundleSize \in Nat \ {0}
  BY ChainType, BundlerAssumption
<1> DEFINE r == NewBoundary(a)
<1>2. /\ r \in BlockRanges /\ r.start % BundleSize = 0
      /\ r.end = IF StopBlock < r.start + BundleSize
                 THEN StopBlock ELSE r.start + BundleSize
  BY NewBoundaryShape
<1>3. r.start \in Nat /\ r.end \in Nat
  BY <1>2 DEF BlockRanges
<1>4. r.end = r.start + BundleSize
  BY <1>1, <1>2, <1>3
<1>5. r.end % BundleSize = 0
  BY <1>1, <1>2, <1>3, <1>4, AlignedNext
<1>6. r.end <= b - (b % BundleSize)
  BY <1>1, <1>3, <1>5, AlignedBelow
<1>7. NewBoundary(b).start = b - (b % BundleSize)
  BY DEF NewBoundary, BlockRange
<1>8. QED
  BY <1>4, <1>6, <1>7

\* The first boundary starts at or before the start block and ends after it, if
\* there is a block.
LEMMA FirstShape ==
    /\ First \in BlockRanges /\ First.start <= StartBlock
    /\ Chain # {} => StartBlock < First.end
<1>1. StartBlock \in Nat /\ StopBlock \in Nat /\ BundleSize \in Nat \ {0}
  BY BundlerAssumption
<1>2. ASSUME NEW c \in Chain PROVE StartBlock < StopBlock
  <2>1. c \in Nat /\ StartBlock <= c /\ c < StopBlock
    BY ChainType
  <2>2. QED
    BY <1>1, <2>1
<1>3. QED
  BY <1>1, <1>2, NewBoundaryShape DEF First, BlockRanges

\* When a bundler rolls at b, from a boundary that ends at or before b, the blocks
\* handled are those up to b.
LEMMA RolledAt ==
    ASSUME NEW b \in Chain, NEW a \in Nat, NewBoundary(a).end <= b,
           \A c \in Chain : c < b => c < NewBoundary(a).end
    PROVE  /\ Rolled(NewBoundary(b).start) = {c \in Chain : c <= b}
           /\ Rolled(NewBoundary(a).end) = {c \in Chain : c <= b}
<1>1. Chain \subseteq Nat
  BY ChainType
<1>2. NewBoundary(a).end \in Nat /\ NewBoundary(b).start \in Nat
  BY <1>1, NewBoundaryShape DEF BlockRanges
<1>3. NewBoundary(a).end <= NewBoundary(b).start /\ NewBoundary(b).start <= b
  BY NewBoundaryAfter, NewBoundaryHolds
<1>4. ASSUME NEW n \in Nat, n <= b, \A c \in Chain : c < b => c < n
      PROVE  Rolled(n) = {c \in Chain : c <= b}
  <2>1. ASSUME NEW c \in Chain, c <= b PROVE c \in Rolled(n)
    <3>1. ASSUME NEW d \in Chain, n <= d PROVE c <= d
      <4>1. ~ (d < b)
        BY <1>1, <1>4, <3>1
      <4>2. QED
        BY <1>1, <2>1, <4>1
    <3>2. QED
      BY <3>1 DEF Rolled
  <2>2. ASSUME NEW c \in Rolled(n) PROVE c \in Chain /\ c <= b
    BY <1>4 DEF Rolled
  <2>3. QED
    BY <2>1, <2>2
<1>5. \A c \in Chain : c < b => c < NewBoundary(b).start
  BY <1>1, <1>2, <1>3
<1>6. NewBoundary(a).end <= b
  OBVIOUS
<1>7. QED
  BY <1>2, <1>3, <1>4, <1>5, <1>6

\* The later a boundary, the more has been handled when it starts.
LEMMA RolledGrows ==
    ASSUME NEW m \in Nat, NEW n \in Nat, m <= n
    PROVE  Rolled(m) \subseteq Rolled(n)
BY ChainType DEF Rolled

\* Rolled in the words of FilesShifted.
LEMMA RolledIsMin ==
    ASSUME NEW n \in Nat
    PROVE  Rolled(n) = {c \in Chain : c < n} \union
                          (IF {c \in Chain : c >= n} = {} THEN {}
                           ELSE {Min({c \in Chain : c >= n})})
<1> DEFINE After == {c \in Chain : c >= n}
<1>1. Chain \subseteq Nat /\ After \subseteq Nat
  BY ChainType
<1>2. CASE After = {}
  <2>1. \A c \in Chain : c < n
    BY <1>1, <1>2
  <2>2. QED
    BY <1>1, <1>2, <2>1 DEF Rolled
<1>3. CASE After # {}
  <2>1. Min(After) \in After /\ \A y \in After : Min(After) <= y
    BY <1>1, <1>3, MinProperties
  <2> HIDE DEF After
  <2>2. PICK m \in After : m = Min(After)
    BY <2>1
  <2>3. \A c \in Chain : n <= c => m <= c
    BY <1>1, <2>1, <2>2 DEF After
  <2>4. m \in Chain /\ n <= m
    BY <1>1, <2>2 DEF After
  <2>5. ASSUME NEW c \in Rolled(n) PROVE c < n \/ c = m
    <3>1. c \in Chain /\ c <= m
      BY <2>4 DEF Rolled
    <3>2. QED
      BY <1>1, <2>3, <2>4, <3>1
  <2>6. ASSUME NEW c \in Chain, c < n \/ c = m PROVE c \in Rolled(n)
    BY <1>1, <2>3, <2>4, <2>6 DEF Rolled
  <2>7. Rolled(n) = {c \in Chain : c < n} \union {m}
    BY <2>4, <2>5, <2>6 DEF Rolled
  <2>8. QED
    BY <1>3, <2>2, <2>7 DEF After
<1>4. QED
  BY <1>2, <1>3

-----------------------------------------------------------------------------
(* Lines and writers.                                                      *)

Lines == Seq(Line)
Writer == [memory : Lines, disk : Lines]

\* Every row of these lines is of a block up to n
UpTo(lines, n) == \A c \in RowsIn(lines) : c <= n

\* The header is no block.
LEMMA HeaderIsNoBlock == Header \notin Chain /\ Header \in Line
BY ChainType DEF Header, Line

\* A file with its header gets one more row.
LEMMA AppendRow ==
    ASSUME NEW lines \in Lines, WellFormed(lines), NEW b \in Chain,
           \A c \in RowsIn(lines) : c < b
    PROVE  LET more == Append(lines, b)
           IN  WellFormed(more) /\ RowsIn(more) = RowsIn(lines) \union {b}
<1> DEFINE more == Append(lines, b)
<1>1. b \in Line /\ b # Header /\ b \in Nat
  BY HeaderIsNoBlock, ChainType DEF Line
<1>2. /\ Len(lines) \in Nat /\ DOMAIN lines = 1 .. Len(lines)
      /\ \A i \in 1 .. Len(lines) : lines[i] \in Line
  BY LenProperties, ElementOfSeq DEF Lines
<1>3. /\ Len(more) = Len(lines) + 1 /\ DOMAIN more = 1 .. Len(more)
      /\ \A i \in 1 .. Len(lines) : more[i] = lines[i]
      /\ more[Len(lines) + 1] = b
  BY <1>1, <1>2 DEF Lines
<1> HIDE DEF more
<1>4. /\ Len(lines) >= 2 /\ lines[1] = Header
      /\ \A i \in 2 .. Len(lines) : lines[i] # Header
      /\ \A i, j \in 2 .. Len(lines) : i < j => lines[i] < lines[j]
  BY DEF WellFormed
<1>5. \A i \in 2 .. Len(lines) : lines[i] \in RowsIn(lines)
  BY <1>2, <1>4 DEF RowsIn
<1>6. Len(more) >= 2 /\ more[1] = Header
  BY <1>2, <1>3, <1>4
<1>7. ASSUME NEW i \in 2 .. Len(more) PROVE more[i] # Header
  BY <1>1, <1>2, <1>3, <1>4
<1>8. ASSUME NEW i \in 2 .. Len(more), NEW j \in 2 .. Len(more), i < j
      PROVE  more[i] < more[j]
  <2>1. i \in 2 .. Len(lines) /\ more[i] = lines[i]
    BY <1>2, <1>3, <1>8
  <2>2. CASE j \in 2 .. Len(lines)
    BY <1>2, <1>3, <1>4, <1>8, <2>1, <2>2
  <2>3. CASE j = Len(lines) + 1
    BY <1>3, <1>5, <2>1, <2>3
  <2>4. QED
    BY <1>2, <1>3, <2>2, <2>3
<1>9. WellFormed(more)
  BY <1>6, <1>7, <1>8 DEF WellFormed
<1>10. RowsIn(more) = RowsIn(lines) \union {b}
  <2>1. ASSUME NEW i \in DOMAIN more, more[i] # Header
        PROVE  more[i] \in RowsIn(lines) \union {b}
    BY <1>2, <1>3, <2>1 DEF RowsIn
  <2>2. ASSUME NEW i \in DOMAIN lines, lines[i] # Header
        PROVE  lines[i] \in RowsIn(more)
    <3>1. i \in DOMAIN more /\ more[i] = lines[i]
      BY <1>2, <1>3
    <3>2. QED
      BY <3>1, <2>2 DEF RowsIn
  <2>3. b \in RowsIn(more)
    <3>1. Len(lines) + 1 \in DOMAIN more
      BY <1>2, <1>3
    <3>2. QED
      BY <3>1, <1>1, <1>3 DEF RowsIn
  <2>4. RowsIn(more) \subseteq RowsIn(lines) \union {b}
    BY <2>1 DEF RowsIn
  <2>5. RowsIn(lines) \subseteq RowsIn(more)
    BY <2>2 DEF RowsIn
  <2>6. QED
    BY <2>3, <2>4, <2>5
<1>11. QED
  BY <1>9, <1>10 DEF more

\* The first row of a file comes after its header.
LEMMA FirstRow ==
    ASSUME NEW b \in Chain
    PROVE  /\ WellFormed(<<Header, b>>)
           /\ RowsIn(<<Header, b>>) = {b}
<1>1. b # Header
  BY HeaderIsNoBlock
<1>2. WellFormed(<<Header, b>>)
  BY <1>1 DEF WellFormed
<1>3. DOMAIN <<Header, b>> = {1, 2}
  OBVIOUS
<1>4. {<<Header, b>>[i] : i \in DOMAIN <<Header, b>>} = {Header, b}
  BY <1>3
<1>5. QED
  BY <1>1, <1>2, <1>4 DEF RowsIn

\* What a boundary is closed with is what was spilled and then what is buffered.
LEMMA CloseWriter ==
    ASSUME NEW w \in Writer
    PROVE  CloseBoundary(w) = w.disk \o w.memory /\ CloseBoundary(w) \in Lines
<1>1. w.disk \in Seq(Line) /\ w.memory \in Seq(Line)
  BY DEF Writer, Lines
<1>2. w.disk \o w.memory \in Seq(Line)
  BY <1>1, ConcatProperties
<1>3. CASE w.disk = <<>>
  <2>1. <<>> \o w.memory = w.memory
    BY <1>1, ConcatEmptySeq
  <2>2. QED
    BY <1>1, <1>3, <2>1 DEF CloseBoundary, AllDataFitInMemory, Lines
<1>4. CASE w.disk # <<>>
  BY <1>2, <1>4 DEF CloseBoundary, AllDataFitInMemory, Lines
<1>5. QED
  BY <1>3, <1>4

\* Whether the buffer spills or not, a line that is put is the last one.
LEMMA PutAppends ==
    ASSUME NEW w \in Writer, NEW line \in Line
    PROVE  /\ Put(w, line) \in Writer /\ IsWritten(Put(w, line))
           /\ CloseBoundary(Put(w, line)) = Append(CloseBoundary(w), line)
<1>1. PICK d \in Seq(Line), m \in Seq(Line) : w = [memory |-> m, disk |-> d]
  BY DEF Writer, Lines
<1>2. d \o m \in Seq(Line) /\ <<line>> \in Seq(Line) /\ <<line>> # <<>>
  BY ConcatProperties
<1>3. CloseBoundary(w) = d \o m
  BY <1>1, CloseWriter
<1>4. Append(d \o m, line) = (d \o m) \o <<line>>
  BY <1>2, AppendIsConcat
<1>5. Append(m, line) = m \o <<line>> /\ Append(m, line) \in Seq(Line)
      /\ Append(m, line) # <<>>
  BY AppendIsConcat, AppendProperties
<1>6. d \o (m \o <<line>>) = (d \o m) \o <<line>>
  BY <1>2, ConcatAssociative
<1>7. CASE Len(m) < BufferSize
  <2>1. Put(w, line) = [memory |-> Append(m, line), disk |-> d]
    BY <1>1, <1>7 DEF Put
  <2>2. Put(w, line) \in Writer
    BY <2>1, <1>5 DEF Writer, Lines
  <2>3. CloseBoundary(Put(w, line)) = d \o Append(m, line)
    BY <2>1, <2>2, CloseWriter
  <2>4. IsWritten(Put(w, line))
    BY <2>1, <1>5 DEF IsWritten
  <2>5. QED
    BY <1>3, <1>4, <1>5, <1>6, <2>2, <2>3, <2>4
<1>8. CASE ~ (Len(m) < BufferSize)
  <2>1. Put(w, line) = [memory |-> <<line>>, disk |-> d \o m]
    BY <1>1, <1>8 DEF Put
  <2>2. Put(w, line) \in Writer
    BY <2>1, <1>2 DEF Writer, Lines
  <2>3. CloseBoundary(Put(w, line)) = (d \o m) \o <<line>>
    BY <2>1, <2>2, CloseWriter
  <2>4. IsWritten(Put(w, line))
    BY <2>1, <1>2 DEF IsWritten
  <2>5. QED
    BY <1>3, <1>4, <2>2, <2>3, <2>4
<1>9. QED
  BY <1>7, <1>8

\* The writer of a boundary: nothing before its first row, then a readable file
\* with rows up to n.
WriterOf(w, hasHeader, n) ==
    /\ hasHeader => /\ IsWritten(w) /\ WellFormed(CloseBoundary(w))
                    /\ UpTo(CloseBoundary(w), n)
    /\ ~hasHeader => w = EmptyWriter

\* A new writer holds nothing.
LEMMA EmptyWriterHolds ==
    /\ EmptyWriter \in Writer /\ ~ IsWritten(EmptyWriter)
    /\ CloseBoundary(EmptyWriter) = <<>> /\ RowsIn(CloseBoundary(EmptyWriter)) = {}
<1>1. EmptyWriter \in Writer /\ ~ IsWritten(EmptyWriter)
      /\ CloseBoundary(EmptyWriter) = <<>>
  BY DEF EmptyWriter, Writer, Lines, IsWritten, CloseBoundary, AllDataFitInMemory
<1>2. RowsIn(<<>>) = {}
  BY DEF RowsIn
<1>3. QED
  BY <1>1, <1>2

\* A row of a new block is added, with the header when it is the first one.
LEMMA DumpRowAdds ==
    ASSUME NEW w \in Writer, NEW hasHeader \in BOOLEAN, NEW b \in Chain, NEW n \in Int,
           n < b, WriterOf(w, hasHeader, n), NEW more, more = DumpRow(w, hasHeader, b)
    PROVE  /\ more \in Writer /\ WriterOf(more, TRUE, b)
           /\ RowsIn(CloseBoundary(more)) = RowsIn(CloseBoundary(w)) \union {b}
<1>1. b \in Line /\ b \in Nat /\ Header \in Line /\ Chain \subseteq Nat
  BY HeaderIsNoBlock, ChainType DEF Line
<1>2. CASE hasHeader
  <2> DEFINE lines == CloseBoundary(w)
  <2>1. lines \in Lines /\ WellFormed(lines) /\ UpTo(lines, n)
    BY <1>2, CloseWriter DEF WriterOf
  <2>2. more \in Writer /\ IsWritten(more) /\ CloseBoundary(more) = Append(lines, b)
    BY <1>1, <1>2, PutAppends DEF DumpRow
  <2>3. RowsIn(lines) \subseteq Chain
    <3>1. \A i \in DOMAIN lines : lines[i] \in Line
      BY <2>1, LenProperties, ElementOfSeq DEF Lines
    <3>2. QED
      BY <3>1 DEF RowsIn, Line
  <2>4. ASSUME NEW c \in RowsIn(lines) PROVE c < b /\ c <= b
    <3>1. c <= n /\ c \in Chain
      BY <2>1, <2>3 DEF UpTo
    <3>2. c \in Nat
      BY <1>1, <3>1
    <3>3. QED
      BY <1>1, <3>1, <3>2
  <2>5. WellFormed(Append(lines, b)) /\ RowsIn(Append(lines, b)) = RowsIn(lines) \union {b}
    BY <2>1, <2>4, AppendRow
  <2>6. UpTo(Append(lines, b), b)
    <3>1. b <= b
      BY <1>1
    <3>2. QED
      BY <2>4, <2>5, <3>1 DEF UpTo
  <2>7. QED
    BY <2>2, <2>5, <2>6 DEF WriterOf
<1>3. CASE ~ hasHeader
  <2>1. w = EmptyWriter
    BY <1>3 DEF WriterOf
  <2> DEFINE head == Put(w, Header)
  <2>2. head \in Writer /\ CloseBoundary(head) = Append(<<>>, Header)
    BY <1>1, <2>1, PutAppends, EmptyWriterHolds
  <2>3. /\ more \in Writer /\ IsWritten(more)
        /\ CloseBoundary(more) = Append(Append(<<>>, Header), b)
    BY <1>1, <1>3, <2>2, PutAppends DEF DumpRow
  <2>4. Append(Append(<<>>, Header), b) = <<Header, b>>
    <3>1. Append(<<>>, Header) = <<Header>>
      OBVIOUS
    <3>2. Append(<<Header>>, b) = <<Header, b>>
      <4>1. <<Header>> \in Seq(Line) /\ <<Header, b>> \in Seq(Line)
        BY <1>1
      <4>2. PICK s \in Seq(Line) : /\ s = Append(<<Header>>, b) /\ Len(s) = 2
                                   /\ s[1] = Header /\ s[2] = b
        <5>1. PICK h \in Seq(Line) : h = <<Header>> /\ Len(h) = 1 /\ h[1] = Header
          BY <4>1
        <5>2. /\ Append(h, b) \in Seq(Line) /\ Len(Append(h, b)) = Len(h) + 1
              /\ \A i \in 1 .. Len(h) : Append(h, b)[i] = h[i]
              /\ Append(h, b)[Len(h) + 1] = b
          BY <1>1, AppendProperties
        <5>3. Append(h, b)[1] = Header
          BY <5>1, <5>2
        <5>4. Len(Append(h, b)) = 2 /\ Append(h, b)[2] = b
          BY <5>1, <5>2
        <5>5. QED
          BY <5>1, <5>2, <5>3, <5>4
      <4>3. PICK p \in Seq(Line) : /\ p = <<Header, b>> /\ Len(p) = 2
                                   /\ p[1] = Header /\ p[2] = b
        BY <4>1
      <4>4. \A i \in 1 .. Len(s) : s[i] = p[i]
        BY <4>2, <4>3
      <4>5. s = p
        BY <4>2, <4>3, <4>4, SeqEqual
      <4>6. QED
        BY <4>2, <4>3, <4>5
    <3>3. QED
      BY <3>1, <3>2
  <2>5. WellFormed(CloseBoundary(more)) /\ RowsIn(CloseBoundary(more)) = {b}
    BY <2>3, <2>4, FirstRow
  <2>6. UpTo(CloseBoundary(more), b)
    BY <1>1, <2>5 DEF UpTo
  <2>7. RowsIn(CloseBoundary(w)) = {}
    BY <2>1, EmptyWriterHolds
  <2>8. QED
    BY <2>3, <2>5, <2>6, <2>7 DEF WriterOf
<1>4. QED
  BY <1>2, <1>3

-----------------------------------------------------------------------------
(* The boundaries that are skipped.                                        *)

\* The recursive function of BoundariesToSkip
Skip(b) ==
    LET skip[iter \in 0 .. (b + BundleSize)] ==
            IF b >= ComputeEndBlock(iter)
            THEN <<BlockRange(iter, ComputeEndBlock(iter))>> \o skip[ComputeEndBlock(iter)]
            ELSE <<>>
    IN  skip

\* One step of the recursion, from f
SkipStep(b, f, iter) ==
    IF b >= ComputeEndBlock(iter)
    THEN <<BlockRange(iter, ComputeEndBlock(iter))>> \o f[ComputeEndBlock(iter)]
    ELSE <<>>

\* A boundary to skip ends after it starts, at a multiple of the bundle size.
LEMMA ComputeEndBlockGrows ==
    ASSUME NEW iter \in Nat
    PROVE  /\ ComputeEndBlock(iter) \in Nat /\ iter < ComputeEndBlock(iter)
           /\ iter % BundleSize = 0 =>
                /\ ComputeEndBlock(iter) = iter + BundleSize
                /\ ComputeEndBlock(iter) % BundleSize = 0
<1> USE BundlerAssumption
<1>1. iter + BundleSize \in Nat
  OBVIOUS
<1>2. PICK e \in Nat : /\ e = (iter + BundleSize) - ((iter + BundleSize) % BundleSize)
                       /\ e % BundleSize = 0 /\ iter + BundleSize < e + BundleSize
  BY <1>1, Aligned
<1>3. ComputeEndBlock(iter) = e /\ iter < e
  BY <1>2 DEF ComputeEndBlock
<1>4. ASSUME iter % BundleSize = 0 PROVE e = iter + BundleSize
  <2>1. (iter + BundleSize) % BundleSize = 0
    BY <1>4, AlignedNext
  <2>2. QED
    BY <1>2, <2>1
<1>5. QED
  BY <1>2, <1>3, <1>4

\* The recursion ends, so that there is such a function.
LEMMA SkipExists ==
    ASSUME NEW b \in Nat
    PROVE  \E f : f = [iter \in 0 .. (b + BundleSize) |-> SkipStep(b, f, iter)]
<1> DEFINE N == b + BundleSize
           Fails == {m \in Nat : m <= N + 1 /\
                       ~ \E f : f = [iter \in (N + 1 - m) .. N |-> SkipStep(b, f, iter)]}
<1>1. N \in Nat /\ BundleSize \in Nat \ {0}
  BY BundlerAssumption
<1> HIDE DEF N
<1>2. ASSUME Fails # {} PROVE FALSE
  <2>1. PICK m \in Fails : \A n \in Fails : m <= n
    BY <1>2, NatMin
  <2>2. CASE m = 0
    <3> DEFINE f == [iter \in (N + 1) .. N |-> <<>>]
    <3>1. (N + 1) .. N = {}
      BY <1>1
    <3>2. f = [iter \in (N + 1) .. N |-> SkipStep(b, f, iter)]
      BY <3>1
    <3>3. N + 1 - m = N + 1
      BY <1>1, <2>2
    <3>4. QED
      BY <2>1, <3>2, <3>3
  <2>3. CASE m # 0
    <3> DEFINE k == N + 1 - m
    <3>1. k \in Nat /\ k <= N /\ m - 1 \in Nat /\ m - 1 <= N + 1 /\ ~ (m <= m - 1)
          /\ N + 1 - (m - 1) = k + 1
      BY <1>1, <2>1, <2>3
    <3>2. m - 1 \notin Fails
      BY <2>1, <3>1
    <3>3. PICK f : f = [iter \in (k + 1) .. N |-> SkipStep(b, f, iter)]
      BY <3>1, <3>2
    <3> HIDE DEF k
    <3> DEFINE g == [iter \in k .. N |-> IF iter = k THEN SkipStep(b, f, k) ELSE f[iter]]
    <3>4. ASSUME NEW iter \in k .. N PROVE g[iter] = SkipStep(b, g, iter)
      <4>1. ASSUME b >= ComputeEndBlock(iter)
            PROVE  g[ComputeEndBlock(iter)] = f[ComputeEndBlock(iter)]
        <5>1. iter \in Nat
          BY <3>1
        <5>2. ComputeEndBlock(iter) \in Nat /\ iter < ComputeEndBlock(iter)
          BY <5>1, ComputeEndBlockGrows
        <5>3. b <= N
          BY <1>1 DEF N
        <5>4. ComputeEndBlock(iter) \in k .. N /\ ComputeEndBlock(iter) # k
          BY <3>1, <4>1, <5>1, <5>2, <5>3, <1>1
        <5>5. QED
          BY <5>4
      <4>2. SkipStep(b, g, iter) = SkipStep(b, f, iter)
        BY <4>1 DEF SkipStep
      <4>3. CASE iter = k
        BY <4>2, <4>3
      <4>4. CASE iter # k
        <5>1. iter \in (k + 1) .. N
          BY <3>1, <4>4, <1>1
        <5>2. f[iter] = SkipStep(b, f, iter)
          BY <3>3, <5>1
        <5>3. QED
          BY <4>2, <4>4, <5>2
      <4>5. QED
        BY <4>3, <4>4
    <3>5. g = [iter \in k .. N |-> SkipStep(b, g, iter)]
      BY <3>4
    <3>6. QED
      BY <2>1, <3>5 DEF k
  <2>4. QED
    BY <2>2, <2>3
<1>3. N + 1 \in Nat /\ N + 1 \notin Fails
  <2>1. N + 1 \in Nat
    BY <1>1
  <2>2. Fails = {}
    BY <1>2
  <2>3. QED
    BY <2>1, <2>2
<1>4. N + 1 <= N + 1 /\ N + 1 - (N + 1) = 0
  BY <1>1
<1>5. QED
  BY <1>3, <1>4 DEF N

\* The recursion of BoundariesToSkip, unfolded once.
LEMMA SkipUnfolds ==
    ASSUME NEW b \in Nat, NEW iter \in 0 .. (b + BundleSize)
    PROVE  Skip(b)[iter] = SkipStep(b, Skip(b), iter)
<1>1. Skip(b) = CHOOSE f : f = [i \in 0 .. (b + BundleSize) |-> SkipStep(b, f, i)]
  BY DEF Skip, SkipStep
<1>2. Skip(b) = [i \in 0 .. (b + BundleSize) |-> SkipStep(b, Skip(b), i)]
  BY <1>1, SkipExists
<1>3. QED
  BY <1>2

\* The boundaries of s lie side by side from block `from` to block `to`.
Tile(s, from, to) ==
    /\ s \in Seq(BlockRanges)
    /\ s = <<>> => from = to
    /\ s # <<>> => s[1].start = from /\ s[Len(s)].end = to
    /\ \A i \in 1 .. (Len(s) - 1) : s[i].end = s[i + 1].start

\* A boundary in front of others that start where it ends
LEMMA TilePrepend ==
    ASSUME NEW r \in BlockRanges, NEW s, NEW to, Tile(s, r.end, to)
    PROVE  Tile(<<r>> \o s, r.start, to)
<1>1. s \in Seq(BlockRanges) /\ <<r>> \in Seq(BlockRanges)
      /\ Len(<<r>>) = 1 /\ <<r>>[1] = r
  BY DEF Tile
<1>2. Len(s) \in Nat
  BY <1>1, LenProperties
<1>3. PICK u \in Seq(BlockRanges) :
          /\ u = <<r>> \o s /\ Len(u) = 1 + Len(s)
          /\ \A i \in 1 .. (1 + Len(s)) : u[i] = IF i <= 1 THEN <<r>>[i] ELSE s[i - 1]
  <2>1. PICK p \in Seq(BlockRanges) : p = <<r>> /\ Len(p) = 1
    BY <1>1
  <2>2. /\ p \o s \in Seq(BlockRanges) /\ Len(p \o s) = Len(p) + Len(s)
        /\ \A i \in 1 .. (Len(p) + Len(s)) :
              (p \o s)[i] = IF i <= Len(p) THEN p[i] ELSE s[i - Len(p)]
    BY <1>1, ConcatProperties
  <2>3. QED
    BY <2>1, <2>2
<1>4. u[1] = r /\ \A i \in 1 .. Len(s) : u[i + 1] = s[i]
  BY <1>1, <1>2, <1>3
<1>5. u # <<>> /\ u[1].start = r.start
  BY <1>2, <1>3, <1>4, EmptySeq
<1>6. u[Len(u)].end = to
  <2>1. CASE s = <<>>
    <3>1. Len(u) = 1 /\ r.end = to
      BY <1>3, <2>1, EmptySeq DEF Tile
    <3>2. QED
      BY <1>4, <3>1
  <2>2. CASE s # <<>>
    <3>1. Len(s) \in 1 .. Len(s) /\ Len(u) = Len(s) + 1
      BY <1>1, <1>2, <1>3, <2>2, EmptySeq
    <3>2. QED
      BY <1>4, <2>2, <3>1 DEF Tile
  <2>3. QED
    BY <2>1, <2>2
<1>7. ASSUME NEW i \in 1 .. (Len(u) - 1) PROVE u[i].end = u[i + 1].start
  <2>1. s # <<>> /\ i \in 1 .. Len(s)
    BY <1>2, <1>3, EmptySeq
  <2>2. CASE i = 1
    BY <1>4, <2>1, <2>2 DEF Tile
  <2>3. CASE i # 1
    <3>1. i - 1 \in 1 .. (Len(s) - 1) /\ i - 1 \in 1 .. Len(s) /\ i - 1 + 1 = i
      BY <1>2, <2>1, <2>3
    <3>2. u[i] = s[i - 1] /\ u[i + 1] = s[i]
      BY <1>4, <2>1, <3>1
    <3>3. s[i - 1].end = s[i].start
      BY <3>1 DEF Tile
    <3>4. QED
      BY <3>2, <3>3
  <2>4. QED
    BY <2>2, <2>3
<1>8. QED
  BY <1>3, <1>5, <1>6, <1>7 DEF Tile

\* From a multiple of the bundle size on, the skipped boundaries reach the start of
\* the boundary of the block.
LEMMA SkipTiles ==
    ASSUME NEW b \in Nat, NEW from \in Nat, from % BundleSize = 0, from <= b
    PROVE  Tile(Skip(b)[from], from, b - (b % BundleSize))
<1> DEFINE to == b - (b % BundleSize)
           Fails == {d \in Nat : \E i \in Nat : /\ i + d = b /\ i % BundleSize = 0
                                                /\ ~ Tile(Skip(b)[i], i, to)}
<1>1. BundleSize \in Nat \ {0}
  BY BundlerAssumption
<1> HIDE DEF to
<1>2. ASSUME Fails # {} PROVE FALSE
  <2>1. PICK d \in Fails : \A e \in Fails : d <= e
    BY <1>2, NatMin
  <2>2. PICK i \in Nat : i + d = b /\ i % BundleSize = 0 /\ ~ Tile(Skip(b)[i], i, to)
    BY <2>1
  <2>3. i \in 0 .. (b + BundleSize) /\ i <= b
    BY <1>1, <2>1, <2>2
  <2>4. Skip(b)[i] = SkipStep(b, Skip(b), i)
    BY <2>3, SkipUnfolds
  <2>5. PICK e \in Nat : /\ e = ComputeEndBlock(i) /\ e = i + BundleSize
                         /\ e % BundleSize = 0
    BY <2>2, ComputeEndBlockGrows
  <2>6. CASE b >= e
    <3>1. PICK c \in Nat : c = b - e
      BY <2>6
    <3>2. e + c = b /\ ~ (d <= c)
      BY <1>1, <2>1, <2>2, <2>5, <3>1
    <3>3. c \notin Fails
      BY <2>1, <3>2
    <3>4. Tile(Skip(b)[e], e, to)
      BY <2>5, <3>2, <3>3
    <3> DEFINE r == BlockRange(i, e)
    <3>5. r \in BlockRanges /\ r.start = i /\ r.end = e
      BY DEF BlockRanges, BlockRange
    <3> HIDE DEF r
    <3>6. Skip(b)[i] = <<r>> \o Skip(b)[e]
      BY <2>4, <2>5, <2>6 DEF SkipStep, r
    <3>7. Tile(Skip(b)[i], i, to)
      BY <3>4, <3>5, <3>6, TilePrepend
    <3>8. QED
      BY <2>2, <3>7
  <2>7. CASE ~ (b >= e)
    <3>1. Skip(b)[i] = <<>>
      BY <2>4, <2>5, <2>7 DEF SkipStep
    <3>2. b < i + BundleSize
      BY <2>5, <2>7
    <3>3. i = to
      BY <1>1, <2>2, <2>3, <3>2, AlignedUnique DEF to
    <3>4. Tile(<<>>, i, to)
      BY <3>3 DEF Tile
    <3>5. QED
      BY <2>2, <3>1, <3>4
  <2>8. QED
    BY <2>6, <2>7
<1>3. b - from \in Nat /\ from + (b - from) = b
  OBVIOUS
<1>4. Tile(Skip(b)[from], from, to)
  BY <1>2, <1>3
<1>5. QED
  BY <1>4 DEF to

\* With the boundary that is stopped in front and the one that is started at the end
LEMMA BoundariesTile ==
    ASSUME NEW a \in Nat, NEW b \in Chain, b >= NewBoundary(a).end
    PROVE  LET tiles == <<NewBoundary(a)>> \o BoundariesToSkip(NewBoundary(a), b)
                           \o <<NewBoundary(b)>>
           IN  \A i \in 1 .. (Len(tiles) - 1) : tiles[i].end = tiles[i + 1].start
<1> DEFINE r == NewBoundary(a)
           q == NewBoundary(b)
           s == BoundariesToSkip(r, b)
<1>1. b \in Nat /\ BundleSize \in Nat \ {0} /\ StopBlock \in Nat /\ b < StopBlock
  BY ChainType, BundlerAssumption
<1>2. /\ r \in BlockRanges /\ r.start % BundleSize = 0
      /\ r.end = IF StopBlock < r.start + BundleSize
                 THEN StopBlock ELSE r.start + BundleSize
  BY NewBoundaryShape
<1>3. r.start \in Nat /\ r.end \in Nat
  BY <1>2 DEF BlockRanges
<1>4. r.end = r.start + BundleSize /\ r.end <= b
  BY <1>1, <1>2, <1>3
<1>5. r.end % BundleSize = 0
  BY <1>1, <1>2, <1>3, <1>4, AlignedNext
<1>6. q \in BlockRanges /\ q.start = b - (b % BundleSize)
  BY <1>1, NewBoundaryShape DEF NewBoundary, BlockRange
<1>7. s = Skip(b)[r.end]
  BY DEF BoundariesToSkip, Skip
<1>8. Tile(s, r.end, q.start)
  BY <1>1, <1>3, <1>4, <1>5, <1>6, <1>7, SkipTiles
<1> HIDE DEF r, q, s
<1>9. Tile(<<r>> \o s, r.start, q.start)
  BY <1>2, <1>8, TilePrepend
<1>10. PICK u \in Seq(BlockRanges) : u = <<r>> \o s
  BY <1>9 DEF Tile
<1>11. u # <<>> /\ Len(u) \in Nat \ {0}
  <2>1. s \in Seq(BlockRanges) /\ <<r>> \in Seq(BlockRanges) /\ Len(<<r>>) = 1
    BY <1>2, <1>8 DEF Tile
  <2>2. Len(u) = 1 + Len(s) /\ Len(s) \in Nat
    BY <1>10, <2>1, ConcatProperties, LenProperties
  <2>3. QED
    BY <2>2, EmptySeq
<1>12. /\ u[Len(u)].end = q.start
       /\ \A i \in 1 .. (Len(u) - 1) : u[i].end = u[i + 1].start
  BY <1>9, <1>10, <1>11 DEF Tile
<1>13. <<q>> \in Seq(BlockRanges) /\ Len(<<q>>) = 1 /\ <<q>>[1] = q
  BY <1>6
<1>14. PICK v : /\ v = u \o <<q>> /\ Len(v) = Len(u) + 1
                /\ \A i \in 1 .. (Len(u) + 1) :
                      v[i] = IF i <= Len(u) THEN u[i] ELSE <<q>>[i - Len(u)]
  <2>1. PICK p \in Seq(BlockRanges) : p = <<q>> /\ Len(p) = 1
    BY <1>13
  <2>2. /\ Len(u \o p) = Len(u) + Len(p)
        /\ \A i \in 1 .. (Len(u) + Len(p)) :
              (u \o p)[i] = IF i <= Len(u) THEN u[i] ELSE p[i - Len(u)]
    BY <1>10, <2>1, ConcatProperties
  <2>3. QED
    BY <2>1, <2>2
<1>15. v[Len(u) + 1] = q /\ \A i \in 1 .. Len(u) : v[i] = u[i]
  BY <1>11, <1>13, <1>14
<1>16. ASSUME NEW i \in 1 .. (Len(v) - 1) PROVE v[i].end = v[i + 1].start
  <2>1. i \in 1 .. Len(u)
    BY <1>11, <1>14
  <2>2. CASE i = Len(u)
    BY <1>12, <1>15, <2>1, <2>2
  <2>3. CASE i # Len(u)
    <3>1. i \in 1 .. (Len(u) - 1) /\ i + 1 \in 1 .. Len(u)
      BY <1>11, <2>1, <2>3
    <3>2. QED
      BY <1>12, <1>15, <2>1, <3>1
  <2>4. QED
    BY <2>2, <2>3
<1>17. QED
  BY <1>10, <1>14, <1>16 DEF r, q, s

-----------------------------------------------------------------------------
(* The inductive invariant of GenerateCsv.                                 *)

File == [range : Boundary, lines : Lines]

Phases == {"streaming", "failing", "closing", "terminating",
           "completed", "failed", "down"}

\* The types of the variables, and that a bundler is on the boundary of a block
Typed ==
    /\ emits \in Emissions /\ bad \subseteq BadBlocks
    /\ phase \in Phases
    /\ cursor \in Chain \union {None}
    /\ active \in [Tables -> Boundary]
    /\ \A t \in Tables : \E a \in Nat : active[t] = NewBoundary(a)
    /\ writer \in [Tables -> Writer]
    /\ header \in [Tables -> BOOLEAN]
    /\ queue \in [Tables -> SUBSET File]
    /\ lost \in [Tables -> SUBSET File]
    /\ stateQueue \subseteq Chain
    /\ DOMAIN store = Tables
    /\ \A t \in Tables : \A r \in DOMAIN store[t] : r \in Boundary /\ store[t][r] \in Lines
    /\ stateFile \in Chain \union {None}
    /\ lastCursor \in Chain \union {None}
    /\ crashes \in 0 .. MaxCrashes
    /\ uploadFailures \in 0 .. MaxUploadFailures

\* The writers hold nothing or a readable file of rows up to the cursor
WritersInv == \A t \in Tables : WriterOf(writer[t], header[t], cursor)

\* The queues of the bundlers that are up are empty once the stream is over and its
\* files are uploaded, and the cursors table is written then, for the last block
PhaseInv ==
    /\ crashes = 0 => phase # "down"
    /\ phase \in {"closing", "terminating", "completed"} => Remaining = {}
    /\ phase \in {"terminating", "completed"} => Drained
    /\ crashes = 0 /\ phase \in {"streaming", "closing"} => lastCursor = None
    /\ crashes = 0 /\ phase \in {"terminating", "completed"} => lastCursor = cursor

Handled == {c \in Chain : c <= cursor}

\* The blocks whose rows are not in the open boundary any more
Opened(t) == IF active[t] = First THEN {} ELSE Rolled(active[t].start)

\* The rows of a closed file
RowsOfRange(t, range) ==
    {c \in Rolled(range.end) : t \in emits[c]}
        \ (IF range = First THEN {} ELSE Rolled(range.start))

\* The open boundary of a table, and the rows that are waiting in it
OpenPlace(t) ==
    /\ First.start <= active[t].start
    /\ active[t] = First \/ First.end <= active[t].start
    /\ cursor = None => active[t] = First
    /\ cursor # None => active[t].start <= cursor /\ cursor < active[t].end
    /\ Opened(t) \subseteq Handled
    /\ RowsIn(CloseBoundary(writer[t])) = {c \in Handled \ Opened(t) : t \in emits[c]}

FilePlace(t, f) ==
    /\ First.start <= f.range.start
    /\ f.range.start < f.range.end /\ f.range.end <= active[t].start
    /\ f.range = First \/ First.end <= f.range.start
    /\ RowsIn(f.lines) = RowsOfRange(t, f.range)

Apart(q, r) == q.end <= r.start \/ r.end <= q.start

\* The closed files of a table: they hold the rows of their boundaries, which do not
\* overlap, and no row before the open boundary is missing
ClosedPlace(t) ==
    /\ \A f \in Closed(t) : FilePlace(t, f)
    /\ \A f, g \in Closed(t) : f # g => Apart(f.range, g.range)
    /\ \A f \in queue[t] \union lost[t] : f.range \notin DOMAIN store[t]
    /\ \A c \in Opened(t) : t \in emits[c] => \E f \in Closed(t) : c \in RowsIn(f.lines)

PlaceInv == crashes = 0 => \A t \in Tables : OpenPlace(t) /\ ClosedPlace(t)

GInv == Typed /\ WritersInv /\ FilesWellFormed /\ PhaseInv /\ PlaceInv

-----------------------------------------------------------------------------
(* Facts about the state.                                                  *)

\* A boundary lies in the range of the command.
LEMMA NewBoundaryType ==
    ASSUME NEW a \in Nat, a <= StopBlock
    PROVE  NewBoundary(a) \in Boundary
<1>1. StopBlock \in Nat /\ BundleSize \in Nat \ {0}
  BY BundlerAssumption
<1> DEFINE r == NewBoundary(a)
<1>2. /\ r \in BlockRanges /\ r.start <= a
      /\ r.end = IF StopBlock < r.start + BundleSize
                 THEN StopBlock ELSE r.start + BundleSize
  BY NewBoundaryShape
<1>3. r = [start |-> r.start, end |-> r.end] /\ r.start \in Nat /\ r.end \in Nat
  BY <1>2 DEF BlockRanges
<1>4. r.start \in 0 .. StopBlock /\ r.end \in 0 .. StopBlock
  BY <1>1, <1>2, <1>3
<1>5. QED
  BY <1>3, <1>4 DEF Boundary

\* The first boundary is the one of the start block.
LEMMA FirstType == First \in Boundary /\ StartBlock \in Nat /\ First = NewBoundary(StartBlock)
BY NewBoundaryType, BundlerAssumption DEF First

\* A boundary is a pair of natural numbers.
LEMMA BoundaryNumbers ==
    ASSUME NEW r \in Boundary
    PROVE  r.start \in Nat /\ r.end \in Nat
BY BundlerAssumption DEF Boundary

\* The closed files are files, uploaded or not.
LEMMA ClosedType ==
    ASSUME Typed, NEW t \in Tables
    PROVE  Closed(t) \subseteq File
<1>1. queue[t] \subseteq File /\ lost[t] \subseteq File
  BY DEF Typed
<1>2. ASSUME NEW r \in DOMAIN store[t]
      PROVE  [range |-> r, lines |-> store[t][r]] \in File
  BY DEF Typed, File
<1>3. QED
  BY <1>1, <1>2 DEF Closed, Stored

\* The cursor is a block or None.
LEMMA CursorType == Typed => cursor \in Int /\ (cursor # None => cursor \in Chain)
BY ChainType DEF Typed, None

\* The next block of the chain: the blocks up to it are those handled and itself.
LEMMA NextBlock ==
    ASSUME Typed, NEW b \in Chain, Remaining # {}, b = Min(Remaining)
    PROVE  /\ b \in Nat /\ cursor < b /\ b <= StopBlock
           /\ {c \in Chain : c <= b} = Handled \union {b}
           /\ \A c \in Chain : c < b => c <= cursor
<1>1. Chain \subseteq Nat /\ cursor \in Int
  BY ChainType, CursorType
<1>2. Remaining \subseteq Nat
  BY <1>1 DEF Remaining
<1>3. b \in Remaining /\ \A y \in Remaining : b <= y
  BY <1>2, MinProperties
<1>4. b \in Nat /\ cursor < b
  BY <1>1, <1>3 DEF Remaining
<1>5. b <= StopBlock
  BY <1>4, ChainType, BundlerAssumption
<1>6. ASSUME NEW c \in Chain, c < b PROVE c <= cursor
  <2>1. c \notin Remaining
    BY <1>1, <1>3, <1>4, <1>6
  <2>2. QED
    BY <1>1, <2>1 DEF Remaining
<1>7. ASSUME NEW c \in Chain, c <= b PROVE c <= cursor \/ c = b
  BY <1>1, <1>4, <1>6, <1>7
<1>8. \A c \in Chain : c <= cursor => c <= b
  BY <1>1, <1>4
<1>9. {c \in Chain : c <= b} = Handled \union {b}
  <2>1. Handled \union {b} \subseteq {c \in Chain : c <= b}
    <3>1. b <= b
      BY <1>4
    <3>2. QED
      BY <1>8, <3>1 DEF Handled
  <2>2. {c \in Chain : c <= b} \subseteq Handled \union {b}
    BY <1>7 DEF Handled
  <2>3. QED
    BY <2>1, <2>2
<1>10. QED
  BY <1>4, <1>5, <1>6, <1>9

\* What the writer of a table holds once the rows of a block are dumped
Dumped(t, b) == IF t \in emits[b] THEN DumpRow(writer[t], header[t], b) ELSE writer[t]

Wrote(t, b) == header[t] \/ t \in emits[b]

Rolls(t, b) == ~ InRange(active[t], b)

\* Dumping the rows of a block leaves the writers well formed.
LEMMA DumpedHolds ==
    ASSUME Typed, WritersInv, NEW t \in Tables, NEW b \in Chain, cursor < b
    PROVE  /\ Dumped(t, b) \in Writer
           /\ Wrote(t, b) \in BOOLEAN
           /\ WriterOf(Dumped(t, b), Wrote(t, b), b)
           /\ RowsIn(CloseBoundary(Dumped(t, b)))
                 = RowsIn(CloseBoundary(writer[t])) \union
                       (IF t \in emits[b] THEN {b} ELSE {})
<1>1. /\ writer[t] \in Writer /\ header[t] \in BOOLEAN /\ cursor \in Int
      /\ WriterOf(writer[t], header[t], cursor)
  BY CursorType DEF Typed, WritersInv
<1>2. CASE t \in emits[b]
  <2>1. PICK w, h, n, more : /\ w = writer[t] /\ h = header[t] /\ n = cursor
                             /\ more = DumpRow(w, h, b)
    OBVIOUS
  <2>2. w \in Writer /\ h \in BOOLEAN /\ n \in Int /\ n < b /\ WriterOf(w, h, n)
    BY <1>1, <2>1
  <2>3. /\ more \in Writer /\ WriterOf(more, TRUE, b)
        /\ RowsIn(CloseBoundary(more)) = RowsIn(CloseBoundary(w)) \union {b}
    <3>1. CASE h = TRUE
      <4>1. WriterOf(w, TRUE, n) /\ more = DumpRow(w, TRUE, b)
        BY <2>1, <2>2, <3>1
      <4>2. QED
        BY <2>2, <4>1, DumpRowAdds
    <3>2. CASE h = FALSE
      <4>1. WriterOf(w, FALSE, n) /\ more = DumpRow(w, FALSE, b)
        BY <2>1, <2>2, <3>2
      <4>2. QED
        BY <2>2, <4>1, DumpRowAdds
    <3>3. QED
      BY <2>2, <3>1, <3>2
  <2>4. Wrote(t, b) = TRUE /\ Dumped(t, b) = more
    BY <1>2, <2>1 DEF Wrote, Dumped
  <2>5. QED
    BY <1>2, <2>1, <2>3, <2>4
<1>3. CASE t \notin emits[b]
  <2>1. Dumped(t, b) = writer[t]
    BY <1>3 DEF Dumped
  <2>2. Wrote(t, b) <=> header[t]
    BY <1>3 DEF Wrote
  <2>3. ASSUME header[t] PROVE UpTo(CloseBoundary(writer[t]), b)
    <3>1. UpTo(CloseBoundary(writer[t]), cursor)
      BY <1>1, <2>3 DEF WriterOf
    <3>2. CloseBoundary(writer[t]) \in Lines
      BY <1>1, CloseWriter
    <3>3. \A i \in DOMAIN CloseBoundary(writer[t]) : CloseBoundary(writer[t])[i] \in Line
      BY <3>2, LenProperties, ElementOfSeq DEF Lines
    <3>4. RowsIn(CloseBoundary(writer[t])) \subseteq Chain
      BY <3>3 DEF RowsIn, Line
    <3>5. ASSUME NEW c \in RowsIn(CloseBoundary(writer[t])) PROVE c <= b
      <4>1. c \in Nat /\ b \in Nat /\ c <= cursor
        BY <3>1, <3>4, ChainType DEF UpTo
      <4>2. QED
        BY <1>1, <4>1
    <3>6. QED
      BY <3>5 DEF UpTo
  <2>4. WriterOf(writer[t], Wrote(t, b), b)
    BY <1>1, <2>2, <2>3 DEF WriterOf
  <2>5. Wrote(t, b) \in BOOLEAN
    BY DEF Wrote
  <2>6. QED
    BY <1>1, <1>3, <2>1, <2>4, <2>5
<1>4. QED
  BY <1>2, <1>3

\* Stop queues a file exactly when a row was written.
LEMMA StopQueues ==
    ASSUME Typed, WritersInv, NEW t \in Tables, NEW b \in Chain, cursor < b
    PROVE  Stop(active[t], Dumped(t, b))
             = IF Wrote(t, b)
               THEN {[range |-> active[t], lines |-> CloseBoundary(Dumped(t, b))]}
               ELSE {}
<1>1. WriterOf(Dumped(t, b), Wrote(t, b), b)
  BY DumpedHolds
<1>2. CASE Wrote(t, b)
  BY <1>1, <1>2 DEF WriterOf, Stop
<1>3. CASE ~ Wrote(t, b)
  BY <1>1, <1>3, EmptyWriterHolds DEF WriterOf, Stop
<1>4. QED
  BY <1>2, <1>3

\* HandleBlockScopedData, table by table
LEMMA HandleBlockTables ==
    ASSUME NEW b \in Chain, HandleBlockScopedData(b), NEW t \in Tables
    PROVE  /\ queue'[t] = IF Rolls(t, b) THEN queue[t] \union Stop(active[t], Dumped(t, b))
                          ELSE queue[t]
           /\ writer'[t] = IF Rolls(t, b) THEN EmptyWriter ELSE Dumped(t, b)
           /\ header'[t] = (~ Rolls(t, b) /\ Wrote(t, b))
           /\ active'[t] = IF Rolls(t, b) THEN NewBoundary(b) ELSE active[t]
           /\ cursor' = b /\ emits' = emits /\ store' = store /\ lost' = lost
           /\ crashes' = crashes
BY DEF HandleBlockScopedData, Rolls, Dumped, Wrote, faultVars

-----------------------------------------------------------------------------
(* The steps of GenerateCsv: types, writers and files.                     *)

\* The invariant holds when the process starts.
LEMMA GInit == ASSUME Init PROVE GInv
<1> USE DEF Init
<1>1. Typed
  <2>1. First \in Boundary /\ First = NewBoundary(StartBlock) /\ StartBlock \in Nat
    BY FirstType
  <2>2. active \in [Tables -> Boundary]
        /\ \A t \in Tables : \E a \in Nat : active[t] = NewBoundary(a)
    BY <2>1
  <2>3. writer \in [Tables -> Writer]
    BY EmptyWriterHolds
  <2>4. DOMAIN store = Tables /\ \A t \in Tables : DOMAIN store[t] = {}
    OBVIOUS
  <2>5. crashes \in 0 .. MaxCrashes
    BY GenerateCsvAssumption
  <2>6. /\ queue \in [Tables -> SUBSET File] /\ lost \in [Tables -> SUBSET File]
        /\ header \in [Tables -> BOOLEAN] /\ uploadFailures \in 0 .. MaxUploadFailures
    BY GenerateCsvAssumption
  <2>7. QED
    BY <2>2, <2>3, <2>4, <2>5, <2>6 DEF Typed, Phases
<1>2. WritersInv
  BY DEF WritersInv, WriterOf
<1>3. FilesWellFormed
  BY DEF FilesWellFormed
<1>4. PhaseInv
  BY DEF PhaseInv
<1>5. PlaceInv
  <2> SUFFICES ASSUME NEW t \in Tables PROVE OpenPlace(t) /\ ClosedPlace(t)
    BY DEF PlaceInv
  <2>1. active[t] = First /\ First.start \in Nat /\ cursor = None
    BY FirstType, BoundaryNumbers DEF First
  <2>2. Opened(t) = {}
    BY <2>1 DEF Opened
  <2>3. Handled = {}
    <3>1. ASSUME NEW c \in Chain PROVE ~ (c <= None)
      <4>1. c \in Nat
        BY ChainType
      <4>2. QED
        BY <4>1 DEF None
    <3>2. QED
      BY <2>1, <3>1 DEF Handled
  <2>4. RowsIn(CloseBoundary(writer[t])) = {}
    BY EmptyWriterHolds
  <2>5. OpenPlace(t)
    BY <2>1, <2>2, <2>3, <2>4 DEF OpenPlace
  <2>6. Closed(t) = {} /\ queue[t] = {}
    BY DEF Closed, Stored
  <2>7. ClosedPlace(t)
    BY <2>2, <2>6 DEF ClosedPlace
  <2>8. QED
    BY <2>5, <2>7
<1>6. QED
  BY <1>1, <1>2, <1>3, <1>4, <1>5 DEF GInv

\* The types, and the shape of what the writers hold, survive a block.
LEMMA HandleBlockKeeps ==
    ASSUME Typed, WritersInv, FilesWellFormed,
           NEW b \in Chain, HandleBlockScopedData(b)
    PROVE  Typed' /\ WritersInv' /\ FilesWellFormed'
<1>1. /\ b \in Nat /\ cursor < b /\ b <= StopBlock
  BY NextBlock DEF HandleBlockScopedData
<1>2. ASSUME NEW t \in Tables
      PROVE  /\ Dumped(t, b) \in Writer /\ Wrote(t, b) \in BOOLEAN
             /\ WriterOf(Dumped(t, b), Wrote(t, b), b)
             /\ Stop(active[t], Dumped(t, b))
                  = IF Wrote(t, b)
                    THEN {[range |-> active[t], lines |-> CloseBoundary(Dumped(t, b))]}
                    ELSE {}
  BY <1>1, DumpedHolds, StopQueues
<1>3. ASSUME NEW t \in Tables
      PROVE  /\ writer'[t] \in Writer /\ header'[t] \in BOOLEAN
             /\ WriterOf(writer'[t], header'[t], b)
  <2>1. CASE Rolls(t, b)
    BY <2>1, HandleBlockTables, EmptyWriterHolds DEF WriterOf
  <2>2. CASE ~ Rolls(t, b)
    <3>1. writer'[t] = Dumped(t, b) /\ (header'[t] = Wrote(t, b))
      BY <2>2, <1>2, HandleBlockTables
    <3>2. QED
      BY <1>2, <3>1
  <2>3. QED
    BY <2>1, <2>2
<1>4. ASSUME NEW t \in Tables
      PROVE  active'[t] \in Boundary /\ \E a \in Nat : active'[t] = NewBoundary(a)
  BY <1>1, HandleBlockTables, NewBoundaryType DEF Typed
<1>5. ASSUME NEW t \in Tables, Wrote(t, b)
      PROVE  /\ [range |-> active[t], lines |-> CloseBoundary(Dumped(t, b))] \in File
             /\ WellFormed(CloseBoundary(Dumped(t, b)))
  <2>1. active[t] \in Boundary
    BY DEF Typed
  <2>2. CloseBoundary(Dumped(t, b)) \in Lines
    BY <1>2, CloseWriter
  <2>3. QED
    BY <1>2, <1>5, <2>1, <2>2 DEF File, WriterOf
<1>6. ASSUME NEW t \in Tables
      PROVE  queue'[t] \subseteq File /\ \A f \in queue'[t] : WellFormed(f.lines)
  <2>1. queue[t] \subseteq File /\ \A f \in queue[t] : WellFormed(f.lines)
    BY DEF Typed, FilesWellFormed
  <2>2. queue'[t] \subseteq queue[t] \union
          (IF Wrote(t, b)
           THEN {[range |-> active[t], lines |-> CloseBoundary(Dumped(t, b))]}
           ELSE {})
    BY <1>2, HandleBlockTables
  <2>3. QED
    BY <1>5, <2>1, <2>2
<1>7. /\ \E F : writer' = [t \in Tables |-> F[t]]
      /\ \E F : header' = [t \in Tables |-> F[t]]
      /\ \E F : queue' = [t \in Tables |-> F[t]]
      /\ \E F : active' = [t \in Tables |-> F[t]]
  <2>1. /\ writer' = [t \in Tables |-> writer'[t]] /\ header' = [t \in Tables |-> header'[t]]
        /\ queue' = [t \in Tables |-> queue'[t]] /\ active' = [t \in Tables |-> active'[t]]
    BY DEF HandleBlockScopedData
  <2>2. QED
    BY <2>1
<1>8. /\ writer' \in [Tables -> Writer] /\ header' \in [Tables -> BOOLEAN]
      /\ queue' \in [Tables -> SUBSET File] /\ active' \in [Tables -> Boundary]
  BY <1>3, <1>4, <1>6, <1>7
<1>9. /\ cursor' \in Chain \union {None} /\ cursor' = b
      /\ stateQueue' \subseteq Chain
      /\ UNCHANGED <<emits, bad, phase, lost, store, stateFile, lastCursor, crashes,
                      uploadFailures>>
  BY DEF HandleBlockScopedData, SaveState, Typed, faultVars
<1>10. Typed'
  BY <1>4, <1>8, <1>9 DEF Typed
<1>11. WritersInv'
  BY <1>3, <1>9 DEF WritersInv
<1>12. FilesWellFormed'
  BY <1>6, <1>9 DEF FilesWellFormed
<1>13. QED
  BY <1>10, <1>11, <1>12

\* What an upload leaves in the store of its table: the object is the uploaded one, or
\* it was there already and is kept.
LEMMA UploadStores ==
    ASSUME Typed, NEW t \in Tables, NEW f \in queue[t],
           store' = [store EXCEPT ![t] = WriteObject(@, f.range, f.lines)]
    PROVE  /\ DOMAIN store' = Tables
           /\ \A u \in Tables : u # t => store'[u] = store[u]
           /\ DOMAIN store'[t] = DOMAIN store[t] \union {f.range}
           /\ \A r \in DOMAIN store'[t] :
                store'[t][r] = IF r = f.range /\ ~ (KeepsExisting /\ r \in DOMAIN store[t])
                               THEN f.lines ELSE store[t][r]
<1>1. /\ DOMAIN store' = Tables /\ store'[t] = WriteObject(store[t], f.range, f.lines)
      /\ \A u \in Tables : u # t => store'[u] = store[u]
  BY DEF Typed
<1>2. CASE KeepsExisting /\ f.range \in DOMAIN store[t]
  BY <1>1, <1>2 DEF WriteObject
<1>3. CASE ~ (KeepsExisting /\ f.range \in DOMAIN store[t])
  <2>1. store'[t] = [k \in DOMAIN store[t] \union {f.range} |->
                        IF k = f.range THEN f.lines ELSE store[t][k]]
    BY <1>1, <1>3 DEF WriteObject
  <2>2. QED
    BY <1>1, <1>3, <2>1
<1>4. QED
  BY <1>2, <1>3

\* An upload stores a file as it was queued, or keeps the one it finds.
LEMMA UploadKeeps ==
    ASSUME Typed, WritersInv, FilesWellFormed, NEW t \in Tables, UploadBoundary(t)
    PROVE  Typed' /\ WritersInv' /\ FilesWellFormed'
<1>1. PICK f \in queue[t] :
          /\ queue' = [queue EXCEPT ![t] = @ \ {f}]
          /\ store' = [store EXCEPT ![t] = WriteObject(@, f.range, f.lines)]
  BY DEF UploadBoundary
<1>2. UNCHANGED <<emits, bad, phase, cursor, active, writer, header, lost, stateQueue,
                  stateFile, lastCursor, crashes, uploadFailures>>
  BY DEF UploadBoundary, faultVars
<1>3. f \in File /\ WellFormed(f.lines) /\ f.range \in Boundary /\ f.lines \in Lines
  BY DEF Typed, FilesWellFormed, File
<1>4. queue' \in [Tables -> SUBSET File] /\ \A u \in Tables : queue'[u] \subseteq queue[u]
  BY <1>1 DEF Typed
<1>5. /\ DOMAIN store' = Tables
      /\ \A u \in Tables : u # t => store'[u] = store[u]
      /\ DOMAIN store'[t] = DOMAIN store[t] \union {f.range}
      /\ \A r \in DOMAIN store'[t] : store'[t][r] = f.lines \/
                                     (r \in DOMAIN store[t] /\ store'[t][r] = store[t][r])
  <2>1. /\ DOMAIN store' = Tables
        /\ \A u \in Tables : u # t => store'[u] = store[u]
        /\ DOMAIN store'[t] = DOMAIN store[t] \union {f.range}
        /\ \A r \in DOMAIN store'[t] :
             store'[t][r] = IF r = f.range /\ ~ (KeepsExisting /\ r \in DOMAIN store[t])
                            THEN f.lines ELSE store[t][r]
    BY <1>1, UploadStores
  <2>2. ASSUME NEW r \in DOMAIN store'[t]
        PROVE  store'[t][r] = f.lines \/ (r \in DOMAIN store[t] /\ store'[t][r] = store[t][r])
    BY <2>1
  <2>3. QED
    BY <2>1, <2>2
<1>6. ASSUME NEW u \in Tables, NEW r \in DOMAIN store'[u]
      PROVE  r \in Boundary /\ store'[u][r] \in Lines /\ WellFormed(store'[u][r])
  <2>1. CASE u = t
    BY <1>3, <1>5, <2>1 DEF Typed, FilesWellFormed
  <2>2. CASE u # t
    BY <1>5, <2>2 DEF Typed, FilesWellFormed
  <2>3. QED
    BY <2>1, <2>2
<1>7. Typed'
  BY <1>2, <1>4, <1>5, <1>6 DEF Typed
<1>8. WritersInv'
  BY <1>2 DEF WritersInv
<1>9. FilesWellFormed'
  BY <1>2, <1>4, <1>6 DEF FilesWellFormed
<1>10. QED
  BY <1>7, <1>8, <1>9

\* The other steps leave the files of the tables alone; Run starts the writers again.
LEMMA OtherKeeps ==
    ASSUME Typed, WritersInv, FilesWellFormed,
           \/ \E b \in Chain : RejectBlock(b)
           \/ HandleBlockRangeCompletion \/ WriteCursorsTable \/ WriteCursorsTableFails
           \/ UploadCursor \/ UploadCursorFails
           \/ Terminated \/ Crash \/ Run \/ Hang \/ Done
    PROVE  Typed' /\ WritersInv' /\ FilesWellFormed'
<1> USE DEF Typed, Phases, WritersInv, FilesWellFormed, bundlerVars, faultVars
<1>1. CASE \E b \in Chain : RejectBlock(b)
  BY <1>1 DEF RejectBlock
<1>2. CASE HandleBlockRangeCompletion
  BY <1>2 DEF HandleBlockRangeCompletion
<1>3. CASE WriteCursorsTable
  BY <1>3 DEF WriteCursorsTable, CursorsTable
<1>4. CASE UploadCursor
  BY <1>4 DEF UploadCursor
<1>5. CASE Terminated
  BY <1>5 DEF Terminated
<1>6. CASE Crash
  <2>1. crashes' \in 0 .. MaxCrashes
    BY <1>6, GenerateCsvAssumption DEF Crash
  <2>2. QED
    BY <1>6, <2>1 DEF Crash
<1>7. CASE Run
  <2>1. /\ active' = [t \in Tables |-> First] /\ First \in Boundary
        /\ First = NewBoundary(StartBlock) /\ StartBlock \in Nat
    BY <1>7, FirstType DEF Run, NewBundlers
  <2>2. /\ writer' = [t \in Tables |-> EmptyWriter] /\ EmptyWriter \in Writer
        /\ header' = [t \in Tables |-> FALSE] /\ queue' = [t \in Tables |-> {}]
        /\ lost' = [t \in Tables |-> {}] /\ stateQueue' = {}
    BY <1>7, EmptyWriterHolds DEF Run, NewBundlers
  <2>3. /\ cursor' \in Chain \union {None} /\ phase' \in Phases
        /\ UNCHANGED <<emits, bad, store, stateFile, lastCursor, crashes, uploadFailures>>
    BY <1>7 DEF Run
  <2>4. active' \in [Tables -> Boundary]
        /\ \A t \in Tables : \E a \in Nat : active'[t] = NewBoundary(a)
    BY <2>1
  <2>5. /\ writer' \in [Tables -> Writer] /\ queue' \in [Tables -> SUBSET File]
        /\ lost' \in [Tables -> SUBSET File]
        /\ header' \in [Tables -> BOOLEAN] /\ stateQueue' \subseteq Chain
    BY <2>2
  <2>6. Typed'
    BY <2>3, <2>4, <2>5
  <2>7. WritersInv'
    BY <2>2 DEF WriterOf
  <2>8. FilesWellFormed'
    BY <2>2, <2>3
  <2>9. QED
    BY <2>6, <2>7, <2>8
<1>8. CASE Hang \/ Done
  BY <1>8 DEF Hang, Done, vars
<1>9. CASE WriteCursorsTableFails
  <2>1. uploadFailures' \in 0 .. MaxUploadFailures
    BY <1>9, GenerateCsvAssumption DEF WriteCursorsTableFails
  <2>2. QED
    BY <1>9, <2>1 DEF WriteCursorsTableFails
<1>10. CASE UploadCursorFails
  <2>1. uploadFailures' \in 0 .. MaxUploadFailures
    BY <1>10, GenerateCsvAssumption DEF UploadCursorFails
  <2>2. phase' \in Phases /\ stateQueue' \subseteq Chain /\ lastCursor' \in Chain \union {None}
    BY <1>10 DEF UploadCursorFails, CursorsTable
  <2>3. UNCHANGED <<emits, bad, cursor, active, writer, header, queue, lost, store, stateFile,
                    crashes>>
    BY <1>10 DEF UploadCursorFails
  <2>4. QED
    BY <2>1, <2>2, <2>3
<1>11. QED
  BY <1>1, <1>2, <1>3, <1>4, <1>5, <1>6, <1>7, <1>8, <1>9, <1>10

\* A failed upload drops a file of the queue.
LEMMA UploadFailsKeeps ==
    ASSUME Typed, WritersInv, FilesWellFormed, NEW t \in Tables, UploadBoundaryFails(t)
    PROVE  Typed' /\ WritersInv' /\ FilesWellFormed'
<1>1. PICK f \in queue[t] :
          /\ queue' = [queue EXCEPT ![t] = @ \ {f}]
          /\ lost' = [lost EXCEPT ![t] = {f}]
  BY DEF UploadBoundaryFails
<1>2. UNCHANGED <<emits, bad, phase, cursor, active, writer, header, stateQueue, store,
                  stateFile, lastCursor, crashes>>
  BY DEF UploadBoundaryFails
<1>3. uploadFailures' \in 0 .. MaxUploadFailures
  BY GenerateCsvAssumption DEF UploadBoundaryFails, Typed
<1>4. queue' \in [Tables -> SUBSET File] /\ \A u \in Tables : queue'[u] \subseteq queue[u]
  BY <1>1 DEF Typed
<1>5. lost' \in [Tables -> SUBSET File]
  BY <1>1 DEF Typed
<1>6. Typed'
  BY <1>2, <1>3, <1>4, <1>5 DEF Typed
<1>7. WritersInv' /\ FilesWellFormed'
  <2>1. \A u \in Tables : queue'[u] \union lost'[u] \subseteq queue[u] \union lost[u]
    BY <1>1, <1>4 DEF Typed
  <2>2. QED
    BY <1>2, <2>1 DEF WritersInv, FilesWellFormed
<1>8. QED
  BY <1>6, <1>7

\* The queues stay empty once they are drained.
LEMMA PhaseKeeps ==
    ASSUME Typed, PhaseInv, Next
    PROVE  PhaseInv'
<1> USE DEF PhaseInv, Remaining, bundlerVars, faultVars, Drained, Down
<1>1. CASE \E b \in Chain : HandleBlockScopedData(b)
  BY <1>1 DEF HandleBlockScopedData
<1>2. CASE \E b \in Chain : RejectBlock(b)
  BY <1>2 DEF RejectBlock
<1>3. CASE HandleBlockRangeCompletion
  BY <1>3 DEF HandleBlockRangeCompletion
<1>4. CASE WriteCursorsTable
  BY <1>4 DEF WriteCursorsTable, CursorsTable
<1>5. CASE \E t \in Tables : UploadBoundary(t)
  <2>1. PICK t \in Tables : UploadBoundary(t)
    BY <1>5
  <2>2. /\ \A u \in Tables : queue[u] = {} => queue'[u] = {}
        /\ lost' = lost
    BY <2>1 DEF UploadBoundary, Typed
  <2>3. UNCHANGED <<phase, cursor, crashes, lastCursor>>
    BY <2>1 DEF UploadBoundary
  <2>4. QED
    BY <2>2, <2>3
<1>6. CASE UploadCursor
  BY <1>6 DEF UploadCursor
<1>7. CASE Terminated
  BY <1>7 DEF Terminated
<1>8. CASE Crash
  <2>1. crashes' # 0 /\ phase' = "down"
    BY <1>8, GenerateCsvAssumption DEF Crash, Typed
  <2>2. QED
    BY <2>1
<1>9. CASE Run
  BY <1>9 DEF Run
<1>10. CASE Hang \/ Done
  BY <1>10 DEF Hang, Done, vars
<1>11. CASE WriteCursorsTableFails
  BY <1>11 DEF WriteCursorsTableFails
<1>12. CASE UploadCursorFails
  BY <1>12 DEF UploadCursorFails, Alive
<1>13. CASE \E t \in Tables : UploadBoundaryFails(t)
  <2>1. PICK t \in Tables : UploadBoundaryFails(t)
    BY <1>13
  <2>2. /\ \A u \in Tables : queue[u] = {} => queue'[u] = {}
        /\ \A u \in Tables : lost[u] # {} => lost'[u] # {}
    BY <2>1 DEF UploadBoundaryFails, Typed
  <2>3. UNCHANGED <<phase, cursor, crashes, lastCursor>>
    BY <2>1 DEF UploadBoundaryFails
  <2>4. QED
    BY <2>2, <2>3
<1>14. QED
  BY <1>1, <1>2, <1>3, <1>4, <1>5, <1>6, <1>7, <1>8, <1>9, <1>10, <1>11, <1>12, <1>13 DEF Next

-----------------------------------------------------------------------------
(* The steps of GenerateCsv: where the rows are.                           *)

\* The boundary that is open is not empty, and not the first one if any is closed.
LEMMA OpenBoundary ==
    ASSUME Typed, NEW t \in Tables, OpenPlace(t), Chain # {}
    PROVE  /\ active[t].start \in Nat /\ active[t].end \in Nat
           /\ First.start \in Nat /\ First.end \in Nat /\ First.start < First.end
           /\ active[t].start < active[t].end
<1>1. active[t] \in Boundary /\ First \in Boundary
  BY FirstType DEF Typed
<1>2. /\ active[t].start \in Nat /\ active[t].end \in Nat
      /\ First.start \in Nat /\ First.end \in Nat
  BY <1>1, BoundaryNumbers
<1>3. First.start < First.end
  BY <1>2, FirstShape, BundlerAssumption
<1>4. CASE cursor = None
  BY <1>2, <1>3, <1>4 DEF OpenPlace
<1>5. CASE cursor # None
  <2>1. cursor \in Nat /\ active[t].start <= cursor /\ cursor < active[t].end
    BY <1>5, CursorType, ChainType DEF OpenPlace
  <2>2. QED
    BY <1>2, <1>3, <2>1
<1>6. QED
  BY <1>4, <1>5

\* A block that does not fit in the open boundary comes after it.
LEMMA RollsAfter ==
    ASSUME Typed, NEW t \in Tables, OpenPlace(t), NEW b \in Chain,
           Remaining # {}, b = Min(Remaining)
    PROVE  /\ active[t].start <= b
           /\ Rolls(t, b) <=> active[t].end <= b
           /\ \A c \in Chain : c < b => c < active[t].end
<1>1. /\ b \in Nat /\ cursor < b
      /\ \A c \in Chain : c < b => c <= cursor
  BY NextBlock
<1>2. active[t].start \in Nat /\ active[t].end \in Nat
  BY OpenBoundary
<1>3. active[t].start <= b
  <2>1. CASE cursor = None
    <3>1. First.start \in Nat /\ First.start <= StartBlock /\ StartBlock <= b
          /\ StartBlock \in Nat
      BY FirstShape, FirstType, BoundaryNumbers, ChainType
    <3>2. QED
      BY <1>1, <2>1, <3>1 DEF OpenPlace
  <2>2. CASE cursor # None
    <3>1. cursor \in Nat
      BY <2>2, CursorType, ChainType
    <3>2. QED
      BY <1>1, <1>2, <2>2, <3>1 DEF OpenPlace
  <2>3. QED
    BY <2>1, <2>2
<1>4. ASSUME NEW c \in Chain, c < b PROVE c < active[t].end
  <2>1. c \in Nat /\ c <= cursor
    BY <1>1, <1>4, ChainType
  <2>2. cursor # None
    BY <2>1 DEF None
  <2>3. cursor \in Nat
    BY <2>2, CursorType, ChainType
  <2>4. QED
    BY <1>2, <2>1, <2>2, <2>3 DEF OpenPlace
<1>5. Rolls(t, b) <=> active[t].end <= b
  BY <1>1, <1>2, <1>3 DEF Rolls, InRange
<1>6. QED
  BY <1>3, <1>4, <1>5

\* A block the open boundary holds: its row waits with the others.
LEMMA BlockStays ==
    ASSUME Typed, WritersInv, NEW t \in Tables, OpenPlace(t), ClosedPlace(t),
           NEW b \in Chain, HandleBlockScopedData(b), ~ Rolls(t, b)
    PROVE  OpenPlace(t)' /\ ClosedPlace(t)'
<1>1. Remaining # {} /\ b = Min(Remaining)
  BY DEF HandleBlockScopedData
<1>2. /\ b \in Nat /\ cursor < b /\ cursor \in Int
      /\ {c \in Chain : c <= b} = Handled \union {b}
  BY <1>1, NextBlock, CursorType
<1>3. /\ queue'[t] = queue[t] /\ writer'[t] = Dumped(t, b) /\ active'[t] = active[t]
      /\ cursor' = b /\ emits' = emits /\ store' = store /\ lost' = lost
  BY HandleBlockTables
<1>4. Handled' = Handled \union {b} /\ b \notin Handled
  BY <1>2, <1>3 DEF Handled
<1>5. Opened(t)' = Opened(t) /\ Closed(t)' = Closed(t)
  BY <1>3 DEF Opened, Rolled, Closed, Stored
<1>6. b \notin Opened(t)
  BY <1>4 DEF OpenPlace
<1>7. RowsIn(CloseBoundary(writer'[t]))
        = {c \in Handled' \ Opened(t)' : t \in emits'[c]}
  <2>1. RowsIn(CloseBoundary(writer'[t])) = RowsIn(CloseBoundary(writer[t])) \union
                                              (IF t \in emits[b] THEN {b} ELSE {})
    BY <1>2, <1>3, DumpedHolds
  <2>2. RowsIn(CloseBoundary(writer[t])) = {c \in Handled \ Opened(t) : t \in emits[c]}
    BY DEF OpenPlace
  <2>3. QED
    BY <1>3, <1>4, <1>5, <1>6, <2>1, <2>2
<1>8. cursor' # None
  BY <1>2, <1>3 DEF None
<1>9. active[t].start <= b /\ b < active[t].end
  <2>1. active[t].start \in Nat /\ active[t].end \in Nat
    BY OpenBoundary
  <2>2. QED
    BY <1>1, <1>2, <2>1, RollsAfter
<1>10. OpenPlace(t)'
  BY <1>3, <1>4, <1>5, <1>7, <1>8, <1>9 DEF OpenPlace
<1>11. \A f : FilePlace(t, f) => FilePlace(t, f)'
  BY <1>3 DEF FilePlace, RowsOfRange, Rolled
<1>12. ClosedPlace(t)'
  BY <1>3, <1>5, <1>11 DEF ClosedPlace
<1>13. QED
  BY <1>10, <1>12

\* A block past the open boundary: its row is the last of the file that is closed.
LEMMA BlockRolls ==
    ASSUME Typed, WritersInv, NEW t \in Tables, OpenPlace(t), ClosedPlace(t),
           NEW b \in Chain, HandleBlockScopedData(b), Rolls(t, b)
    PROVE  OpenPlace(t)' /\ ClosedPlace(t)'
<1> DEFINE old == active[t]
           new == NewBoundary(b)
<1>0. PICK f0 : f0 = [range |-> active[t], lines |-> CloseBoundary(Dumped(t, b))]
  OBVIOUS
<1>1. Remaining # {} /\ b = Min(Remaining)
  BY DEF HandleBlockScopedData
<1>2. /\ b \in Nat /\ cursor < b /\ cursor \in Int
      /\ {c \in Chain : c <= b} = Handled \union {b}
  BY <1>1, NextBlock, CursorType
<1>3. /\ queue'[t] = queue[t] \union (IF Wrote(t, b) THEN {f0} ELSE {})
      /\ writer'[t] = EmptyWriter /\ active'[t] = new
      /\ cursor' = b /\ emits' = emits /\ store' = store /\ lost' = lost
  BY <1>0, <1>2, HandleBlockTables, StopQueues
<1>4. Handled' = Handled \union {b} /\ Handled' = {c \in Chain : c <= b} /\ b \notin Handled
  BY <1>2, <1>3 DEF Handled
<1>5. /\ old.start \in Nat /\ old.end \in Nat /\ First.start \in Nat /\ First.end \in Nat
      /\ First.start < First.end /\ old.start < old.end
      /\ new.start \in Nat /\ new.end \in Nat
  BY <1>2, OpenBoundary, NewBoundaryShape DEF BlockRanges
<1>6. old.end <= b /\ \A c \in Chain : c < b => c < old.end
  BY <1>1, RollsAfter
<1>7. PICK a \in Nat : old = NewBoundary(a)
  BY DEF Typed
<1>8. /\ Rolled(new.start) = {c \in Chain : c <= b}
      /\ Rolled(old.end) = {c \in Chain : c <= b}
  BY <1>6, <1>7, RolledAt
<1>9. old.end <= new.start /\ new.start <= b /\ b < new.end
  BY <1>6, <1>7, NewBoundaryAfter, NewBoundaryHolds
<1>10. First.end <= old.end /\ First.start <= old.start
  BY <1>5 DEF OpenPlace
<1>11. First.end <= new.start /\ First.start <= new.start /\ new # First
  <2>1. First.end <= new.start /\ First.start <= new.start
    BY <1>5, <1>9, <1>10
  <2>2. First.start < new.start
    BY <1>5, <1>9, <1>10
  <2>3. QED
    BY <1>5, <2>1, <2>2
<1>12. Opened(t)' = Handled'
  BY <1>3, <1>4, <1>8, <1>11 DEF Opened, Rolled
<1>13. OpenPlace(t)'
  <2>1. cursor' # None
    BY <1>2, <1>3 DEF None
  <2>2. RowsIn(CloseBoundary(writer'[t])) = {}
    BY <1>3, EmptyWriterHolds
  <2>3. QED
    BY <1>3, <1>9, <1>11, <1>12, <2>1, <2>2 DEF OpenPlace
<1>14. /\ WriterOf(Dumped(t, b), Wrote(t, b), b)
       /\ RowsIn(CloseBoundary(Dumped(t, b)))
             = RowsIn(CloseBoundary(writer[t])) \union (IF t \in emits[b] THEN {b} ELSE {})
  BY <1>2, DumpedHolds
<1>15. RowsIn(f0.lines) = {c \in Handled' \ Opened(t) : t \in emits[c]}
  <2>1. b \notin Opened(t)
    BY <1>4 DEF OpenPlace
  <2>2. RowsIn(CloseBoundary(writer[t])) = {c \in Handled \ Opened(t) : t \in emits[c]}
    BY DEF OpenPlace
  <2>3. QED
    BY <1>0, <1>4, <1>14, <2>1, <2>2
<1>16. RowsIn(f0.lines) = RowsOfRange(t, old)
  BY <1>4, <1>8, <1>15 DEF RowsOfRange, Opened
<1>17. Closed(t)' = Closed(t) \union (IF Wrote(t, b) THEN {f0} ELSE {})
  BY <1>3 DEF Closed, Stored
<1> HIDE DEF new
<1>18. f0.range = old
  BY <1>0
<1>19. FilePlace(t, f0)'
  <2>1. RowsOfRange(t, old) = RowsOfRange(t, f0.range)'
    BY <1>3, <1>18 DEF RowsOfRange, Rolled
  <2>2. old = First \/ First.end <= old.start
    BY DEF OpenPlace
  <2>3. QED
    BY <1>3, <1>5, <1>9, <1>10, <1>16, <1>18, <2>1, <2>2 DEF FilePlace
<1>20. ASSUME NEW f \in Closed(t)
       PROVE  FilePlace(t, f)' /\ Apart(f.range, old) /\ Apart(old, f.range) /\ f.range # old
  <2>1. FilePlace(t, f)
    BY DEF ClosedPlace
  <2>2. f.range.start \in Nat /\ f.range.end \in Nat
    <3>1. f.range \in Boundary
      BY ClosedType DEF File
    <3>2. QED
      BY <3>1, BoundaryNumbers
  <2>3. f.range.end <= old.start /\ f.range.end <= new.start
    BY <1>5, <1>9, <2>1, <2>2 DEF FilePlace
  <2>4. FilePlace(t, f)'
    BY <1>3, <2>1, <2>3 DEF FilePlace, RowsOfRange, Rolled
  <2>5. f.range # old
    BY <1>5, <2>2, <2>3, <2>1 DEF FilePlace
  <2>6. QED
    BY <2>3, <2>4, <2>5 DEF Apart
<1>21. \A f \in Closed(t)' : FilePlace(t, f)'
  BY <1>17, <1>19, <1>20
<1>22. \A f, g \in Closed(t)' : f # g => Apart(f.range, g.range)
  BY <1>17, <1>18, <1>20 DEF ClosedPlace
<1>23. \A f \in queue'[t] \union lost'[t] : f.range \notin DOMAIN store'[t]
  <2>1. ASSUME NEW r \in DOMAIN store[t] PROVE r # old
    <3>1. [range |-> r, lines |-> store[t][r]] \in Closed(t)
      BY DEF Closed, Stored
    <3>2. QED
      BY <1>20, <3>1
  <2>2. QED
    BY <1>3, <1>18, <2>1 DEF ClosedPlace
<1>24. ASSUME NEW c \in Opened(t)', t \in emits'[c]
       PROVE  \E f \in Closed(t)' : c \in RowsIn(f.lines)
  <2>1. CASE c \in Opened(t)
    BY <1>3, <1>17, <1>24, <2>1 DEF ClosedPlace
  <2>2. CASE c \notin Opened(t)
    <3>1. c \in RowsIn(f0.lines)
      BY <1>3, <1>12, <1>15, <1>24, <2>2
    <3>2. Wrote(t, b)
      <4>1. SUFFICES ASSUME ~ Wrote(t, b) PROVE FALSE
        OBVIOUS
      <4>2. Dumped(t, b) = EmptyWriter
        BY <1>14, <4>1 DEF WriterOf
      <4>3. QED
        BY <1>0, <3>1, <4>2, EmptyWriterHolds
    <3>3. f0 \in Closed(t)'
      BY <1>17, <3>2
    <3>4. QED
      BY <3>1, <3>3
  <2>3. QED
    BY <2>1, <2>2
<1>25. ClosedPlace(t)'
  BY <1>21, <1>22, <1>23, <1>24 DEF ClosedPlace
<1>26. QED
  BY <1>13, <1>25

\* An uploaded file is the same file in the store.
LEMMA UploadPlaces ==
    ASSUME Typed, NEW t \in Tables, UploadBoundary(t),
           NEW u \in Tables, OpenPlace(u), ClosedPlace(u)
    PROVE  OpenPlace(u)' /\ ClosedPlace(u)'
<1>1. PICK f \in queue[t] :
          /\ queue' = [queue EXCEPT ![t] = @ \ {f}]
          /\ store' = [store EXCEPT ![t] = WriteObject(@, f.range, f.lines)]
  BY DEF UploadBoundary
<1>2. UNCHANGED <<emits, cursor, active, writer, lost>>
  BY DEF UploadBoundary
<1>3. OpenPlace(u)'
  BY <1>2 DEF OpenPlace, Opened, Handled, Rolled
<1>4. CASE u # t
  <2>1. queue'[u] = queue[u] /\ store'[u] = store[u]
    BY <1>1, <1>4 DEF Typed
  <2>2. Closed(u)' = Closed(u) /\ Opened(u)' = Opened(u)
    BY <1>2, <2>1 DEF Closed, Stored, Opened, Rolled
  <2>3. \A g : FilePlace(u, g) => FilePlace(u, g)'
    BY <1>2 DEF FilePlace, RowsOfRange, Rolled
  <2>4. ClosedPlace(u)'
    BY <1>2, <2>1, <2>2, <2>3 DEF ClosedPlace
  <2>5. QED
    BY <1>3, <2>4
<1>5. CASE u = t
  <2>1. f \in File /\ f.range \notin DOMAIN store[t]
    BY <1>5 DEF Typed, ClosedPlace
  <2>2. f = [range |-> f.range, lines |-> f.lines]
    BY <2>1 DEF File
  <2>3. /\ DOMAIN store'[t] = DOMAIN store[t] \union {f.range}
        /\ \A r \in DOMAIN store[t] : store'[t][r] = store[t][r]
        /\ store'[t][f.range] = f.lines
    <3>1. /\ DOMAIN store'[t] = DOMAIN store[t] \union {f.range}
          /\ \A r \in DOMAIN store'[t] :
               store'[t][r] = IF r = f.range /\ ~ (KeepsExisting /\ r \in DOMAIN store[t])
                              THEN f.lines ELSE store[t][r]
      BY <1>1, UploadStores
    <3>2. QED
      BY <2>1, <3>1
  <2>4. queue'[t] = queue[t] \ {f}
    BY <1>1 DEF Typed
  <2>5. {[range |-> r, lines |-> store'[t][r]] : r \in DOMAIN store'[t]}
          = {[range |-> r, lines |-> store[t][r]] : r \in DOMAIN store[t]} \union {f}
    BY <2>2, <2>3
  <2>6. Closed(t)' = Closed(t)
    BY <1>2, <2>4, <2>5 DEF Closed, Stored
  <2>7. Opened(t)' = Opened(t)
    BY <1>2 DEF Opened, Rolled
  <2>8. \A g : FilePlace(t, g) => FilePlace(t, g)'
    BY <1>2 DEF FilePlace, RowsOfRange, Rolled
  <2>9. ASSUME NEW g \in queue'[t] \union lost'[t] PROVE g.range \notin DOMAIN store'[t]
    <3>0. lost'[t] = {}
      BY <1>2 DEF UploadBoundary, Down
    <3>1. g \in queue[t] /\ g # f /\ g \in Closed(t) /\ f \in Closed(t)
      BY <2>4, <3>0 DEF Closed
    <3>2. Apart(g.range, f.range) /\ FilePlace(t, f) /\ FilePlace(t, g)
      BY <1>5, <3>1 DEF ClosedPlace
    <3>3. f.range \in Boundary /\ g.range \in Boundary
      BY <2>1, <3>1, ClosedType DEF File
    <3>4. g.range # f.range
      BY <3>2, <3>3, BoundaryNumbers DEF Apart, FilePlace
    <3>5. QED
      BY <1>5, <2>3, <3>1, <3>4 DEF ClosedPlace
  <2>10. ClosedPlace(t)'
    BY <1>2, <1>5, <2>6, <2>7, <2>8, <2>9 DEF ClosedPlace
  <2>11. QED
    BY <1>3, <1>5, <2>10
<1>6. QED
  BY <1>4, <1>5

\* A file whose upload failed is one that was closed.
LEMMA UploadFailsPlaces ==
    ASSUME Typed, NEW t \in Tables, UploadBoundaryFails(t),
           NEW u \in Tables, OpenPlace(u), ClosedPlace(u)
    PROVE  OpenPlace(u)' /\ ClosedPlace(u)'
<1>1. PICK f \in queue[t] :
          /\ queue' = [queue EXCEPT ![t] = @ \ {f}]
          /\ lost' = [lost EXCEPT ![t] = {f}]
  BY DEF UploadBoundaryFails
<1>2. UNCHANGED <<emits, cursor, active, writer, store>> /\ lost[t] = {}
  BY DEF UploadBoundaryFails, Down
<1>3. OpenPlace(u)'
  BY <1>2 DEF OpenPlace, Opened, Handled, Rolled
<1>4. queue'[u] \union lost'[u] = queue[u] \union lost[u] /\ queue'[u] \subseteq queue[u]
  <2>1. CASE u = t
    BY <1>1, <1>2, <2>1 DEF Typed
  <2>2. CASE u # t
    BY <1>1, <2>2 DEF Typed
  <2>3. QED
    BY <2>1, <2>2
<1>5. Closed(u)' = Closed(u) /\ Opened(u)' = Opened(u)
  <2>1. Stored(u)' = Stored(u)
    BY <1>2 DEF Stored
  <2>2. QED
    BY <1>2, <1>4, <2>1 DEF Closed, Opened, Rolled
<1>6. \A g : FilePlace(u, g) => FilePlace(u, g)'
  BY <1>2 DEF FilePlace, RowsOfRange, Rolled
<1>7. ClosedPlace(u)'
  BY <1>2, <1>4, <1>5, <1>6 DEF ClosedPlace
<1>8. QED
  BY <1>3, <1>7

\* Each step leaves every row in its place.
LEMMA PlaceKeeps ==
    ASSUME GInv, Next
    PROVE  PlaceInv'
<1>1. Typed /\ WritersInv /\ PhaseInv /\ PlaceInv
  BY DEF GInv
<1>2. ASSUME UNCHANGED <<emits, cursor, active, writer, queue, lost, store, crashes>>
      PROVE  PlaceInv'
  BY <1>1, <1>2 DEF PlaceInv, OpenPlace, ClosedPlace, FilePlace, Opened, Handled, Rolled,
                    RowsOfRange, Closed, Stored
<1> USE DEF bundlerVars, faultVars
<1>3. ASSUME NEW b \in Chain, HandleBlockScopedData(b) PROVE PlaceInv'
  <2>1. crashes' = crashes
    BY <1>3 DEF HandleBlockScopedData
  <2>2. ASSUME crashes = 0, NEW t \in Tables PROVE OpenPlace(t)' /\ ClosedPlace(t)'
    <3>1. OpenPlace(t) /\ ClosedPlace(t)
      BY <1>1, <2>2 DEF PlaceInv
    <3>2. QED
      BY <1>1, <1>3, <3>1, BlockStays, BlockRolls
  <2>3. QED
    BY <2>1, <2>2 DEF PlaceInv
<1>4. ASSUME NEW b \in Chain, RejectBlock(b) PROVE PlaceInv'
  BY <1>2, <1>4 DEF RejectBlock
<1>5. ASSUME HandleBlockRangeCompletion PROVE PlaceInv'
  BY <1>2, <1>5 DEF HandleBlockRangeCompletion
<1>6. ASSUME WriteCursorsTable PROVE PlaceInv'
  BY <1>2, <1>6 DEF WriteCursorsTable
<1>7. ASSUME NEW t \in Tables, UploadBoundary(t) PROVE PlaceInv'
  <2>1. crashes' = crashes
    BY <1>7 DEF UploadBoundary
  <2>2. ASSUME crashes = 0, NEW u \in Tables PROVE OpenPlace(u)' /\ ClosedPlace(u)'
    <3>1. OpenPlace(u) /\ ClosedPlace(u)
      BY <1>1, <2>2 DEF PlaceInv
    <3>2. QED
      BY <1>1, <1>7, <3>1, UploadPlaces
  <2>3. QED
    BY <2>1, <2>2 DEF PlaceInv
<1>8. ASSUME UploadCursor PROVE PlaceInv'
  BY <1>2, <1>8 DEF UploadCursor
<1>9. ASSUME Terminated PROVE PlaceInv'
  BY <1>2, <1>9 DEF Terminated
<1>10. ASSUME Crash PROVE PlaceInv'
  <2>1. crashes' # 0
    BY <1>1, <1>10, GenerateCsvAssumption DEF Crash, Typed
  <2>2. QED
    BY <2>1 DEF PlaceInv
<1>11. ASSUME Run PROVE PlaceInv'
  <2>1. crashes # 0 /\ crashes' = crashes
    BY <1>1, <1>11 DEF Run, PhaseInv
  <2>2. QED
    BY <2>1 DEF PlaceInv
<1>12. ASSUME Hang \/ Done PROVE PlaceInv'
  BY <1>2, <1>12 DEF Hang, Done, vars
<1>13. ASSUME WriteCursorsTableFails PROVE PlaceInv'
  BY <1>2, <1>13 DEF WriteCursorsTableFails
<1>14. ASSUME UploadCursorFails PROVE PlaceInv'
  BY <1>2, <1>14 DEF UploadCursorFails
<1>15. ASSUME NEW t \in Tables, UploadBoundaryFails(t) PROVE PlaceInv'
  <2>1. crashes' = crashes
    BY <1>15 DEF UploadBoundaryFails
  <2>2. ASSUME crashes = 0, NEW u \in Tables PROVE OpenPlace(u)' /\ ClosedPlace(u)'
    <3>1. OpenPlace(u) /\ ClosedPlace(u)
      BY <1>1, <2>2 DEF PlaceInv
    <3>2. QED
      BY <1>1, <1>15, <3>1, UploadFailsPlaces
  <2>3. QED
    BY <2>1, <2>2 DEF PlaceInv
<1>16. QED
  BY <1>3, <1>4, <1>5, <1>6, <1>7, <1>8, <1>9, <1>10, <1>11, <1>12, <1>13, <1>14, <1>15
     DEF Next

\* The invariant survives every step.
LEMMA GNext == ASSUME GInv, [Next]_vars PROVE GInv'
<1>1. CASE Next
  <2>1. Typed' /\ WritersInv' /\ FilesWellFormed'
    <3>1. Typed /\ WritersInv /\ FilesWellFormed
      BY DEF GInv
    <3>2. QED
      BY <1>1, <3>1, HandleBlockKeeps, UploadKeeps, UploadFailsKeeps, OtherKeeps DEF Next
  <2>2. PhaseInv'
    BY <1>1, PhaseKeeps DEF GInv
  <2>3. PlaceInv'
    BY <1>1, PlaceKeeps
  <2>4. QED
    BY <2>1, <2>2, <2>3 DEF GInv
<1>2. CASE UNCHANGED vars
  BY <1>2 DEF vars, GInv, Typed, WritersInv, FilesWellFormed, PhaseInv, Remaining, PlaceInv,
       OpenPlace, ClosedPlace, FilePlace, Opened, Handled, Rolled, RowsOfRange, Closed, Stored,
       Drained, Down
<1>3. QED
  BY <1>1, <1>2

\* In every reachable state of generate-csv the writers hold readable files, and without
\* a crash each row is where its boundary says.
THEOREM GenerateInvariance == Spec => []GInv
<1>1. Init => GInv
  BY GInit
<1>2. GInv /\ [Next]_vars => GInv'
  BY GNext
<1>3. QED
  BY <1>1, <1>2, PTL DEF Spec

-----------------------------------------------------------------------------
(* The properties of GenerateCsv.                                          *)

\* The invariant implies the types.
LEMMA GInvTyped == ASSUME GInv PROVE TypeOK
<1>1. Typed
  BY DEF GInv
<1>2. ASSUME NEW t \in Tables
      PROVE  /\ writer[t].memory \in Seq(Line) /\ writer[t].disk \in Seq(Line)
             /\ \A f \in queue[t] \union lost[t] : f.range \in Boundary /\ f.lines \in Seq(Line)
             /\ \A r \in DOMAIN store[t] : r \in Boundary /\ store[t][r] \in Seq(Line)
  <2>1. writer[t] \in Writer /\ queue[t] \subseteq File /\ lost[t] \subseteq File
    BY <1>1 DEF Typed
  <2>2. \A r \in DOMAIN store[t] : r \in Boundary /\ store[t][r] \in Seq(Line)
    BY <1>1 DEF Typed, Lines
  <2>3. QED
    BY <2>1, <2>2 DEF Writer, File, Lines
<1>3. /\ DOMAIN writer = Tables /\ DOMAIN queue = Tables /\ DOMAIN lost = Tables
      /\ DOMAIN store = Tables
  BY <1>1 DEF Typed
<1>4. QED
  BY <1>1, <1>2, <1>3 DEF Typed, TypeOK, Phases

\* What is known of a closed file and of two of them
LEMMA ClosedFiles ==
    ASSUME GInv, crashes = 0, NEW t \in Tables, NEW f \in Closed(t)
    PROVE  /\ FilePlace(t, f)
           /\ RowsIn(f.lines) \subseteq Rolled(f.range.end)
           /\ f.range.start \in Nat /\ f.range.end \in Nat
           /\ active[t] # First /\ f.range.end <= active[t].start
           /\ active[t].start \in Nat
           /\ WellFormed(f.lines)
<1>1. Typed /\ OpenPlace(t) /\ ClosedPlace(t) /\ FilesWellFormed
  BY DEF GInv, PlaceInv
<1>2. f \in File /\ FilePlace(t, f)
  BY <1>1, ClosedType DEF ClosedPlace
<1>3. f.range \in Boundary /\ active[t] \in Boundary /\ First \in Boundary
  BY <1>1, <1>2, FirstType DEF File, Typed
<1>4. /\ f.range.start \in Nat /\ f.range.end \in Nat /\ active[t].start \in Nat
      /\ First.start \in Nat
  BY <1>3, BoundaryNumbers
<1>5. active[t] # First
  BY <1>2, <1>4 DEF FilePlace
<1>6. RowsIn(f.lines) \subseteq Rolled(f.range.end)
  BY <1>2 DEF FilePlace, RowsOfRange
<1>7. WellFormed(f.lines)
  BY <1>1 DEF FilesWellFormed, Closed, Stored
<1>8. QED
  BY <1>2, <1>4, <1>5, <1>6, <1>7 DEF FilePlace

\* Files that do not overlap have their rows in order.
LEMMA FilesOrdered ==
    ASSUME GInv, crashes = 0, NEW t \in Tables, NEW f \in Closed(t), NEW g \in Closed(t),
           f.range.end <= g.range.start
    PROVE  \A c \in RowsIn(f.lines), d \in RowsIn(g.lines) : c < d
<1>1. /\ FilePlace(t, f) /\ FilePlace(t, g)
      /\ f.range.start \in Nat /\ f.range.end \in Nat /\ g.range.start \in Nat
  BY ClosedFiles
<1>2. g.range # First
  <2>1. First.start \in Nat
    BY FirstType, BoundaryNumbers
  <2>2. QED
    BY <1>1, <2>1 DEF FilePlace
<1>3. RowsIn(f.lines) \subseteq Rolled(g.range.start)
  BY <1>1, ClosedFiles, RolledGrows
<1>4. RowsIn(g.lines) \subseteq Chain \ Rolled(g.range.start)
  BY <1>1, <1>2 DEF FilePlace, RowsOfRange, Rolled
<1>5. ASSUME NEW c \in RowsIn(f.lines), NEW d \in RowsIn(g.lines) PROVE c < d
  <2>1. PICK e \in Chain : g.range.start <= e /\ ~ (d <= e)
    BY <1>4 DEF Rolled
  <2>2. c <= e /\ c \in Chain /\ d \in Chain
    BY <1>3, <1>4, <2>1 DEF Rolled
  <2>3. c \in Nat /\ d \in Nat /\ e \in Nat
    BY <2>1, <2>2, ChainType
  <2>4. QED
    BY <2>1, <2>2, <2>3
<1>6. QED
  BY <1>5

\* The closed files of a table hold the rows of the blocks before the open boundary.
LEMMA ClosedRows ==
    ASSUME GInv, crashes = 0, NEW t \in Tables
    PROVE  UNION {RowsIn(f.lines) : f \in Closed(t)} = {c \in Opened(t) : t \in emits[c]}
<1> DEFINE closed == UNION {RowsIn(f.lines) : f \in Closed(t)}
<1>1. ClosedPlace(t)
  BY DEF GInv, PlaceInv
<1>2. ASSUME NEW f \in Closed(t)
      PROVE  RowsIn(f.lines) \subseteq {c \in Opened(t) : t \in emits[c]}
  <2>1. /\ FilePlace(t, f) /\ active[t] # First
        /\ RowsIn(f.lines) \subseteq Rolled(active[t].start)
    BY ClosedFiles, RolledGrows
  <2>2. QED
    BY <2>1 DEF FilePlace, RowsOfRange, Opened
<1>3. closed \subseteq {c \in Opened(t) : t \in emits[c]}
  BY <1>2
<1>4. {c \in Opened(t) : t \in emits[c]} \subseteq closed
  BY <1>1 DEF ClosedPlace
<1>5. QED
  BY <1>3, <1>4

\* Each row the process received is in one place.
LEMMA GInvRows == ASSUME GInv PROVE NoRowLostOrTwice
<1> SUFFICES ASSUME crashes = 0, NEW t \in Tables
             PROVE  LET open == RowsIn(CloseBoundary(writer[t]))
                    IN  /\ EmittedUpTo(t, cursor) = open \union RowsOfAll(Closed(t))
                        /\ \A f, g \in Closed(t) :
                             f # g => RowsIn(f.lines) \intersect RowsIn(g.lines) = {}
                        /\ \A f \in Closed(t) : \A c \in RowsIn(f.lines), o \in open : c < o
  BY DEF NoRowLostOrTwice
<1> DEFINE open == RowsIn(CloseBoundary(writer[t]))
           closed == RowsOfAll(Closed(t))
<1>1. Typed /\ OpenPlace(t) /\ ClosedPlace(t)
  BY DEF GInv, PlaceInv
<1>2. open = {c \in Handled \ Opened(t) : t \in emits[c]}
  BY <1>1 DEF OpenPlace
<1>3. EmittedUpTo(t, cursor) = {c \in Handled : t \in emits[c]}
  BY DEF EmittedUpTo, Handled
<1>4. Opened(t) \subseteq Handled
  BY <1>1 DEF OpenPlace
<1>5. closed = {c \in Opened(t) : t \in emits[c]}
  BY ClosedRows DEF RowsOfAll
<1> HIDE DEF open, closed
<1>6. EmittedUpTo(t, cursor) = open \union closed
  BY <1>2, <1>3, <1>4, <1>5
<1>7. ASSUME NEW f \in Closed(t), NEW g \in Closed(t), f # g
      PROVE  RowsIn(f.lines) \intersect RowsIn(g.lines) = {}
  <2>1. Apart(f.range, g.range)
    BY <1>1, <1>7 DEF ClosedPlace
  <2>2. RowsIn(f.lines) \subseteq Nat /\ RowsIn(g.lines) \subseteq Nat
    BY ChainType, ClosedFiles DEF Rolled
  <2>3. \/ \A c \in RowsIn(f.lines), d \in RowsIn(g.lines) : c < d
        \/ \A c \in RowsIn(g.lines), d \in RowsIn(f.lines) : c < d
    BY <2>1, FilesOrdered DEF Apart
  <2>4. \A c \in Nat : ~ (c < c)
    OBVIOUS
  <2>5. QED
    BY <2>2, <2>3, <2>4
<1>8. ASSUME NEW f \in Closed(t), NEW c \in RowsIn(f.lines), NEW o \in open
       PROVE  c < o
  <2>1. c \in Opened(t) /\ o \in Handled \ Opened(t) /\ active[t] # First
    <3>1. c \in closed
      BY <1>8 DEF closed, RowsOfAll
    <3>2. QED
      BY <1>2, <1>5, <3>1, ClosedFiles
  <2>2. PICK d \in Chain : active[t].start <= d /\ ~ (o <= d)
    BY <2>1 DEF Opened, Rolled, Handled
  <2>3. c <= d /\ c \in Chain /\ o \in Chain
    BY <2>1, <2>2 DEF Opened, Rolled, Handled
  <2>4. c \in Nat /\ o \in Nat /\ d \in Nat
    BY <2>2, <2>3, ChainType
  <2>5. QED
    BY <2>2, <2>3, <2>4
<1>9. QED
  BY <1>6, <1>7, <1>8 DEF open, closed

\* The files hold the rows of the blocks after the first of their boundary.
LEMMA GInvShifted == ASSUME GInv PROVE FilesShifted
<1> SUFFICES ASSUME crashes = 0, NEW t \in Tables, NEW f \in Closed(t)
             PROVE  LET first == NewBoundary(StartBlock)
                        before(n) == {c \in Chain : c < n}
                        next(n) == {c \in Chain : c >= n}
                        rolled(n) == before(n) \union (IF next(n) = {} THEN {}
                                                       ELSE {Min(next(n))})
                    IN  RowsIn(f.lines) =
                          {c \in rolled(f.range.end) : t \in emits[c]}
                            \ (IF f.range = first THEN {} ELSE rolled(f.range.start))
  BY DEF FilesShifted
<1>1. /\ FilePlace(t, f) /\ f.range.start \in Nat /\ f.range.end \in Nat
  BY ClosedFiles
<1>2. RowsIn(f.lines) = {c \in Rolled(f.range.end) : t \in emits[c]}
                          \ (IF f.range = First THEN {} ELSE Rolled(f.range.start))
  BY <1>1 DEF FilePlace, RowsOfRange
<1>3. \A n \in Nat : Rolled(n) = {c \in Chain : c < n} \union
                          (IF {c \in Chain : c >= n} = {} THEN {}
                           ELSE {Min({c \in Chain : c >= n})})
  BY RolledIsMin
<1>4. QED
  BY <1>1, <1>2, <1>3 DEF First

\* The files are readable and the skipped boundaries tile.
LEMMA GInvReadable == ASSUME GInv PROVE FilesReadable
<1>1. Typed /\ FilesWellFormed
  BY DEF GInv
<1>2. ASSUME NEW t \in Tables, NEW b \in {c \in Chain : c >= active[t].end}
      PROVE  LET tiles == <<active[t]>> \o BoundariesToSkip(active[t], b)
                             \o <<NewBoundary(b)>>
             IN  \A i \in 1 .. (Len(tiles) - 1) : tiles[i].end = tiles[i + 1].start
  <2>1. PICK a \in Nat : active[t] = NewBoundary(a)
    BY <1>1 DEF Typed
  <2>2. QED
    BY <2>1, BoundariesTile
<1>3. QED
  BY <1>1, <1>2 DEF FilesReadable, SkippedBoundariesTile

\* A run that completed has handled the whole chain, and its bundlers are on the
\* boundary of the last block.
LEMMA CompletedState ==
    ASSUME GInv, Chain # {}, phase = "completed", crashes = 0, NEW t \in Tables
    PROVE  /\ Down(t) \/ queue[t] = {}
           /\ cursor \in Chain /\ cursor = Max(Chain) /\ lastCursor = cursor
           /\ active[t].start = NewBoundary(Max(Chain)).start
           /\ active[t].start \in Nat /\ active[t].start <= cursor
           /\ active[t].start <= StartBlock <=> active[t] = First
<1>1. Typed /\ PhaseInv /\ OpenPlace(t)
  BY DEF GInv, PlaceInv
<1>2. Chain \subseteq Nat /\ StopBlock \in Nat /\ StartBlock \in Nat
      /\ BundleSize \in Nat \ {0} /\ \A b \in Chain : b < StopBlock
  BY ChainType, BundlerAssumption
<1>3. (Down(t) \/ queue[t] = {}) /\ Remaining = {} /\ lastCursor = cursor
  BY <1>1 DEF PhaseInv, Drained
<1>4. cursor \in Chain /\ cursor # None
  <2>1. CASE cursor = None
    <3>1. PICK c \in Chain : TRUE
      OBVIOUS
    <3>2. c \in Nat /\ c > cursor
      BY <1>2, <2>1 DEF None
    <3>3. FALSE
      BY <1>3, <3>2 DEF Remaining
    <3>4. QED
      BY <3>3
  <2>2. QED
    BY <1>1, <2>1, CursorType
<1>5. cursor \in Nat
  BY <1>2, <1>4
<1>6. \A c \in Chain : c <= cursor
  <2>1. ASSUME NEW c \in Chain PROVE c <= cursor
    <3>1. c \in Nat /\ ~ (c > cursor)
      BY <1>2, <1>3 DEF Remaining
    <3>2. QED
      BY <1>5, <3>1
  <2>2. QED
    BY <2>1
<1>7. Max(Chain) = cursor
  <2>1. Chain \subseteq 0 .. StopBlock
    BY <1>2
  <2>2. Max(Chain) \in Chain /\ \A y \in Chain : y <= Max(Chain)
    BY <1>2, <2>1, MaxProperties
  <2>3. PICK m \in Nat : m = Max(Chain)
    BY <1>2, <2>2
  <2>4. m <= cursor /\ cursor <= m
    BY <1>4, <1>6, <2>2, <2>3
  <2>5. QED
    BY <1>5, <2>3, <2>4
<1>8. PICK a \in Nat : active[t] = NewBoundary(a)
  BY <1>1 DEF Typed
<1>9. /\ active[t] \in BlockRanges /\ active[t].start % BundleSize = 0
      /\ active[t].end = IF StopBlock < active[t].start + BundleSize
                         THEN StopBlock ELSE active[t].start + BundleSize
  BY <1>8, NewBoundaryShape
<1>10. active[t].start <= cursor /\ cursor < active[t].end
  BY <1>1, <1>4 DEF OpenPlace
<1>11. active[t].start \in Nat /\ active[t].end \in Nat
  BY <1>9 DEF BlockRanges
<1>12. cursor < active[t].start + BundleSize
  BY <1>2, <1>5, <1>9, <1>10, <1>11
<1>13. cursor - (cursor % BundleSize) = active[t].start
  BY <1>2, <1>5, <1>9, <1>10, <1>11, <1>12, AlignedUnique
<1>14. active[t].start = NewBoundary(Max(Chain)).start
  BY <1>7, <1>13 DEF NewBoundary, BlockRange
<1>15. active[t].start <= StartBlock <=> active[t] = First
  <2>1. First.start \in Nat /\ First.end \in Nat
    BY FirstShape DEF BlockRanges
  <2>2. First.start <= StartBlock /\ StartBlock < First.end
    BY FirstShape
  <2>3. active[t] = First \/ First.end <= active[t].start
    BY <1>1 DEF OpenPlace
  <2>4. QED
    BY <1>2, <1>11, <2>1, <2>2, <2>3
<1>16. QED
  BY <1>3, <1>4, <1>7, <1>10, <1>11, <1>14, <1>15

\* The rows of the files of a bundler that are not in the store are in no file of it.
LEMMA StoredRows ==
    ASSUME GInv, crashes = 0, NEW t \in Tables, Down(t) \/ queue[t] = {}
    PROVE  RowsOfAll(Stored(t))
             = {c \in Opened(t) : t \in emits[c]}
                 \ (IF Down(t) THEN RowsOfAll(queue[t] \union lost[t]) ELSE {})
<1> DEFINE waiting == queue[t] \union lost[t]
<1>1. RowsOfAll(Closed(t)) = {c \in Opened(t) : t \in emits[c]}
  BY ClosedRows DEF RowsOfAll
<1>2. Closed(t) = waiting \union Stored(t)
  BY DEF Closed
<1>3. RowsOfAll(Closed(t)) = RowsOfAll(waiting) \union RowsOfAll(Stored(t))
  BY <1>2 DEF RowsOfAll
<1>4. ClosedPlace(t) /\ Typed
  BY DEF GInv, PlaceInv
<1>5. ASSUME NEW f \in waiting, NEW g \in Stored(t)
      PROVE  RowsIn(f.lines) \intersect RowsIn(g.lines) = {} \/ f = g
  BY <1>2, GInvRows DEF NoRowLostOrTwice
<1>6. ASSUME NEW f \in waiting, NEW g \in Stored(t) PROVE f # g
  <2>1. PICK r \in DOMAIN store[t] : g = [range |-> r, lines |-> store[t][r]]
    BY DEF Stored
  <2>2. g.range \in DOMAIN store[t]
    BY <2>1
  <2>3. f.range \notin DOMAIN store[t]
    BY <1>4 DEF ClosedPlace
  <2>4. QED
    BY <2>2, <2>3
<1>7. RowsOfAll(waiting) \intersect RowsOfAll(Stored(t)) = {}
  BY <1>5, <1>6 DEF RowsOfAll
<1>8. ~ Down(t) => RowsOfAll(waiting) = {}
  BY DEF Down, RowsOfAll
<1>9. QED
  BY <1>1, <1>3, <1>7, <1>8

\* What the files of a completed run hold, and the block its cursors table names.
LEMMA GInvCompleted == ASSUME GInv, Chain # {}, Tables # {} PROVE CompletedUpToLastRoll
<1> SUFFICES ASSUME phase = "completed", crashes = 0, NEW t \in Tables
             PROVE  /\ lastCursor = Max(Chain)
                    /\ LET start == NewBoundary(Max(Chain)).start
                           rolled == IF start <= StartBlock
                                     THEN {}
                                     ELSE {c \in Chain : c < start}
                                            \union {Min({c \in Chain : c >= start})}
                       IN  RowsOfAll(Stored(t))
                             = {c \in rolled : t \in emits[c]}
                                 \ (IF Down(t) THEN RowsOfAll(queue[t] \union lost[t]) ELSE {})
  BY DEF CompletedUpToLastRoll
<1>1. /\ Down(t) \/ queue[t] = {}
      /\ cursor \in Chain /\ cursor = Max(Chain) /\ lastCursor = cursor
      /\ active[t].start = NewBoundary(Max(Chain)).start
      /\ active[t].start \in Nat /\ active[t].start <= cursor
      /\ active[t].start <= StartBlock <=> active[t] = First
  BY CompletedState
<1> DEFINE start == NewBoundary(Max(Chain)).start
           after == {c \in Chain : c >= start}
           rolled == IF start <= StartBlock
                     THEN {} ELSE {c \in Chain : c < start} \union {Min(after)}
<1>2. after # {}
  <2>1. cursor \in Nat
    BY <1>1, ChainType
  <2>2. cursor >= start
    BY <1>1, <2>1
  <2>3. QED
    BY <1>1, <2>2
<1>3. Rolled(start) = {c \in Chain : c < start} \union {Min(after)}
  BY <1>1, <1>2, RolledIsMin
<1>4. rolled = Opened(t)
  BY <1>1, <1>3 DEF Opened
<1>5. RowsOfAll(Stored(t))
        = {c \in Opened(t) : t \in emits[c]}
            \ (IF Down(t) THEN RowsOfAll(queue[t] \union lost[t]) ELSE {})
  BY <1>1, StoredRows
<1>6. QED
  BY <1>1, <1>4, <1>5

-----------------------------------------------------------------------------
(* The theorems about generate-csv, for the command alone and with the     *)
(* injections that follow it.                                              *)

\* A behaviour of the two commands is, for the files, one of generate-csv.
LEMMA InjectGenerates == InjectSpec => Spec
<1>1. InjectInit => Init
  BY DEF InjectInit
<1>2. [InjectNext]_allVars => [Next]_vars
  <2>1. ASSUME NEW t \in Tables,
               StartFiller(t) \/ InjectCSVFromFile(t) \/ FillerFails(t) \/ FillerDone(t)
        PROVE  UNCHANGED vars
    BY <2>1 DEF StartFiller, InjectCSVFromFile, FillerFails, FillerDone
  <2>2. InjectCursorsTable => UNCHANGED vars
    BY DEF InjectCursorsTable
  <2>3. Generate => Next
    BY DEF Generate
  <2>4. UNCHANGED allVars => UNCHANGED vars
    BY DEF allVars
  <2>5. QED
    BY <2>1, <2>2, <2>3, <2>4 DEF InjectNext
<1>3. QED
  BY <1>1, <1>2, PTL DEF InjectSpec, Spec

\* The variables of generate-csv keep their types: a cursor is a block of the chain, a
\* boundary lies in the range of the command, a file holds a header and blocks.
THEOREM GenerateTypeCorrect == Spec => []TypeOK
<1>1. GInv => TypeOK
  BY GInvTyped
<1>2. QED
  BY <1>1, GenerateInvariance, PTL

\* As long as the process does not crash, every row handleBlockScopedData received is in
\* exactly one file or in the open boundary of its table, however the bundlers roll, spill
\* their buffers and upload their files; a file that is not in the store waits in a queue
\* or is one whose upload failed.
THEOREM RowsInOnePlace == Spec => []NoRowLostOrTwice
<1>1. GInv => NoRowLostOrTwice
  BY GInvRows
<1>2. QED
  BY <1>1, GenerateInvariance, PTL

\* A file holds the rows of its boundary shifted by one block: Roll is called after the
\* rows of a block are written, so the first block after the boundary is in it.
THEOREM FilesHoldShiftedRange == Spec => []FilesShifted
<1>1. GInv => FilesShifted
  BY GInvShifted
<1>2. QED
  BY <1>1, GenerateInvariance, PTL

\* Every file of the store, whatever crashed, has its header first and its rows in block
\* order, and the boundaries BoundariesToSkip passes over leave no gap between the names.
THEOREM FilesAlwaysReadable == Spec => []FilesReadable
<1>1. GInv => FilesReadable
  BY GInvReadable
<1>2. QED
  BY <1>1, GenerateInvariance, PTL

\* A run that ends without a crash names the last block in the cursors table and has stored
\* the rows up to its last roll, all of them for a bundler no upload of which failed; those
\* of the open boundaries are dropped: closeAllFileBundlers stops none of them.
THEOREM CompletedRows ==
    ASSUME Chain # {}, Tables # {} PROVE Spec => []CompletedUpToLastRoll
<1>1. GInv => CompletedUpToLastRoll
  BY GInvCompleted
<1>2. QED
  BY <1>1, GenerateInvariance, PTL

-----------------------------------------------------------------------------
(* The inductive invariant of InjectCsv.                                   *)

\* The rows of some files of a table
RowsOfFiles(t, R) == UNION {RowsIn(store[t][r]) : r \in R}

Increasing(s) == \A i, j \in DOMAIN s : i < j => s[i] < s[j]

InjectTyped ==
    /\ filler \in [Tables -> SUBSET Boundary]
    /\ result \in [Tables -> {Idle, "running", "failed", "nofile", "done"}]
    /\ table \in [Tables -> Seq(Chain)]
    /\ dbCursor \in Chain \union {None}
    /\ failures \in 0 .. MaxFailures

\* A filler loads files of its table, and only while it runs
FillerPlace(t) ==
    /\ filler[t] \subseteq FindFilesToLoad(t)
    /\ phase # "completed" => result[t] = Idle
    /\ result[t] = Idle => table[t] = <<>>
    /\ result[t] # "running" => filler[t] = {}

\* A table holds rows of the files wanted, all those of the files loaded by the
\* last invocation among them
RowsPlace(t) ==
    /\ RowsOf(t) \subseteq RowsOfFiles(t, FindFilesToLoad(t))
    /\ result[t] \in {"running", "done"} =>
         RowsOfFiles(t, FindFilesToLoad(t) \ filler[t]) \subseteq RowsOf(t)

\* Nothing fails without a key, but for the connection: the rows of the table are
\* those of the files loaded, once
LoadedOnce(t) ==
    (t \notin Keyed /\ failures = 0) =>
        /\ result[t] # "failed"
        /\ result[t] = "running" =>
             RowsOf(t) \subseteq RowsOfFiles(t, FindFilesToLoad(t) \ filler[t])
        /\ crashes = 0 => NoRepeat(table[t])

\* A table holds the files of L, the first ones, in order; the next file is the first
\* one after L, or the first of all in an invocation that starts again
InOrder(t, L) ==
    /\ Increasing(table[t])
    /\ RowsOf(t) = RowsOfFiles(t, L)
    /\ \A q \in L, r \in FindFilesToLoad(t) \ L : q.start < r.start
    /\ result[t] = "running" => \/ filler[t] = FindFilesToLoad(t) \ L
                                \/ filler[t] = FindFilesToLoad(t) /\ L # {}

TablePlace(t) ==
    /\ FillerPlace(t)
    /\ RowsPlace(t)
    /\ t \in Keyed => NoRepeat(table[t])
    /\ LoadedOnce(t)
    /\ (crashes = 0 /\ NoRepeat(table[t])) =>
         \E L \in SUBSET FindFilesToLoad(t) : InOrder(t, L)

InjInv == GInv /\ InjectTyped /\ \A t \in Tables : TablePlace(t)

-----------------------------------------------------------------------------
(* Sequences of rows.                                                      *)

Elements(s) == {s[i] : i \in DOMAIN s}

\* What a concatenation holds.
LEMMA ConcatElements ==
    ASSUME NEW s \in Seq(Chain), NEW u \in Seq(Chain)
    PROVE  /\ s \o u \in Seq(Chain)
           /\ Elements(s \o u) = Elements(s) \union Elements(u)
           /\ \A i \in DOMAIN s : i \in DOMAIN (s \o u) /\ (s \o u)[i] = s[i]
           /\ \A i \in DOMAIN u : /\ Len(s) + i \in DOMAIN (s \o u)
                                  /\ (s \o u)[Len(s) + i] = u[i]
           /\ \A i \in DOMAIN (s \o u) :
                i \in DOMAIN s \/ \E k \in DOMAIN u : i = Len(s) + k
<1> DEFINE p == s \o u
<1>1. /\ p \in Seq(Chain) /\ Len(p) = Len(s) + Len(u)
      /\ \A i \in 1 .. (Len(s) + Len(u)) :
           p[i] = IF i <= Len(s) THEN s[i] ELSE u[i - Len(s)]
  BY ConcatProperties
<1>2. /\ DOMAIN s = 1 .. Len(s) /\ DOMAIN u = 1 .. Len(u) /\ DOMAIN p = 1 .. Len(p)
      /\ Len(s) \in Nat /\ Len(u) \in Nat
  BY <1>1, LenProperties
<1> HIDE DEF p
<1>3. ASSUME NEW i \in DOMAIN s PROVE i \in DOMAIN p /\ p[i] = s[i]
  BY <1>1, <1>2
<1>4. ASSUME NEW i \in DOMAIN u PROVE Len(s) + i \in DOMAIN p /\ p[Len(s) + i] = u[i]
  BY <1>1, <1>2
<1>5. ASSUME NEW i \in DOMAIN p
      PROVE  i \in DOMAIN s \/ \E k \in DOMAIN u : i = Len(s) + k
  <2>1. CASE i <= Len(s)
    BY <1>1, <1>2, <2>1
  <2>2. CASE ~ (i <= Len(s))
    <3>1. i - Len(s) \in DOMAIN u /\ i = Len(s) + (i - Len(s))
      BY <1>1, <1>2, <2>2
    <3>2. QED
      BY <3>1
  <2>3. QED
    BY <2>1, <2>2
<1>6. Elements(p) \subseteq Elements(s) \union Elements(u)
  <2>1. ASSUME NEW i \in DOMAIN p PROVE p[i] \in Elements(s) \union Elements(u)
    <3>1. CASE i \in DOMAIN s
      BY <1>3, <3>1 DEF Elements
    <3>2. CASE \E k \in DOMAIN u : i = Len(s) + k
      BY <1>4, <3>2 DEF Elements
    <3>3. QED
      BY <1>5, <3>1, <3>2
  <2>2. QED
    BY <2>1 DEF Elements
<1>7. Elements(s) \subseteq Elements(p)
  BY <1>3 DEF Elements
<1>8. Elements(u) \subseteq Elements(p)
  <2>1. ASSUME NEW i \in DOMAIN u PROVE u[i] \in Elements(p)
    <3>1. Len(s) + i \in DOMAIN p /\ p[Len(s) + i] = u[i]
      BY <1>4
    <3>2. QED
      BY <3>1 DEF Elements
  <2>2. QED
    BY <2>1 DEF Elements
<1>9. Elements(p) = Elements(s) \union Elements(u)
  BY <1>6, <1>7, <1>8
<1>10. QED
  BY <1>1, <1>3, <1>4, <1>5, <1>9 DEF p

\* A sequence that increases has no repeat.
LEMMA IncreasingNoRepeat ==
    ASSUME NEW s \in Seq(Chain), Increasing(s)
    PROVE  NoRepeat(s)
<1>1. DOMAIN s = 1 .. Len(s) /\ Len(s) \in Nat /\ Chain \subseteq Nat
  BY LenProperties, ChainType
<1>2. ASSUME NEW i \in DOMAIN s, NEW j \in DOMAIN s, s[i] = s[j] PROVE i = j
  <2>1. s[i] \in Nat /\ s[j] \in Nat
    BY <1>1, ElementOfSeq
  <2>2. ~ (i < j) /\ ~ (j < i)
    <3>1. i < j => s[i] < s[j]
      BY DEF Increasing
    <3>2. j < i => s[j] < s[i]
      BY DEF Increasing
    <3>3. QED
      BY <1>2, <2>1, <3>1, <3>2
  <2>3. QED
    BY <1>1, <2>2
<1>3. QED
  BY <1>2 DEF NoRepeat

\* Sequences without repeats and without a common row follow each other without one.
LEMMA ConcatNoRepeat ==
    ASSUME NEW s \in Seq(Chain), NEW u \in Seq(Chain), NoRepeat(s), NoRepeat(u),
           Elements(s) \intersect Elements(u) = {}
    PROVE  NoRepeat(s \o u)
<1>1. /\ \A i \in DOMAIN s : (s \o u)[i] = s[i]
      /\ \A i \in DOMAIN u : (s \o u)[Len(s) + i] = u[i]
      /\ \A i \in DOMAIN (s \o u) :
           i \in DOMAIN s \/ \E k \in DOMAIN u : i = Len(s) + k
  BY ConcatElements
<1>2. ASSUME NEW i \in DOMAIN (s \o u), NEW j \in DOMAIN (s \o u), (s \o u)[i] = (s \o u)[j]
      PROVE  i = j
  <2>1. CASE i \in DOMAIN s /\ j \in DOMAIN s
    <3>1. s[i] = s[j]
      BY <1>1, <1>2, <2>1
    <3>2. QED
      BY <2>1, <3>1 DEF NoRepeat
  <2>2. ASSUME NEW k \in DOMAIN u, NEW l \in DOMAIN u, i = Len(s) + k, j = Len(s) + l
        PROVE  i = j
    <3>1. u[k] = u[l]
      BY <1>1, <1>2, <2>2
    <3>2. QED
      BY <2>2, <3>1 DEF NoRepeat
  <2>3. ASSUME NEW k \in DOMAIN u, NEW l \in DOMAIN s, s[l] = u[k] PROVE FALSE
    BY <2>3 DEF Elements
  <2>4. QED
    BY <1>1, <1>2, <2>1, <2>2, <2>3
<1>3. QED
  BY <1>2 DEF NoRepeat

\* A part of a sequence without repeats has none, and two parts share no row.
LEMMA ConcatParts ==
    ASSUME NEW s \in Seq(Chain), NEW u \in Seq(Chain), NoRepeat(s \o u)
    PROVE  NoRepeat(s) /\ Elements(s) \intersect Elements(u) = {}
<1>1. /\ \A i \in DOMAIN s : i \in DOMAIN (s \o u) /\ (s \o u)[i] = s[i]
      /\ \A i \in DOMAIN u : Len(s) + i \in DOMAIN (s \o u) /\ (s \o u)[Len(s) + i] = u[i]
  BY ConcatElements
<1>2. /\ DOMAIN s = 1 .. Len(s) /\ DOMAIN u = 1 .. Len(u)
      /\ Len(s) \in Nat /\ Len(u) \in Nat
  BY LenProperties
<1>3. NoRepeat(s)
  BY <1>1 DEF NoRepeat
<1>4. ASSUME NEW i \in DOMAIN s, NEW k \in DOMAIN u, s[i] = u[k] PROVE FALSE
  <2>1. (s \o u)[i] = (s \o u)[Len(s) + k]
    BY <1>1, <1>4
  <2>2. i = Len(s) + k
    BY <1>1, <2>1 DEF NoRepeat
  <2>3. QED
    BY <1>2, <2>2
<1>5. QED
  BY <1>3, <1>4 DEF Elements

\* Increasing sequences one below the other make one.
LEMMA ConcatIncreasing ==
    ASSUME NEW s \in Seq(Chain), NEW u \in Seq(Chain), Increasing(s), Increasing(u),
           \A c \in Elements(s), d \in Elements(u) : c < d
    PROVE  Increasing(s \o u)
<1>1. /\ \A i \in DOMAIN s : (s \o u)[i] = s[i]
      /\ \A i \in DOMAIN u : (s \o u)[Len(s) + i] = u[i]
      /\ \A i \in DOMAIN (s \o u) :
           i \in DOMAIN s \/ \E k \in DOMAIN u : i = Len(s) + k
  BY ConcatElements
<1>2. /\ DOMAIN s = 1 .. Len(s) /\ DOMAIN u = 1 .. Len(u)
      /\ Len(s) \in Nat /\ Len(u) \in Nat
  BY LenProperties
<1>3. ASSUME NEW i \in DOMAIN (s \o u), NEW j \in DOMAIN (s \o u), i < j
      PROVE  (s \o u)[i] < (s \o u)[j]
  <2>1. CASE i \in DOMAIN s /\ j \in DOMAIN s
    <3>1. s[i] < s[j]
      BY <1>3, <2>1 DEF Increasing
    <3>2. QED
      BY <1>1, <2>1, <3>1
  <2>2. ASSUME NEW k \in DOMAIN u, NEW l \in DOMAIN u, i = Len(s) + k, j = Len(s) + l
        PROVE  (s \o u)[i] < (s \o u)[j]
    <3>1. k < l
      BY <1>2, <1>3, <2>2
    <3>2. u[k] < u[l]
      BY <3>1 DEF Increasing
    <3>3. QED
      BY <1>1, <2>2, <3>2
  <2>3. ASSUME i \in DOMAIN s, NEW l \in DOMAIN u, j = Len(s) + l
        PROVE  (s \o u)[i] < (s \o u)[j]
    <3>1. s[i] < u[l]
      BY <2>3 DEF Elements
    <3>2. QED
      BY <1>1, <2>3, <3>1
  <2>4. ASSUME j \in DOMAIN s, NEW k \in DOMAIN u, i = Len(s) + k PROVE FALSE
    BY <1>2, <1>3, <2>4
  <2>5. QED
    BY <1>1, <1>3, <2>1, <2>2, <2>3, <2>4
<1>4. QED
  BY <1>3 DEF Increasing

\* The rows of a file, its header left out.
LEMMA RowsOfFile ==
    ASSUME NEW lines \in Lines, WellFormed(lines)
    PROVE  /\ Tail(lines) \in Seq(Chain)
           /\ Elements(Tail(lines)) = RowsIn(lines)
           /\ Increasing(Tail(lines))
           /\ RowsIn(lines) # {}
<1> DEFINE s == Tail(lines)
<1>1. lines \in Seq(Line) /\ Len(lines) >= 2 /\ lines[1] = Header
  BY DEF Lines, WellFormed
<1>2. Len(lines) \in Nat /\ DOMAIN lines = 1 .. Len(lines)
  BY <1>1, LenProperties
<1>3. lines # <<>>
  BY <1>1, <1>2
<1>4. s \in Seq(Line) /\ Len(s) = Len(lines) - 1 /\ \A i \in 1 .. Len(s) : s[i] = lines[i + 1]
  BY <1>1, <1>3, HeadTailProperties
<1>5. DOMAIN s = 1 .. Len(s)
  BY <1>4, LenProperties
<1> HIDE DEF s
<1>6. \A i \in 1 .. Len(s) : i + 1 \in 2 .. Len(lines) /\ s[i] = lines[i + 1]
  BY <1>2, <1>4
<1>7. \A k \in 2 .. Len(lines) : k - 1 \in 1 .. Len(s) /\ lines[k] = s[k - 1]
  <2>1. ASSUME NEW k \in 2 .. Len(lines) PROVE k - 1 \in 1 .. Len(s) /\ (k - 1) + 1 = k
    BY <1>2, <1>4
  <2>2. QED
    BY <2>1, <1>4
<1>8. ASSUME NEW i \in 1 .. Len(s) PROVE s[i] \in Chain /\ s[i] # Header
  <2>1. i + 1 \in 2 .. Len(lines) /\ i + 1 \in 1 .. Len(lines) /\ s[i] = lines[i + 1]
    BY <1>2, <1>6
  <2>2. lines[i + 1] # Header
    BY <2>1 DEF WellFormed
  <2>3. lines[i + 1] \in Line
    BY <1>1, <2>1, ElementOfSeq
  <2>4. QED
    BY <2>1, <2>2, <2>3 DEF Line
<1>9. s \in Seq(Chain)
  BY <1>4, <1>5, <1>8, IsASeq
<1>10. Elements(s) \subseteq RowsIn(lines)
  <2>1. ASSUME NEW i \in 1 .. Len(s) PROVE s[i] \in RowsIn(lines)
    <3>1. i + 1 \in DOMAIN lines /\ s[i] = lines[i + 1] /\ s[i] # Header
      BY <1>2, <1>6, <1>8
    <3>2. QED
      BY <3>1 DEF RowsIn
  <2>2. QED
    BY <1>5, <2>1 DEF Elements
<1>11. RowsIn(lines) \subseteq Elements(s)
  <2>1. ASSUME NEW k \in DOMAIN lines, lines[k] # Header PROVE lines[k] \in Elements(s)
    <3>1. k \in 2 .. Len(lines)
      <4>1. k # 1
        BY <1>1, <2>1
      <4>2. QED
        BY <1>2, <4>1
    <3>2. QED
      BY <1>5, <1>7, <3>1 DEF Elements
  <2>2. QED
    BY <2>1 DEF RowsIn
<1>12. Increasing(s)
  <2>1. ASSUME NEW i \in 1 .. Len(s), NEW j \in 1 .. Len(s), i < j PROVE s[i] < s[j]
    <3>1. i + 1 < j + 1
      BY <1>4, <2>1
    <3>2. lines[i + 1] < lines[j + 1]
      BY <1>6, <3>1 DEF WellFormed
    <3>3. QED
      BY <1>6, <3>2
  <2>2. QED
    BY <1>5, <2>1 DEF Increasing
<1>13. Elements(s) # {}
  <2>1. 1 \in DOMAIN s
    BY <1>1, <1>2, <1>4, <1>5
  <2>2. QED
    BY <2>1 DEF Elements
<1>14. QED
  BY <1>9, <1>10, <1>11, <1>12, <1>13 DEF s

-----------------------------------------------------------------------------
(* Files of the store.                                                     *)

\* The files wanted are files of the store.
LEMMA WantedType ==
    ASSUME Typed, NEW t \in Tables
    PROVE  FindFilesToLoad(t) \subseteq DOMAIN store[t] /\ DOMAIN store[t] \subseteq Boundary
BY DEF FindFilesToLoad, Typed

\* The file loaded next is the first of those left.
LEMMA NextFileIsFirst ==
    ASSUME NEW t \in Tables, filler[t] \subseteq Boundary, filler[t] # {}
    PROVE  /\ NextFile(t) \in filler[t]
           /\ \A q \in filler[t] : NextFile(t).start <= q.start
<1> DEFINE starts == {q.start : q \in filler[t]}
<1>1. starts \subseteq Nat /\ starts # {}
  BY BoundaryNumbers
<1>2. PICK s \in starts : \A u \in starts : s <= u
  BY <1>1, NatMin
<1>3. PICK r \in filler[t] : r.start = s
  BY <1>2
<1>4. \A q \in filler[t] : r.start <= q.start
  BY <1>2, <1>3
<1>5. QED
  BY <1>4 DEF NextFile

\* A file of the store can be read.
LEMMA StoredFile ==
    ASSUME GInv, NEW t \in Tables, NEW r \in DOMAIN store[t]
    PROVE  /\ store[t][r] \in Lines /\ WellFormed(store[t][r])
           /\ Tail(store[t][r]) \in Seq(Chain)
           /\ Elements(Tail(store[t][r])) = RowsIn(store[t][r])
           /\ Increasing(Tail(store[t][r]))
           /\ RowsIn(store[t][r]) # {} /\ RowsIn(store[t][r]) \subseteq Chain
<1>1. store[t][r] \in Lines /\ WellFormed(store[t][r])
  BY DEF GInv, Typed, FilesWellFormed
<1>2. RowsIn(store[t][r]) \subseteq Chain
  <2>1. store[t][r] \in Seq(Line)
    BY <1>1 DEF Lines
  <2>2. \A i \in DOMAIN store[t][r] : store[t][r][i] \in Line
    BY <2>1, LenProperties, ElementOfSeq
  <2>3. QED
    BY <2>2 DEF RowsIn, Line
<1>3. QED
  BY <1>1, <1>2, RowsOfFile

\* Without a crash, the rows of two files are in the order of their names.
LEMMA StoredOrder ==
    ASSUME GInv, crashes = 0, NEW t \in Tables,
           NEW q \in DOMAIN store[t], NEW r \in DOMAIN store[t], q.start <= r.start, q # r
    PROVE  /\ q.start < r.start
           /\ \A c \in RowsIn(store[t][q]), d \in RowsIn(store[t][r]) : c < d
<1> DEFINE f == [range |-> q, lines |-> store[t][q]]
           g == [range |-> r, lines |-> store[t][r]]
<1>1. f \in Closed(t) /\ g \in Closed(t) /\ f # g
  <2>1. f.range = q /\ g.range = r
    OBVIOUS
  <2>2. f # g
    BY <2>1
  <2>3. QED
    BY <2>2 DEF Closed, Stored
<1>2. /\ f.range = q /\ f.lines = store[t][q]
      /\ g.range = r /\ g.lines = store[t][r]
  OBVIOUS
<1> HIDE DEF f, g
<1>3. FilePlace(t, f) /\ FilePlace(t, g)
  BY <1>1, ClosedFiles
<1>4. Apart(q, r)
  BY <1>1, <1>2 DEF GInv, PlaceInv, ClosedPlace
<1>5. q.start < q.end /\ r.start < r.end
  BY <1>2, <1>3 DEF FilePlace
<1>6. q.start \in Nat /\ q.end \in Nat /\ r.start \in Nat /\ r.end \in Nat
  BY WantedType, BoundaryNumbers DEF GInv, Typed
<1>7. q.end <= r.start /\ q.start < r.start
  BY <1>4, <1>5, <1>6 DEF Apart
<1>8. \A c \in RowsIn(f.lines), d \in RowsIn(g.lines) : c < d
  BY <1>1, <1>2, <1>7, FilesOrdered
<1>9. QED
  BY <1>2, <1>7, <1>8

\* Without a crash, two files share no row.
LEMMA StoredDisjoint ==
    ASSUME GInv, crashes = 0, NEW t \in Tables,
           NEW q \in DOMAIN store[t], NEW r \in DOMAIN store[t], q # r
    PROVE  RowsIn(store[t][q]) \intersect RowsIn(store[t][r]) = {}
<1>1. q.start \in Nat /\ r.start \in Nat
  BY BoundaryNumbers DEF GInv, Typed
<1>2. \/ \A c \in RowsIn(store[t][q]), d \in RowsIn(store[t][r]) : c < d
      \/ \A c \in RowsIn(store[t][r]), d \in RowsIn(store[t][q]) : c < d
  <2>1. CASE q.start <= r.start
    BY <2>1, StoredOrder
  <2>2. CASE r.start <= q.start
    BY <2>2, StoredOrder
  <2>3. QED
    BY <1>1, <2>1, <2>2
<1>3. RowsIn(store[t][q]) \subseteq Nat
  BY StoredFile, ChainType
<1>4. \A c \in Nat : ~ (c < c)
  OBVIOUS
<1>5. QED
  BY <1>2, <1>3, <1>4

-----------------------------------------------------------------------------
(* The steps of inject-csv.                                                *)

\* A table nothing was loaded into is in its place.
LEMMA EmptyTable ==
    ASSUME NEW t \in Tables, table[t] = <<>>, result[t] = Idle, filler[t] = {}
    PROVE  TablePlace(t)
<1>1. DOMAIN table[t] = {} /\ RowsOf(t) = {}
  BY DEF RowsOf
<1>2. NoRepeat(table[t]) /\ Increasing(table[t])
  BY <1>1 DEF NoRepeat, Increasing
<1>3. FillerPlace(t) /\ RowsPlace(t) /\ LoadedOnce(t)
  BY <1>1, <1>2 DEF FillerPlace, RowsPlace, LoadedOnce, Idle
<1>4. InOrder(t, {})
  BY <1>1, <1>2 DEF InOrder, RowsOfFiles, Idle
<1>5. QED
  BY <1>2, <1>3, <1>4 DEF TablePlace

\* The same after a step.
LEMMA EmptyTableNext ==
    ASSUME NEW t \in Tables, table'[t] = <<>>, result'[t] = Idle, filler'[t] = {}
    PROVE  TablePlace(t)'
<1>1. DOMAIN table'[t] = {} /\ RowsOf(t)' = {}
  BY DEF RowsOf
<1>2. NoRepeat(table[t])' /\ Increasing(table[t])'
  BY <1>1 DEF NoRepeat, Increasing
<1>3. FillerPlace(t)' /\ RowsPlace(t)' /\ LoadedOnce(t)'
  BY <1>1, <1>2 DEF FillerPlace, RowsPlace, LoadedOnce, Idle
<1>4. InOrder(t, {})'
  BY <1>1, <1>2 DEF InOrder, RowsOfFiles, Idle
<1>5. QED
  BY <1>2, <1>3, <1>4 DEF TablePlace

\* A table that a step leaves alone stays in its place.
LEMMA TableKept ==
    ASSUME NEW t \in Tables, TablePlace(t), UNCHANGED <<phase, store, crashes>>,
           filler'[t] = filler[t], result'[t] = result[t], table'[t] = table[t],
           failures' = 0 => failures = 0
    PROVE  TablePlace(t)'
<1>1. FindFilesToLoad(t)' = FindFilesToLoad(t) /\ RowsOf(t)' = RowsOf(t)
  BY DEF FindFilesToLoad, RowsOf
<1>2. FillerPlace(t)'
  BY <1>1 DEF TablePlace, FillerPlace
<1>3. RowsPlace(t)'
  BY <1>1 DEF TablePlace, RowsPlace, RowsOfFiles
<1>4. LoadedOnce(t)'
  BY <1>1 DEF TablePlace, LoadedOnce, RowsOfFiles, NoRepeat
<1>5. NoRepeat(table[t])' <=> NoRepeat(table[t])
  BY DEF NoRepeat
<1>6. ASSUME NEW L, InOrder(t, L) PROVE InOrder(t, L)'
  BY <1>1, <1>6 DEF InOrder, RowsOfFiles, Increasing
<1>7. QED
  BY <1>1, <1>2, <1>3, <1>4, <1>5, <1>6 DEF TablePlace

\* The invariant holds when nothing has run.
LEMMA InjInit == ASSUME InjectInit PROVE InjInv
<1>1. GInv
  BY GInit DEF InjectInit
<1>2. InjectTyped
  <2>1. <<>> \in Seq(Chain)
    BY EmptySeq
  <2>2. 0 \in 0 .. MaxFailures
    BY InjectCsvAssumption
  <2>3. QED
    BY <2>1, <2>2 DEF InjectInit, InjectTyped
<1>3. ASSUME NEW t \in Tables PROVE TablePlace(t)
  BY EmptyTable DEF InjectInit
<1>4. QED
  BY <1>1, <1>2, <1>3 DEF InjInv

\* generate-csv is over when the injections start.
LEMMA GenerateKeeps ==
    ASSUME InjInv, Generate PROVE InjInv'
<1>1. GInv'
  BY GNext DEF InjInv, Generate
<1>2. InjectTyped'
  BY DEF InjInv, InjectTyped, Generate, injectVars
<1>3. ASSUME NEW t \in Tables PROVE TablePlace(t)'
  <2>1. TablePlace(t) /\ UNCHANGED <<filler, result, table, failures>>
    BY DEF InjInv, Generate, injectVars
  <2>2. CASE phase = "completed"
    <3>1. UNCHANGED vars
      BY <2>2 DEF Generate, Next, HandleBlockScopedData, RejectBlock, HandleBlockRangeCompletion,
           WriteCursorsTable, WriteCursorsTableFails, UploadBoundary, UploadBoundaryFails,
           UploadCursor, UploadCursorFails, Terminated, Crash, Run, Hang, Done, Alive
    <3>2. UNCHANGED <<phase, store, crashes>>
      BY <3>1 DEF vars
    <3>3. QED
      BY <2>1, <3>2, TableKept
  <2>3. CASE phase # "completed"
    <3>1. result[t] = Idle /\ table[t] = <<>> /\ filler[t] = {}
      BY <2>1, <2>3 DEF TablePlace, FillerPlace, Idle
    <3>2. QED
      BY <2>1, <3>1, EmptyTableNext
  <2>4. QED
    BY <2>2, <2>3
<1>4. QED
  BY <1>1, <1>2, <1>3 DEF InjInv

\* Loading the cursors table changes no other table.
LEMMA CursorsTableKeeps ==
    ASSUME InjInv, InjectCursorsTable PROVE InjInv'
<1>1. GInv'
  <2>1. UNCHANGED vars
    BY DEF InjectCursorsTable
  <2>2. QED
    BY <2>1, GNext DEF InjInv
<1>2. InjectTyped'
  <2>1. lastCursor \in Chain
    BY DEF InjectCursorsTable, InjInv, GInv, Typed
  <2>2. QED
    BY <2>1 DEF InjInv, InjectTyped, InjectCursorsTable
<1>3. ASSUME NEW t \in Tables PROVE TablePlace(t)'
  BY TableKept DEF InjInv, InjectCursorsTable, vars
<1>4. QED
  BY <1>1, <1>2, <1>3 DEF InjInv

\* An invocation that ends well has no file left.
LEMMA FillerDoneKeeps ==
    ASSUME InjInv, NEW t \in Tables, FillerDone(t) PROVE InjInv'
<1>1. GInv'
  <2>1. UNCHANGED vars
    BY DEF FillerDone
  <2>2. QED
    BY <2>1, GNext DEF InjInv
<1>2. InjectTyped /\ result' = [result EXCEPT ![t] = "done"]
      /\ UNCHANGED <<phase, store, crashes, filler, table, dbCursor, failures>>
  BY DEF InjInv, FillerDone, vars
<1>3. InjectTyped'
  BY <1>2 DEF InjectTyped
<1>4. ASSUME NEW u \in Tables, u # t PROVE TablePlace(u)'
  <2>1. result'[u] = result[u]
    BY <1>2, <1>4 DEF InjectTyped
  <2>2. QED
    BY <1>2, <2>1, TableKept DEF InjInv
<1>5. TablePlace(t)'
  <2>1. TablePlace(t) /\ result[t] = "running" /\ filler[t] = {} /\ result'[t] = "done"
    BY <1>2 DEF InjInv, FillerDone, InjectTyped
  <2>2. FindFilesToLoad(t)' = FindFilesToLoad(t) /\ RowsOf(t)' = RowsOf(t)
    BY <1>2 DEF FindFilesToLoad, RowsOf
  <2>3. FillerPlace(t)'
    BY <1>2, <2>1, <2>2 DEF TablePlace, FillerPlace, Idle
  <2>4. RowsPlace(t)'
    BY <1>2, <2>1, <2>2 DEF TablePlace, RowsPlace, RowsOfFiles
  <2>5. LoadedOnce(t)'
    BY <1>2, <2>1 DEF TablePlace, LoadedOnce, NoRepeat
  <2>6. NoRepeat(table[t])' <=> NoRepeat(table[t])
    BY <1>2 DEF NoRepeat
  <2>7. ASSUME NEW L, InOrder(t, L) PROVE InOrder(t, L)'
    BY <1>2, <2>1, <2>2, <2>7 DEF InOrder, RowsOfFiles, Increasing
  <2>8. QED
    BY <1>2, <2>1, <2>2, <2>3, <2>4, <2>5, <2>6, <2>7 DEF TablePlace
<1>6. QED
  BY <1>1, <1>3, <1>4, <1>5 DEF InjInv

\* A failed invocation leaves the rows of the files it loaded.  Without a key only the
\* connection fails.
LEMMA FillerFailsKeeps ==
    ASSUME InjInv, NEW t \in Tables, FillerFails(t) PROVE InjInv'
<1>1. GInv'
  <2>1. UNCHANGED vars
    BY DEF FillerFails
  <2>2. QED
    BY <2>1, GNext DEF InjInv
<1>2. /\ InjectTyped /\ result' = [result EXCEPT ![t] = "failed"]
      /\ filler' = [filler EXCEPT ![t] = {}]
      /\ UNCHANGED <<phase, store, crashes, table, dbCursor>>
  BY DEF InjInv, FillerFails, vars
<1>3. \/ t \in Keyed /\ failures' = failures
      \/ failures < MaxFailures /\ failures' = failures + 1
  BY DEF FillerFails, DuplicateKey
<1>4. failures \in Nat /\ failures' \in 0 .. MaxFailures
  BY <1>2, <1>3, InjectCsvAssumption DEF InjectTyped
<1>5. failures' = 0 => failures = 0 /\ t \in Keyed
  BY <1>3, <1>4
<1>6. InjectTyped'
  BY <1>2, <1>4 DEF InjectTyped
<1>7. ASSUME NEW u \in Tables, u # t PROVE TablePlace(u)'
  <2>1. result'[u] = result[u] /\ filler'[u] = filler[u]
    BY <1>2, <1>7 DEF InjectTyped
  <2>2. QED
    BY <1>2, <1>5, <2>1, TableKept DEF InjInv
<1>8. TablePlace(t)'
  <2>1. TablePlace(t) /\ result[t] = "running" /\ filler'[t] = {} /\ result'[t] = "failed"
    BY <1>2 DEF InjInv, FillerFails, InjectTyped
  <2>2. FindFilesToLoad(t)' = FindFilesToLoad(t) /\ RowsOf(t)' = RowsOf(t)
    BY <1>2 DEF FindFilesToLoad, RowsOf
  <2>3. FillerPlace(t)'
    BY <1>2, <2>1, <2>2 DEF TablePlace, FillerPlace, Idle
  <2>4. RowsPlace(t)'
    BY <1>2, <2>1, <2>2 DEF TablePlace, RowsPlace, RowsOfFiles
  <2>5. LoadedOnce(t)'
    BY <1>5 DEF LoadedOnce
  <2>6. NoRepeat(table[t])' <=> NoRepeat(table[t])
    BY <1>2 DEF NoRepeat
  <2>7. ASSUME NEW L, InOrder(t, L) PROVE InOrder(t, L)'
    BY <1>2, <2>1, <2>2, <2>7 DEF InOrder, RowsOfFiles, Increasing
  <2>8. QED
    BY <1>2, <2>1, <2>2, <2>3, <2>4, <2>5, <2>6, <2>7 DEF TablePlace
<1>9. QED
  BY <1>1, <1>6, <1>7, <1>8 DEF InjInv

\* An invocation, the first one or one after a failure, has all the files to load.
LEMMA StartFillerKeeps ==
    ASSUME InjInv, NEW t \in Tables, StartFiller(t) PROVE InjInv'
<1>1. GInv'
  <2>1. UNCHANGED vars
    BY DEF StartFiller
  <2>2. QED
    BY <2>1, GNext DEF InjInv
<1>2. /\ InjectTyped /\ Typed /\ result[t] \in {Idle, "failed"} /\ phase = "completed"
      /\ UNCHANGED <<phase, store, crashes, table, dbCursor, failures>>
  BY DEF InjInv, GInv, StartFiller, vars
<1>3. \/ /\ FindFilesToLoad(t) = {}
         /\ result' = [result EXCEPT ![t] = "nofile"] /\ filler' = filler
      \/ /\ FindFilesToLoad(t) # {}
         /\ result' = [result EXCEPT ![t] = "running"]
         /\ filler' = [filler EXCEPT ![t] = FindFilesToLoad(t)]
  BY DEF StartFiller
<1>4. FindFilesToLoad(t) \subseteq Boundary
  BY <1>2, WantedType
<1>5. InjectTyped'
  BY <1>2, <1>3, <1>4 DEF InjectTyped
<1>6. ASSUME NEW u \in Tables, u # t PROVE TablePlace(u)'
  <2>1. result'[u] = result[u] /\ filler'[u] = filler[u]
    BY <1>2, <1>3, <1>6 DEF InjectTyped
  <2>2. QED
    BY <1>2, <2>1, TableKept DEF InjInv
<1>7. TablePlace(t)'
  <2>1. TablePlace(t) /\ filler[t] = {}
    BY <1>2 DEF InjInv, TablePlace, FillerPlace, Idle
  <2>2. \/ result'[t] = "nofile" /\ filler'[t] = {}
        \/ result'[t] = "running" /\ filler'[t] = FindFilesToLoad(t)
    BY <1>2, <1>3, <2>1 DEF InjectTyped
  <2>3. FindFilesToLoad(t)' = FindFilesToLoad(t) /\ RowsOf(t)' = RowsOf(t)
    BY <1>2 DEF FindFilesToLoad, RowsOf
  <2>4. FillerPlace(t)'
    BY <1>2, <2>2, <2>3 DEF FillerPlace, Idle
  <2>5. RowsOf(t)' \subseteq RowsOfFiles(t, FindFilesToLoad(t))'
    BY <1>2, <2>1, <2>3 DEF TablePlace, RowsPlace, RowsOfFiles
  <2>6. RowsPlace(t)'
    <3>1. result'[t] = "running" => RowsOfFiles(t, FindFilesToLoad(t) \ filler[t])' = {}
      BY <2>2, <2>3 DEF RowsOfFiles
    <3>2. QED
      BY <2>2, <2>5, <3>1 DEF RowsPlace
  <2>7. LoadedOnce(t)'
    <3>1. ASSUME t \notin Keyed, failures = 0 PROVE RowsOf(t) = {}
      <4>1. result[t] = Idle /\ table[t] = <<>>
        BY <1>2, <2>1, <3>1 DEF TablePlace, LoadedOnce, FillerPlace
      <4>2. QED
        BY <4>1 DEF RowsOf
    <3>2. NoRepeat(table[t])' <=> NoRepeat(table[t])
      BY <1>2 DEF NoRepeat
    <3>3. QED
      BY <1>2, <2>1, <2>2, <2>3, <3>1, <3>2 DEF TablePlace, LoadedOnce
  <2>8. NoRepeat(table[t])' <=> NoRepeat(table[t])
    BY <1>2 DEF NoRepeat
  <2>9. ASSUME NEW L \in SUBSET FindFilesToLoad(t), InOrder(t, L) PROVE InOrder(t, L)'
    <3>1. CASE L = {}
      <4>1. filler'[t] = FindFilesToLoad(t)' \ L \/ result'[t] # "running"
        BY <2>2, <2>3, <3>1
      <4>2. QED
        BY <1>2, <2>3, <2>9, <4>1 DEF InOrder, RowsOfFiles, Increasing
    <3>2. CASE L # {}
      <4>1. (filler'[t] = FindFilesToLoad(t)' /\ L # {}) \/ result'[t] # "running"
        BY <2>2, <2>3, <3>2
      <4>2. QED
        BY <1>2, <2>3, <2>9, <4>1 DEF InOrder, RowsOfFiles, Increasing
    <3>3. QED
      BY <3>1, <3>2
  <2>10. QED
    BY <1>2, <2>1, <2>3, <2>4, <2>6, <2>7, <2>8, <2>9 DEF TablePlace
<1>8. QED
  BY <1>1, <1>5, <1>6, <1>7 DEF InjInv

\* What loading the next file changes.
LEMMA LoadState ==
    ASSUME InjInv, NEW t \in Tables, InjectCSVFromFile(t)
    PROVE  LET r == NextFile(t)
               u == Tail(store[t][r])
           IN  /\ r \in filler[t] /\ r \in FindFilesToLoad(t) /\ r \in DOMAIN store[t]
               /\ \A q \in filler[t] : r.start <= q.start
               /\ u \in Seq(Chain) /\ table[t] \in Seq(Chain)
               /\ result[t] = "running" /\ result'[t] = "running"
               /\ filler'[t] = filler[t] \ {r}
               /\ table'[t] = table[t] \o u /\ table'[t] \in Seq(Chain)
               /\ Elements(u) = RowsIn(store[t][r]) /\ Increasing(u)
               /\ RowsIn(store[t][r]) # {} /\ RowsIn(store[t][r]) \subseteq Chain
               /\ RowsOf(t) = Elements(table[t]) /\ RowsOf(t)' = Elements(table'[t])
               /\ RowsOf(t)' = RowsOf(t) \union RowsIn(store[t][r])
               /\ t \in Keyed => RowsOf(t) \intersect RowsIn(store[t][r]) = {}
               /\ FindFilesToLoad(t)' = FindFilesToLoad(t)
<1> DEFINE r == NextFile(t)
           u == Tail(store[t][r])
<1>1. GInv /\ Typed /\ InjectTyped /\ TablePlace(t) /\ UNCHANGED <<store, result>>
  BY DEF InjInv, GInv, InjectCSVFromFile, vars
<1>2. filler[t] \subseteq FindFilesToLoad(t) /\ filler[t] # {}
  BY <1>1 DEF TablePlace, FillerPlace, InjectCSVFromFile
<1>3. FindFilesToLoad(t) \subseteq DOMAIN store[t] /\ DOMAIN store[t] \subseteq Boundary
  BY <1>1, WantedType
<1>4. r \in filler[t] /\ \A q \in filler[t] : r.start <= q.start
  BY <1>2, <1>3, NextFileIsFirst
<1> HIDE DEF r
<1>5. r \in DOMAIN store[t]
  BY <1>2, <1>3, <1>4
<1>6. /\ u \in Seq(Chain) /\ Elements(u) = RowsIn(store[t][r]) /\ Increasing(u)
      /\ RowsIn(store[t][r]) # {} /\ RowsIn(store[t][r]) \subseteq Chain
  BY <1>1, <1>5, StoredFile
<1>7. table[t] \in Seq(Chain)
  BY <1>1 DEF InjectTyped
<1>8. filler'[t] = filler[t] \ {r} /\ table'[t] = table[t] \o u
  BY <1>1 DEF InjectCSVFromFile, InjectTyped, FileRows, r
<1>9. table'[t] \in Seq(Chain) /\ Elements(table'[t]) = Elements(table[t]) \union Elements(u)
  <2>1. PICK s, v : s = table[t] /\ v = u
    OBVIOUS
  <2>2. s \in Seq(Chain) /\ v \in Seq(Chain)
    BY <1>6, <1>7, <2>1
  <2>3. s \o v \in Seq(Chain) /\ Elements(s \o v) = Elements(s) \union Elements(v)
    BY <2>2, ConcatElements
  <2>4. table'[t] = s \o v
    BY <1>8, <2>1
  <2>5. QED
    BY <2>1, <2>3, <2>4
<1>10. RowsOf(t) = Elements(table[t]) /\ RowsOf(t)' = Elements(table'[t])
  BY DEF RowsOf, Elements
<1>11. t \in Keyed => RowsOf(t) \intersect RowsIn(store[t][r]) = {}
  <2>1. t \in Keyed => \A i \in DOMAIN u : u[i] \notin RowsOf(t)
    BY DEF InjectCSVFromFile, DuplicateKey, FileRows, r
  <2>2. t \in Keyed => RowsOf(t) \intersect Elements(u) = {}
    BY <2>1 DEF Elements
  <2>3. QED
    BY <1>6, <2>2
<1>12. FindFilesToLoad(t)' = FindFilesToLoad(t)
  BY <1>1 DEF FindFilesToLoad
<1>13. result[t] = "running" /\ result'[t] = "running"
  BY <1>1 DEF InjectCSVFromFile
<1>14. QED
  BY <1>2, <1>3, <1>4, <1>5, <1>6, <1>7, <1>8, <1>9, <1>10, <1>11, <1>12, <1>13 DEF r

\* Loading a file that starts after those a table holds leaves the table in order, and
\* loading the first file again, by an invocation that started again, repeats a row.
LEMMA LoadInOrder ==
    ASSUME InjInv, NEW t \in Tables, InjectCSVFromFile(t), crashes = 0,
           NoRepeat(table[t])'
    PROVE  \E L \in SUBSET FindFilesToLoad(t) : InOrder(t, L)'
<1> DEFINE u == Tail(store[t][NextFile(t)])
<1>1. PICK r : r = NextFile(t)
  OBVIOUS
<1>2. PICK W : W = FindFilesToLoad(t)
  OBVIOUS
<1>3. /\ r \in filler[t] /\ r \in W /\ r \in DOMAIN store[t]
      /\ \A q \in filler[t] : r.start <= q.start
      /\ u \in Seq(Chain) /\ table[t] \in Seq(Chain)
      /\ result[t] = "running" /\ result'[t] = "running"
      /\ filler'[t] = filler[t] \ {r}
      /\ table'[t] = table[t] \o u
      /\ Elements(u) = RowsIn(store[t][r]) /\ Increasing(u)
      /\ RowsIn(store[t][r]) # {}
      /\ RowsOf(t) = Elements(table[t])
      /\ RowsOf(t)' = RowsOf(t) \union RowsIn(store[t][r])
      /\ FindFilesToLoad(t)' = W
  BY <1>1, <1>2, LoadState
<1>4. GInv /\ Typed /\ TablePlace(t) /\ store' = store
  BY DEF InjInv, GInv, InjectCSVFromFile, vars
<1> HIDE DEF u
<1>5. NoRepeat(table[t] \o u)
  BY <1>3 DEF NoRepeat
<1>6. NoRepeat(table[t]) /\ Elements(table[t]) \intersect Elements(u) = {}
  BY <1>3, <1>5, ConcatParts
<1>7. W \subseteq DOMAIN store[t] /\ DOMAIN store[t] \subseteq Boundary
  BY <1>2, <1>4, WantedType
<1>8. PICK L \in SUBSET W : InOrder(t, L)
  BY <1>2, <1>4, <1>6 DEF TablePlace
<1>9. RowsOf(t) = RowsOfFiles(t, L)
  BY <1>8 DEF InOrder
<1>10. r \notin L
  <2>1. r \in L => RowsIn(store[t][r]) \subseteq RowsOf(t)
    BY <1>9 DEF RowsOfFiles
  <2>2. QED
    BY <1>3, <1>6, <2>1
<1>11. \A q \in L : q.start < r.start
  BY <1>2, <1>3, <1>8, <1>10 DEF InOrder
<1>12. filler[t] = W \ L
  <2>1. ASSUME filler[t] = W, L # {} PROVE FALSE
    <3>1. PICK q \in L : TRUE
      BY <2>1
    <3>2. q.start < r.start /\ r.start <= q.start
      BY <1>3, <1>11, <2>1, <3>1
    <3>3. q.start \in Nat /\ r.start \in Nat
      BY <1>3, <1>7, <3>1, BoundaryNumbers
    <3>4. QED
      BY <3>2, <3>3
  <2>2. QED
    BY <1>2, <1>3, <1>8, <2>1 DEF InOrder
<1> DEFINE M == L \union {r}
<1>13. M \in SUBSET W
  BY <1>3
<1>14. RowsOf(t)' = RowsOfFiles(t, M)'
  BY <1>3, <1>4, <1>9 DEF RowsOfFiles
<1>15. \A q \in M, p \in W \ M : q.start < p.start
  <2>1. ASSUME NEW q \in L, NEW p \in W \ M PROVE q.start < p.start
    BY <1>2, <1>8, <2>1 DEF InOrder
  <2>2. ASSUME NEW p \in W \ M PROVE r.start < p.start
    <3>1. p \in filler[t] /\ p # r
      BY <1>12
    <3>2. r.start <= p.start /\ p \in DOMAIN store[t]
      BY <1>3, <1>7, <3>1
    <3>3. QED
      BY <1>3, <1>4, <3>1, <3>2, StoredOrder
  <2>3. QED
    BY <2>1, <2>2
<1>16. filler'[t] = W \ M
  BY <1>3, <1>12
<1>17. Increasing(table[t])'
  <2>1. ASSUME NEW c \in Elements(table[t]), NEW d \in Elements(u) PROVE c < d
    <3>1. PICK q \in L : c \in RowsIn(store[t][q])
      BY <1>3, <1>9 DEF RowsOfFiles
    <3>2. q \in DOMAIN store[t] /\ q # r /\ q.start < r.start
      BY <1>7, <1>10, <1>11, <3>1
    <3>3. q.start \in Nat /\ r.start \in Nat
      BY <1>3, <1>7, <3>2, BoundaryNumbers
    <3>4. q.start <= r.start
      BY <3>2, <3>3
    <3>5. QED
      BY <1>3, <1>4, <3>1, <3>2, <3>4, StoredOrder
  <2>2. Increasing(table[t])
    BY <1>8 DEF InOrder
  <2>3. Increasing(table[t] \o u)
    BY <1>3, <2>1, <2>2, ConcatIncreasing
  <2>4. QED
    BY <1>3, <2>3 DEF Increasing
<1> HIDE DEF M
<1>18. InOrder(t, M)'
  BY <1>3, <1>14, <1>15, <1>16, <1>17 DEF InOrder
<1>19. QED
  BY <1>2, <1>13, <1>18

\* A COPY appends the rows of the first file left; on a duplicate key it appends none.
LEMMA LoadKeeps ==
    ASSUME InjInv, NEW t \in Tables, InjectCSVFromFile(t) PROVE InjInv'
<1>1. GInv'
  <2>1. UNCHANGED vars
    BY DEF InjectCSVFromFile
  <2>2. QED
    BY <2>1, GNext DEF InjInv
<1>2. /\ GInv /\ InjectTyped /\ TablePlace(t)
      /\ table' = [table EXCEPT ![t] = table'[t]]
      /\ filler' = [filler EXCEPT ![t] = filler'[t]]
      /\ UNCHANGED <<phase, store, crashes, result, dbCursor, failures>>
  BY DEF InjInv, InjectCSVFromFile, InjectTyped, vars
<1> DEFINE u == Tail(store[t][NextFile(t)])
<1>3. PICK r : r = NextFile(t)
  OBVIOUS
<1>4. PICK W : W = FindFilesToLoad(t)
  OBVIOUS
<1>5. /\ r \in filler[t] /\ r \in W /\ r \in DOMAIN store[t]
      /\ u \in Seq(Chain) /\ table[t] \in Seq(Chain)
      /\ result[t] = "running" /\ result'[t] = "running"
      /\ filler'[t] = filler[t] \ {r}
      /\ table'[t] = table[t] \o u /\ table'[t] \in Seq(Chain)
      /\ Elements(u) = RowsIn(store[t][r]) /\ Increasing(u)
      /\ RowsOf(t) = Elements(table[t])
      /\ RowsOf(t)' = RowsOf(t) \union RowsIn(store[t][r])
      /\ t \in Keyed => RowsOf(t) \intersect RowsIn(store[t][r]) = {}
      /\ FindFilesToLoad(t)' = W
  BY <1>3, <1>4, LoadState
<1> HIDE DEF u
<1>6. W \subseteq DOMAIN store[t] /\ DOMAIN store[t] \subseteq Boundary
  BY <1>2, <1>4, WantedType DEF GInv
<1>7. filler[t] \subseteq W
  BY <1>2, <1>4 DEF TablePlace, FillerPlace
<1>8. InjectTyped'
  <2>1. filler'[t] \subseteq Boundary
    BY <1>5, <1>6, <1>7
  <2>2. QED
    BY <1>2, <1>5, <2>1 DEF InjectTyped
<1>9. ASSUME NEW v \in Tables, v # t PROVE TablePlace(v)'
  <2>1. table'[v] = table[v] /\ filler'[v] = filler[v]
    BY <1>2, <1>9 DEF InjectTyped
  <2>2. QED
    BY <1>2, <2>1, TableKept DEF InjInv
<1>10. FillerPlace(t)'
  BY <1>2, <1>4, <1>5, <1>7 DEF TablePlace, FillerPlace, Idle
<1>11. W \ filler'[t] = (W \ filler[t]) \union {r}
  BY <1>5, <1>7
<1>12. RowsOfFiles(t, W \ filler'[t]) = RowsOfFiles(t, W \ filler[t]) \union RowsIn(store[t][r])
  BY <1>11 DEF RowsOfFiles
<1>13. RowsPlace(t)'
  <2>1. RowsIn(store[t][r]) \subseteq RowsOfFiles(t, W)
    BY <1>5 DEF RowsOfFiles
  <2>2. RowsOf(t) \subseteq RowsOfFiles(t, W) /\ RowsOfFiles(t, W \ filler[t]) \subseteq RowsOf(t)
    BY <1>2, <1>4, <1>5 DEF TablePlace, RowsPlace
  <2>3. /\ RowsOf(t)' \subseteq RowsOfFiles(t, W)
        /\ RowsOfFiles(t, W \ filler'[t]) \subseteq RowsOf(t)'
    BY <1>5, <1>12, <2>1, <2>2
  <2>4. QED
    BY <1>2, <1>5, <2>3 DEF RowsPlace, RowsOfFiles
<1>14. NoRepeat(u)
  BY <1>5, IncreasingNoRepeat
<1>15. ASSUME NoRepeat(table[t]), RowsOf(t) \intersect RowsIn(store[t][r]) = {}
       PROVE  NoRepeat(table[t])'
  <2>1. NoRepeat(table[t] \o u)
    BY <1>5, <1>14, <1>15, ConcatNoRepeat
  <2>2. QED
    BY <1>5, <2>1 DEF NoRepeat
<1>16. t \in Keyed => NoRepeat(table[t])'
  BY <1>2, <1>5, <1>15 DEF TablePlace
<1>17. LoadedOnce(t)'
  <2>1. ASSUME t \notin Keyed, failures = 0
        PROVE  /\ RowsOf(t)' \subseteq RowsOfFiles(t, W \ filler'[t])
               /\ crashes = 0 => NoRepeat(table[t])'
    <3>1. /\ RowsOf(t) \subseteq RowsOfFiles(t, W \ filler[t])
          /\ crashes = 0 => NoRepeat(table[t])
      BY <1>2, <1>4, <1>5, <2>1 DEF TablePlace, LoadedOnce
    <3>2. ASSUME crashes = 0 PROVE RowsOf(t) \intersect RowsIn(store[t][r]) = {}
      <4>1. ASSUME NEW c \in RowsOf(t), c \in RowsIn(store[t][r]) PROVE FALSE
        <5>1. PICK q \in W \ filler[t] : c \in RowsIn(store[t][q])
          BY <3>1 DEF RowsOfFiles
        <5>2. q \in DOMAIN store[t] /\ q # r
          BY <1>5, <1>6
        <5>3. QED
          BY <1>2, <1>5, <3>2, <4>1, <5>1, <5>2, StoredDisjoint
      <4>2. QED
        BY <4>1
    <3>3. QED
      BY <1>5, <1>12, <1>15, <3>1, <3>2
  <2>2. QED
    BY <1>2, <1>5, <2>1 DEF LoadedOnce, RowsOfFiles
<1>18. ASSUME crashes = 0, NoRepeat(table[t])'
       PROVE  \E L \in SUBSET W : InOrder(t, L)'
  BY <1>4, <1>18, LoadInOrder
<1>19. TablePlace(t)'
  BY <1>2, <1>5, <1>10, <1>13, <1>16, <1>17, <1>18 DEF TablePlace
<1>20. QED
  BY <1>1, <1>8, <1>9, <1>19 DEF InjInv

\* The invariant survives every step of the two commands.
LEMMA InjNext == ASSUME InjInv, [InjectNext]_allVars PROVE InjInv'
<1>1. CASE InjectNext
  BY <1>1, GenerateKeeps, CursorsTableKeeps, StartFillerKeeps, LoadKeeps, FillerFailsKeeps,
     FillerDoneKeeps DEF InjectNext
<1>2. CASE UNCHANGED allVars
  <2>1. UNCHANGED vars /\ UNCHANGED injectVars
    BY <1>2 DEF allVars
  <2>2. GInv'
    BY <2>1, GNext DEF InjInv
  <2>3. InjectTyped'
    BY <2>1 DEF InjInv, InjectTyped, injectVars
  <2>4. ASSUME NEW t \in Tables PROVE TablePlace(t)'
    BY <2>1, TableKept DEF InjInv, injectVars, vars
  <2>5. QED
    BY <2>2, <2>3, <2>4 DEF InjInv
<1>3. QED
  BY <1>1, <1>2

\* In every reachable state of the two commands the tables hold rows of the files, in the
\* order and as often as their invocations loaded them.
THEOREM InjectInvariance == InjectSpec => []InjInv
<1>1. InjectInit => InjInv
  BY InjInit
<1>2. InjInv /\ [InjectNext]_allVars => InjInv'
  BY InjNext
<1>3. QED
  BY <1>1, <1>2, PTL DEF InjectSpec

\* What the invariant says of a table.
LEMMA InjInvOnce == ASSUME InjInv PROVE InjectedOnce
<1>1. ASSUME NEW t \in Tables
      PROVE  /\ t \in Keyed \/ (failures = 0 /\ crashes = 0) => NoRepeat(table[t])
             /\ crashes = 0 /\ NoRepeat(table[t]) =>
                  \A i, j \in DOMAIN table[t] : i < j => table[t][i] < table[t][j]
             /\ result[t] = "done" =>
                  RowsOf(t) = UNION {RowsIn(store[t][r]) : r \in FindFilesToLoad(t)}
  <2>1. TablePlace(t)
    BY DEF InjInv
  <2>2. t \in Keyed \/ (failures = 0 /\ crashes = 0) => NoRepeat(table[t])
    BY <2>1 DEF TablePlace, LoadedOnce
  <2>3. ASSUME crashes = 0, NoRepeat(table[t]) PROVE Increasing(table[t])
    BY <2>1, <2>3 DEF TablePlace, InOrder
  <2>4. ASSUME result[t] = "done"
        PROVE  RowsOf(t) = RowsOfFiles(t, FindFilesToLoad(t))
    <3>1. filler[t] = {}
      BY <2>1, <2>4 DEF TablePlace, FillerPlace
    <3>2. FindFilesToLoad(t) \ filler[t] = FindFilesToLoad(t)
      BY <3>1
    <3>3. QED
      BY <2>1, <2>4, <3>2 DEF TablePlace, RowsPlace
  <2>5. QED
    BY <2>2, <2>3, <2>4 DEF Increasing, RowsOfFiles
<1>2. QED
  BY <1>1 DEF InjectedOnce

\* However often an invocation fails and is run again, a keyed table holds no row twice, a
\* table without repeats has its rows in block order if no crash disturbed the files, and a
\* table whose invocation ended well holds exactly the rows of the files in its range.
THEOREM InjectionsLoadOnce == InjectSpec => []InjectOK
<1>1. InjInv => InjectOK
  <2>1. InjInv => TypeOK
    BY GInvTyped DEF InjInv
  <2>2. InjInv => InjectTypeOK
    BY <2>1 DEF InjInv, InjectTyped, InjectTypeOK
  <2>3. QED
    BY <2>2, InjInvOnce DEF InjectOK
<1>2. QED
  BY <1>1, InjectInvariance, PTL

=============================================================================
