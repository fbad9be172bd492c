------------------------------ MODULE Bundler -------------------------------
(***************************************************************************)
(* The bundler both CSV commands write through                             *)
(* (src/db_changes/bundler): the boundaries that cut the lines of a table  *)
(* into files of BundleSize blocks, the buffered writer that keeps a       *)
(* boundary in memory until it spills to a working file, and what a write  *)
(* to the output store does.                                               *)
(***************************************************************************)
EXTENDS Integers, Sequences, FiniteSets

CONSTANTS
    StartBlock, StopBlock,  \* the range given on the command line, stop excluded
    BundleSize,             \* --bundle-size
    BufferSize,             \* --buffer-max-size, in lines
    KeepsExisting           \* does a write of an existing CSV object leave it as it is?

ASSUME BundlerAssumption ==
    /\ StartBlock \in Nat /\ StopBlock \in Nat /\ StartBlock <= StopBlock
    /\ BundleSize \in Nat \ {0}
    /\ BufferSize \in Nat \ {0}
    /\ KeepsExisting \in BOOLEAN

Header == -2   \* the first line of a file

-----------------------------------------------------------------------------
(* Boundaries: half-open ranges of blocks, src/db_changes/bundler/bundler.go *)

BlockRange(s, e) == [start |-> s, end |-> e]

\* Mutant: the end of a boundary is in it.
InRangeInclusive(range, b) == range.start <= b /\ b <= range.end

InRange(range, b) == range.start <= b /\ b < range.end

\* Mutant: the last boundary goes past the stop block.
UnclippedBoundary(b) ==
    LET s == b - (b % BundleSize)
    IN  BlockRange(s, s + BundleSize)

NewBoundary(b) ==
    LET s == b - (b % BundleSize)
    IN  BlockRange(s, IF StopBlock < s + BundleSize THEN StopBlock ELSE s + BundleSize)

ComputeEndBlock(s) == (s + BundleSize) - ((s + BundleSize) % BundleSize)

\* Mutant: a block that is the end of a bundle does not skip it.
SkipOneTooFew(last, b) ==
    LET skip[iter \in 0 .. (b + BundleSize)] ==
            IF b > ComputeEndBlock(iter)
            THEN <<BlockRange(iter, ComputeEndBlock(iter))>> \o skip[ComputeEndBlock(iter)]
            ELSE <<>>
    IN  skip[last.end]

\* The empty boundaries between the one that ends at iter and block b, in order
BoundariesToSkip(last, b) ==
    LET skip[iter \in 0 .. (b + BundleSize)] ==
            IF b >= ComputeEndBlock(iter)
            THEN <<BlockRange(iter, ComputeEndBlock(iter))>> \o skip[ComputeEndBlock(iter)]
            ELSE <<>>
    IN  skip[last.end]

-----------------------------------------------------------------------------
(* Writers: bufio over a lazily created working file, writer/buffered.go *)

EmptyWriter == [memory |-> <<>>, disk |-> <<>>]

\* Mutant: spilling the buffer drops what it held.
PutTruncates(w, line) ==
    IF Len(w.memory) < BufferSize
    THEN [w EXCEPT !.memory = Append(@, line)]
    ELSE [memory |-> <<line>>, disk |-> w.disk]

Put(w, line) ==
    IF Len(w.memory) < BufferSize
    THEN [w EXCEPT !.memory = Append(@, line)]
    ELSE [memory |-> <<line>>, disk |-> w.disk \o w.memory]

IsWritten(w) == w.memory # <<>> \/ w.disk # <<>>

AllDataFitInMemory(w) == w.disk = <<>>

\* Mutant: what is still buffered is not flushed to the working file.
CloseWithoutFlush(w) == IF AllDataFitInMemory(w) THEN w.memory ELSE w.disk

\* What CloseBoundary hands to the upload: the buffer, or the flushed file
CloseBoundary(w) == IF AllDataFitInMemory(w) THEN w.memory ELSE w.disk \o w.memory

\* Mutant: every row gets a header.
HeaderEveryRow(w, hasHeader, b) == Put(Put(w, Header), b)

\* One CREATE change: the header first when the file has none yet
DumpRow(w, hasHeader, b) == Put(IF hasHeader THEN w ELSE Put(w, Header), b)

-----------------------------------------------------------------------------
\* The file Bundler.stop queues, if any line was written to the boundary
Stop(range, w) == IF IsWritten(w) THEN {[range |-> range, lines |-> CloseBoundary(w)]} ELSE {}

\* An object written where one may exist already
WriteObject(objects, key, value) ==
    IF KeepsExisting /\ key \in DOMAIN objects
    THEN objects
    ELSE [k \in DOMAIN objects \union {key} |-> IF k = key THEN value ELSE objects[k]]

-----------------------------------------------------------------------------
(* What a file holds *)

RowsIn(lines) == {lines[i] : i \in DOMAIN lines} \ {Header}

\* A file has its header, once and first, and at least one row; its rows are in
\* the order of the stream.
WellFormed(lines) ==
    /\ Len(lines) >= 2 /\ lines[1] = Header
    /\ \A i \in 2 .. Len(lines) : lines[i] # Header
    /\ \A i, j \in 2 .. Len(lines) : i < j => lines[i] < lines[j]
=============================================================================
