------------------------ MODULE RisingwaveSinkProofs ------------------------
(***************************************************************************)
(* Proofs about RisingwaveSink, for all tables, values, chains and bounds. *)
(***************************************************************************)
EXTENDS RisingwaveSink, WellFoundedInduction, SequenceTheorems, TLAPS

Path == Seq(Block)

\* Every set of natural numbers that is not empty has a least element.
LEMMA LeastNumber ==
    ASSUME NEW T, T \subseteq Nat, T # {}
    PROVE  \E x \in T : \A y \in T : x <= y
<1> DEFINE R == OpToRel(<, Nat)
<1>1. IsWellFoundedOn(R, Nat)
  BY NatLessThanWellFounded
<1>2. ASSUME NEW a \in Nat, NEW b \in Nat, a < b PROVE <<a, b>> \in R
  BY <1>2 DEF OpToRel
<1> HIDE DEF R
<1>3. PICK x \in T : \A y \in T : ~ (<<y, x>> \in R)
  BY <1>1, WFMin
<1>4. ASSUME NEW y \in T PROVE x <= y
  <2>1. ~ (y < x)
    BY <1>2, <1>3
  <2>2. x \in Nat /\ y \in Nat
    OBVIOUS
  <2>3. QED
    BY <2>1, <2>2
<1>5. QED
  BY <1>4

-----------------------------------------------------------------------------
(* The rows after the blocks of a path.                                    *)

\* The recursive function of Content
After(path) ==
    LET after[i \in 0 .. Len(path)] ==
            IF i = 0 THEN NoRows
            ELSE [k \in Key |-> Execute(path[i][k], after[i - 1][k])]
    IN  after

\* One step of the recursion, from f
AfterStep(path, f, i) ==
    IF i = 0 THEN NoRows ELSE [k \in Key |-> Execute(path[i][k], f[i - 1][k])]

\* The recursion has a solution.
LEMMA AfterExists ==
    ASSUME NEW path, NEW n \in Nat
    PROVE  \E f : f = [i \in 0 .. n |-> AfterStep(path, f, i)]
<1> DEFINE Fails == {m \in Nat : ~ \E f : f = [i \in 0 .. m |-> AfterStep(path, f, i)]}
<1>1. ASSUME Fails # {} PROVE FALSE
  <2>1. PICK m \in Fails : \A y \in Fails : m <= y
    BY <1>1, LeastNumber
  <2>2. CASE m = 0
    <3> DEFINE f == [i \in 0 .. 0 |-> NoRows]
    <3>1. ASSUME NEW i \in 0 .. 0 PROVE AfterStep(path, f, i) = NoRows
      BY DEF AfterStep
    <3>2. f = [i \in 0 .. 0 |-> AfterStep(path, f, i)]
      BY <3>1
    <3>3. QED
      BY <2>1, <2>2, <3>2
  <2>3. CASE m # 0
    <3>1. m - 1 \in Nat /\ ~ (m <= m - 1) /\ 0 .. m = (0 .. (m - 1)) \union {m}
      BY <2>1, <2>3
    <3>2. m - 1 \notin Fails
      BY <2>1, <3>1
    <3>3. PICK f : f = [i \in 0 .. (m - 1) |-> AfterStep(path, f, i)]
      BY <3>1, <3>2
    <3> DEFINE g == [i \in 0 .. m |-> IF i = m THEN AfterStep(path, f, m) ELSE f[i]]
    <3>4. ASSUME NEW i \in 0 .. m PROVE g[i] = AfterStep(path, g, i)
      <4>1. i # 0 => i - 1 \in 0 .. (m - 1) /\ i - 1 \in 0 .. m /\ i - 1 # m
        BY <2>1
      <4>2. i # 0 => g[i - 1] = f[i - 1]
        BY <4>1
      <4>3. AfterStep(path, g, i) = AfterStep(path, f, i)
        <5> HIDE DEF g
        <5>1. QED
          BY <4>2 DEF AfterStep
      <4>4. i # m => f[i] = AfterStep(path, f, i)
        <5>1. i # m => i \in 0 .. (m - 1)
          BY <2>1
        <5>2. QED
          BY <3>3, <5>1
      <4>5. QED
        BY <4>3, <4>4
    <3>5. g = [i \in 0 .. m |-> AfterStep(path, g, i)]
      BY <3>4
    <3>6. QED
      BY <2>1, <3>5
  <2>4. QED
    BY <2>2, <2>3
<1>2. QED
  BY <1>1

\* The recursion, unfolded once.
LEMMA AfterUnfolds ==
    ASSUME NEW path \in Path
    PROVE  /\ After(path)[0] = NoRows
           /\ \A i \in 1 .. Len(path) : \A k \in Key :
                After(path)[i][k] = Execute(path[i][k], After(path)[i - 1][k])
           /\ \A i \in 1 .. Len(path) : DOMAIN After(path)[i] = Key
           /\ Content(path) = After(path)[Len(path)]
           /\ \A i \in 1 .. Len(path) :
                After(path)[i] = [k \in Key |-> Execute(path[i][k], After(path)[i - 1][k])]
<1>1. Len(path) \in Nat
  BY LenProperties DEF Path
<1>2. After(path) = CHOOSE f : f = [i \in 0 .. Len(path) |-> AfterStep(path, f, i)]
  BY DEF After, AfterStep
<1>3. After(path) = [i \in 0 .. Len(path) |-> AfterStep(path, After(path), i)]
  BY <1>1, <1>2, AfterExists
<1>4. \A i \in 0 .. Len(path) : After(path)[i] = AfterStep(path, After(path), i)
  BY <1>3
<1>5. 0 \in 0 .. Len(path) /\ \A i \in 1 .. Len(path) : i \in 0 .. Len(path) /\ i # 0
  BY <1>1
<1>6. After(path)[0] = NoRows
  BY <1>4, <1>5 DEF AfterStep
<1>7. \A i \in 1 .. Len(path) :
        After(path)[i] = [k \in Key |-> Execute(path[i][k], After(path)[i - 1][k])]
  BY <1>4, <1>5 DEF AfterStep
<1>8. Content(path) = After(path)[Len(path)]
  BY DEF Content, After
<1>9. QED
  BY <1>6, <1>7, <1>8

Types == {"INSERT", "UPSERT", "UPDATE", "DELETE", "NONE"}

\* What a statement leaves in a row is a value or nothing.
LEMMA ExecuteType ==
    ASSUME NEW op, op.type \in Types, op.val \in Row, NEW row \in Row
    PROVE  Execute(op, row) \in Row
BY DEF Types, Execute, Row

\* The parts of an operation.
LEMMA OpParts ==
    ASSUME NEW op \in Op
    PROVE  /\ op.type \in Types /\ op.val \in Row
           /\ op.type \in {"INSERT", "UPSERT", "UPDATE"} => op.val \in Val
           /\ op.type \in {"DELETE", "NONE"} => op.val = Absent
BY DEF Op, Types, Row

\* The rows after a path have their type.
LEMMA AfterType ==
    ASSUME NEW path \in Path
    PROVE  \A i \in 0 .. Len(path) : After(path)[i] \in [Key -> Row]
<1> DEFINE Fails == {m \in Nat : m <= Len(path) /\ After(path)[m] \notin [Key -> Row]}
<1>1. Len(path) \in Nat
  BY LenProperties DEF Path
<1>2. ASSUME Fails # {} PROVE FALSE
  <2>1. PICK m \in Fails : \A y \in Fails : m <= y
    BY <1>2, LeastNumber
  <2>2. CASE m = 0
    <3>1. After(path)[0] = NoRows
      BY AfterUnfolds
    <3>2. NoRows \in [Key -> Row]
      BY DEF NoRows, Row
    <3>3. QED
      BY <2>1, <2>2, <3>1, <3>2
  <2>3. CASE m # 0
    <3>1. m - 1 \in Nat /\ m - 1 <= Len(path) /\ ~ (m <= m - 1) /\ m \in 1 .. Len(path)
      BY <1>1, <2>1, <2>3
    <3>2. After(path)[m - 1] \in [Key -> Row]
      BY <2>1, <3>1
    <3>3. path[m] \in Block
      BY <3>1, ElementOfSeq DEF Path
    <3>4. After(path)[m] = [k \in Key |-> Execute(path[m][k], After(path)[m - 1][k])]
      BY <3>1, AfterUnfolds
    <3>5. After(path)[m] \in [Key -> Row]
      BY <3>2, <3>3, <3>4, ExecuteType, OpParts DEF Block
    <3>6. QED
      BY <2>1, <3>5
  <2>4. QED
    BY <2>2, <2>3
<1>3. ASSUME NEW i \in 0 .. Len(path) PROVE After(path)[i] \in [Key -> Row]
  <2>1. i \in Nat /\ i <= Len(path) /\ i \notin Fails
    BY <1>1, <1>2
  <2>2. QED
    BY <2>1
<1>4. QED
  BY <1>3

\* Two paths that have their first n blocks in common
Agree(p, s, n) == n <= Len(p) /\ n <= Len(s) /\ \A i \in 1 .. n : p[i] = s[i]

\* Such paths have the same rows after these blocks.
LEMMA AfterAgree ==
    ASSUME NEW p \in Path, NEW s \in Path, NEW n \in Nat, Agree(p, s, n)
    PROVE  \A i \in 0 .. n : After(p)[i] = After(s)[i]
<1> DEFINE Fails == {m \in Nat : m <= n /\ After(p)[m] # After(s)[m]}
<1>1. Len(p) \in Nat /\ Len(s) \in Nat /\ n <= Len(p) /\ n <= Len(s)
  BY LenProperties DEF Path, Agree
<1>2. ASSUME Fails # {} PROVE FALSE
  <2>1. PICK m \in Fails : \A y \in Fails : m <= y
    BY <1>2, LeastNumber
  <2>2. m # 0
    BY <2>1, AfterUnfolds
  <2>3. m - 1 \in Nat /\ m - 1 <= n /\ ~ (m <= m - 1)
        /\ m \in 1 .. n /\ m \in 1 .. Len(p) /\ m \in 1 .. Len(s)
    BY <1>1, <2>1, <2>2
  <2>4. After(p)[m - 1] = After(s)[m - 1]
    BY <2>1, <2>3
  <2>5. p[m] = s[m]
    BY <2>3 DEF Agree
  <2>6. /\ After(p)[m] = [k \in Key |-> Execute(p[m][k], After(p)[m - 1][k])]
        /\ After(s)[m] = [k \in Key |-> Execute(s[m][k], After(s)[m - 1][k])]
    BY <2>3, AfterUnfolds
  <2>7. QED
    BY <2>1, <2>4, <2>5, <2>6
<1>3. ASSUME NEW i \in 0 .. n PROVE After(p)[i] = After(s)[i]
  <2>1. i \in Nat /\ i <= n /\ i \notin Fails
    BY <1>1, <1>2
  <2>2. QED
    BY <2>1
<1>4. QED
  BY <1>3

-----------------------------------------------------------------------------
(* Prefixes of paths.                                                      *)

\* The length of a path.
LEMMA PathLength == ASSUME NEW p \in Path PROVE Len(p) \in Nat /\ DOMAIN p = 1 .. Len(p)
BY LenProperties DEF Path

\* The first n blocks of a path.
LEMMA PrefixOf ==
    ASSUME NEW p \in Path, NEW n \in Nat, n <= Len(p)
    PROVE  /\ SubSeq(p, 1, n) \in Path /\ Len(SubSeq(p, 1, n)) = n
           /\ Agree(SubSeq(p, 1, n), p, n)
           /\ Content(SubSeq(p, 1, n)) = After(p)[n]
<1>1. Len(p) \in Nat /\ \A i \in 1 .. n : i \in 1 .. Len(p)
  BY PathLength
<1>2. \A i \in 1 .. n : p[i] \in Block
  BY <1>1, ElementOfSeq DEF Path
<1>3. PICK q : q = SubSeq(p, 1, n)
  OBVIOUS
<1>4. /\ q \in Seq(Block) /\ Len(q) = (IF 1 <= n THEN n - 1 + 1 ELSE 0)
      /\ \A i \in 1 .. (n - 1 + 1) : q[i] = p[1 + i - 1]
  BY <1>2, <1>3, SubSeqProperties
<1>5. Len(q) = n /\ \A i \in 1 .. n : q[i] = p[i]
  BY <1>4
<1>6. q \in Path /\ Agree(q, p, n)
  BY <1>4, <1>5 DEF Path, Agree
<1>7. Content(q) = After(p)[n]
  <2>1. Content(q) = After(q)[n]
    BY <1>5, <1>6, AfterUnfolds
  <2>2. n \in 0 .. n
    OBVIOUS
  <2>3. QED
    BY <1>6, <2>1, <2>2, AfterAgree
<1>8. QED
  BY <1>3, <1>5, <1>6, <1>7

\* IsPrefix in terms of blocks.
LEMMA PrefixAgrees ==
    ASSUME NEW p \in Path, NEW s \in Path
    PROVE  IsPrefix(p, s) <=> Agree(p, s, Len(p))
<1>1. Len(p) \in Nat /\ Len(s) \in Nat
  BY PathLength
<1>2. SubSeq(p, 1, Len(p)) = p
  BY SubSeqFull DEF Path
<1>3. ASSUME Len(p) <= Len(s)
      PROVE  SubSeq(s, 1, Len(p)) = p <=> \A i \in 1 .. Len(p) : p[i] = s[i]
  <2>1. PICK q : q = SubSeq(s, 1, Len(p))
    OBVIOUS
  <2>2. q \in Path /\ Len(q) = Len(p) /\ \A i \in 1 .. Len(p) : q[i] = s[i]
    BY <1>1, <1>3, <2>1, PrefixOf DEF Agree
  <2>3. (\A i \in 1 .. Len(p) : p[i] = q[i]) => q = p
    BY <2>2, SeqEqual DEF Path
  <2>4. QED
    BY <2>1, <2>2, <2>3
<1>4. QED
  BY <1>1, <1>2, <1>3 DEF IsPrefix, Agree

\* A path and one more block.
LEMMA PathAppend ==
    ASSUME NEW p \in Path, NEW b \in Block
    PROVE  /\ Append(p, b) \in Path /\ Len(Append(p, b)) = Len(p) + 1
           /\ Agree(p, Append(p, b), Len(p)) /\ Append(p, b)[Len(p) + 1] = b
<1>1. /\ Append(p, b) \in Seq(Block) /\ Len(Append(p, b)) = Len(p) + 1
      /\ \A i \in 1 .. Len(p) : Append(p, b)[i] = p[i]
      /\ Append(p, b)[Len(p) + 1] = b
  BY AppendProperties DEF Path
<1>2. Len(p) \in Nat
  BY PathLength
<1>3. QED
  BY <1>1, <1>2 DEF Path, Agree

\* Paths that agree on n blocks agree on fewer, and agreement is an equivalence.
LEMMA AgreeLess ==
    ASSUME NEW p \in Path, NEW s \in Path, NEW n \in Nat, Agree(p, s, n), NEW m \in Nat, m <= n
    PROVE  Agree(p, s, m) /\ Agree(s, p, m)
<1>1. Len(p) \in Nat /\ Len(s) \in Nat /\ \A i \in 1 .. m : i \in 1 .. n
  BY PathLength
<1>2. QED
  BY <1>1 DEF Agree

\* Two paths that agree with a third agree with each other.
LEMMA AgreeTrans ==
    ASSUME NEW p, NEW q, NEW s, NEW n, Agree(p, q, n), Agree(q, s, n)
    PROVE  Agree(p, s, n)
BY DEF Agree

\* What two paths have in common: nothing longer is.
LEMMA CommonIsLongest ==
    ASSUME NEW p \in Path, NEW s \in Path
    PROVE  /\ Common(p, s) \in Nat /\ Agree(p, s, Common(p, s))
           /\ \A m \in Nat : Agree(p, s, m) => m <= Common(p, s)
<1> DEFINE C == CommonPrefixes({p, s})
           P == Prefixes(p) \union Prefixes(s)
<1>1. Len(p) \in Nat /\ Len(s) \in Nat
  BY PathLength
<1>2. C = {x \in P : IsPrefix(x, p) /\ IsPrefix(x, s)}
  BY DEF CommonPrefixes
<1>3. ASSUME NEW x \in C PROVE x \in Path /\ Len(x) \in Nat /\ Agree(p, s, Len(x))
  <2>1. x \in P /\ IsPrefix(x, p) /\ IsPrefix(x, s)
    BY <1>2
  <2>2. x \in Path
    <3>1. ASSUME NEW q \in Path, x \in Prefixes(q) PROVE x \in Path
      <4>1. PICK l \in 0 .. Len(q) : x = SubSeq(q, 1, l)
        BY <3>1 DEF Prefixes
      <4>2. l \in Nat /\ l <= Len(q)
        BY <4>1, PathLength
      <4>3. QED
        BY <4>1, <4>2, PrefixOf
    <3>2. QED
      BY <2>1, <3>1
  <2>3. Agree(x, p, Len(x)) /\ Agree(x, s, Len(x)) /\ Len(x) \in Nat
    BY <2>1, <2>2, PrefixAgrees, PathLength
  <2>4. QED
    BY <2>2, <2>3 DEF Agree
<1>4. ASSUME NEW m \in Nat, Agree(p, s, m) PROVE \E x \in C : Len(x) = m
  <2>1. PICK x : x = SubSeq(p, 1, m)
    OBVIOUS
  <2>2. m <= Len(p) /\ m \in 0 .. Len(p)
    BY <1>1, <1>4 DEF Agree
  <2>3. x \in Path /\ Len(x) = m /\ Agree(x, p, m)
    BY <2>1, <2>2, PrefixOf
  <2>4. Agree(x, s, m)
    BY <1>4, <2>3, AgreeTrans
  <2>5. IsPrefix(x, p) /\ IsPrefix(x, s)
    BY <2>3, <2>4, PrefixAgrees
  <2>6. x \in Prefixes(p)
    BY <2>1, <2>2 DEF Prefixes
  <2>7. QED
    BY <1>2, <2>3, <2>5, <2>6
<1> HIDE DEF C
<1>5. \E x \in C : \A y \in C : Len(y) <= Len(x)
  <2> DEFINE Gaps == {Len(p) - Len(x) : x \in C}
  <2>1. \A x \in C : Len(x) \in Nat /\ Len(p) - Len(x) \in Nat
    <3>1. ASSUME NEW x \in C PROVE Len(x) \in Nat /\ Len(x) <= Len(p)
      BY <1>3 DEF Agree
    <3>2. QED
      BY <1>1, <3>1
  <2>2. Agree(p, s, 0)
    BY <1>1 DEF Agree
  <2>3. Gaps \subseteq Nat /\ Gaps # {}
    BY <1>4, <2>1, <2>2
  <2>4. PICK g \in Gaps : \A h \in Gaps : g <= h
    BY <2>3, LeastNumber
  <2>5. PICK x \in C : g = Len(p) - Len(x)
    BY <2>4
  <2>6. ASSUME NEW y \in C PROVE Len(y) <= Len(x)
    <3>1. Len(p) - Len(x) <= Len(p) - Len(y)
      BY <2>4, <2>5
    <3>2. Len(x) \in Nat /\ Len(y) \in Nat
      BY <2>1
    <3>3. QED
      BY <1>1, <3>1, <3>2
  <2>7. QED
    BY <2>6
<1>6. /\ LongestCommonPrefix({p, s}) \in C
      /\ \A y \in C : Len(y) <= Len(LongestCommonPrefix({p, s}))
  BY <1>5 DEF LongestCommonPrefix, C
<1>7. QED
  BY <1>3, <1>4, <1>6 DEF Common

-----------------------------------------------------------------------------
(* Operations and the history they save.                                   *)

\* An INSERT meets no row, an UPDATE and a DELETE meet one
OpFits(op, row) ==
    /\ op.type = "INSERT" => row = Absent
    /\ op.type \in {"UPDATE", "DELETE"} => row # Absent

\* An operation merged into what is buffered does to a row of before the batch, and to
\* one the batch was already executed on, what it does after the batch.
LEMMA MergeExecutes ==
    ASSUME NEW op \in Op, NEW e \in Entry, NEW rev \in 0 .. MaxBlocks, NEW row \in Row,
           OpFits(op, row), ~ Rejects(e, op),
           e.type = "UPDATE" => row # Absent, Execute(e, row) = row
    PROVE  /\ Merge(e, op, rev) \in Entry
           /\ Execute(Merge(e, op, rev), Execute(op, row)) = Execute(op, row)
           /\ Merge(e, op, rev).type = "UPDATE" => Execute(op, row) # Absent
           /\ \A x \in Row : Execute(e, x) = row =>
                  Execute(Merge(e, op, rev), x) = Execute(op, row)
<1> USE RisingwaveAssumption DEF Row
<1>1. /\ op.type \in Types /\ op.val \in Row /\ e.type \in Types /\ e.val \in Row
      /\ op.type \in {"INSERT", "UPSERT", "UPDATE"} => op.val \in Val
  BY OpParts DEF Entry, Types
<1>2. CASE op.type = "NONE"
  BY <1>1, <1>2 DEF Merge, Execute
<1>3. CASE op.type # "NONE" /\ (op.type = "DELETE" \/ e.type = "NONE")
  <2>1. PICK m : m = Merge(e, op, rev)
    OBVIOUS
  <2>2. m = [type |-> op.type, val |-> op.val, rev |-> rev]
    BY <1>3, <2>1 DEF Merge
  <2>3. m \in Entry /\ m.type = op.type /\ m.val = op.val
    BY <1>1, <2>2 DEF Entry, Types
  <2>4. /\ Execute(m, Execute(op, row)) = Execute(op, row)
        /\ m.type = "UPDATE" => Execute(op, row) # Absent
        /\ \A x \in Row : Execute(e, x) = row => Execute(m, x) = Execute(op, row)
    BY <1>1, <1>3, <2>3 DEF Execute, OpFits, Types
  <2>5. QED
    BY <2>1, <2>3, <2>4
<1>4. CASE op.type \in {"UPSERT", "UPDATE"} /\ e.type \in {"INSERT", "UPSERT", "UPDATE"}
  <2>1. PICK m : m = Merge(e, op, rev)
    OBVIOUS
  <2>2. m = [e EXCEPT !.type = IF op.type = "UPSERT" THEN "UPSERT" ELSE @, !.val = op.val]
    BY <1>4, <2>1 DEF Merge
  <2>3. /\ m \in Entry /\ m.val = op.val
        /\ m.type = IF op.type = "UPSERT" THEN "UPSERT" ELSE e.type
    BY <1>1, <1>4, <2>2 DEF Entry, Types
  <2>4. Execute(op, row) = op.val /\ op.val # Absent
    BY <1>1, <1>4 DEF Execute, OpFits
  <2>5. ASSUME NEW x \in Row, x # Absent \/ m.type # "UPDATE" PROVE Execute(m, x) = op.val
    BY <1>4, <2>3, <2>5 DEF Execute
  <2>6. ASSUME NEW x \in Row, Execute(e, x) = row, m.type = "UPDATE" PROVE x # Absent
    BY <1>4, <2>3, <2>6 DEF Execute
  <2>7. QED
    BY <1>1, <2>1, <2>3, <2>4, <2>5, <2>6
<1>5. QED
  BY <1>1, <1>2, <1>3, <1>4 DEF Rejects, Types

\* Executed on a row beyond the batch, an operation leaves it there or brings it back to
\* the end of the batch.
LEMMA ExecuteBeyond ==
    ASSUME NEW e \in Entry, NEW goal \in Row, Execute(e, goal) = goal,
           e.type = "UPDATE" => goal # Absent, NEW x \in Row
    PROVE  Execute(e, x) \in {x, goal}
BY DEF Entry, Execute, Row

\* Where no history is saved the row does not change.
LEMMA NothingSaved ==
    ASSUME NEW op \in Op, NEW row \in Row, NEW k \in Key, NEW b \in Nat,
           SaveHistory(op, k, b, row) = {}
    PROVE  Execute(op, row) = row
BY DEF Op, Execute, Row, SaveHistory

\* What is saved names its block and its row.
LEMMA SavedShape ==
    ASSUME NEW op, op.type \in Types, NEW row \in Row, NEW k \in Key,
           NEW b \in 1 .. MaxBlocks, NEW r \in SaveHistory(op, k, b, row)
    PROVE  r \in HistoryRow /\ r.block = b /\ r.key = k
BY DEF Types, Row, SaveHistory, HistoryRow

\* A statement saves at most one history row.
LEMMA SavedOnce ==
    ASSUME NEW op \in Op, NEW row, NEW k, NEW b,
           NEW r \in SaveHistory(op, k, b, row), NEW s \in SaveHistory(op, k, b, row)
    PROVE  r = s
BY DEF Op, SaveHistory

\* A revert brings back the row of before, if an INSERT met no row.
LEMMA RevertUndoes ==
    ASSUME NEW op \in Op, NEW row \in Row, NEW k \in Key, NEW b \in Nat,
           op.type = "INSERT" => row = Absent,
           NEW r \in SaveHistory(op, k, b, row)
    PROVE  RevertOp(r, Execute(op, row)) = row
BY RisingwaveAssumption DEF Op, Execute, Row, SaveHistory, RevertOp

\* A revert leaves a row or none.
LEMMA RevertType ==
    ASSUME NEW r \in HistoryRow, NEW row \in Row
    PROVE  RevertOp(r, row) \in Row
BY DEF HistoryRow, RevertOp, Row

-----------------------------------------------------------------------------
(* The inductive invariant.                                                *)

\* Every operation fits the row it meets
LegalPath(p) ==
    \A i \in 1 .. Len(p) : \A k \in Key : OpFits(p[i][k], After(p)[i - 1][k])

\* The history row block i of a path saves for row k, if any
Saved(path, i, k) == SaveHistory(path[i][k], k, i, After(path)[i - 1][k])

Typed ==
    /\ chain \in Path /\ Len(chain) <= MaxBlocks
    /\ lib \in Nat /\ lib <= Len(chain)
    /\ phase \in {"idle", "flush", "pruned", "revert", "reverted", "down"}
    /\ pos \in Path /\ Len(pos) <= MaxBlocks
    /\ entries \in [Key -> Entry]
    /\ todo \subseteq Key /\ logged \subseteq todo
    /\ phase \notin {"flush", "down"} => logged = {}
    /\ phase = "pruned" => todo = {}
    /\ final \in Nat /\ final <= lib
    /\ pending \subseteq HistoryRow
    /\ attempt \in 0 .. FlushRetryCount
    /\ rows \in [Key -> Row]
    /\ history \subseteq HistoryRow
    /\ cursor \in Path /\ Len(cursor) <= MaxBlocks
    /\ held \in BOOLEAN /\ ahead \in 0 .. MaxBlocks
    /\ faults \in Nat /\ reorgs \in Nat /\ Within(reorgs, faults)

\* If every block is flushed on its own the process is at the cursor, one block after it,
\* or going back from it; it is never on a fork below the final height it was told
PathsPlace ==
    /\ LegalPath(chain) /\ LegalPath(pos) /\ LegalPath(cursor)
    /\ \A i \in 1 .. final : i <= Len(pos) => i <= Len(chain) /\ pos[i] = chain[i]
    /\ phase \in {"revert", "reverted"} => final <= Len(pos)
    /\ ~ held =>
         /\ phase = "idle" => pos = cursor
         /\ phase \in {"flush", "pruned"} =>
              Len(pos) = Len(cursor) + 1 /\ Agree(cursor, pos, Len(cursor))
         /\ phase \in {"revert", "reverted"} => Agree(pos, cursor, Len(pos))

\* A row is where one of these blocks of the chain left it
AtLevel(k, m, n) == \E l \in m .. n : rows[k] = After(chain)[l][k]

\* The buffered operation leads from any block since the cursor to the last one
Merged(k) ==
    /\ \A l \in Len(cursor) .. Len(pos) :
         Execute(entries[k], After(chain)[l][k]) = After(chain)[Len(pos)][k]
    /\ entries[k].type = "UPDATE" => After(chain)[Len(pos)][k] # Absent

\* As long as no block is replaced: a row is between the cursor and the last block a
\* flush was started for, and not before the batch if its statement was executed
FaultsPlace ==
    reorgs = 0 =>
        /\ phase \notin {"revert", "reverted"}
        /\ Len(cursor) <= ahead /\ ahead <= Len(chain)
        /\ Agree(cursor, chain, Len(cursor))
        /\ \A k \in Key : AtLevel(k, Len(cursor), ahead)
        /\ phase # "down" =>
             /\ Agree(pos, chain, Len(pos)) /\ Len(cursor) <= Len(pos)
             /\ \A k \in Key : Merged(k)
        /\ phase \in {"flush", "pruned"} =>
             /\ Len(pos) <= ahead
             /\ \A k \in Key \ todo : AtLevel(k, Len(pos), ahead)
        /\ faults = 0 =>
             ahead = IF phase \in {"flush", "pruned"} THEN Len(pos) ELSE Len(cursor)

\* A revert has brought each row back to a block of its own: the history rows that
\* are left are those of the blocks up to it
RevertPlace(level) ==
    \A k \in Key :
        /\ rows[k] = After(cursor)[level[k]][k]
        /\ \A i \in (Len(pos) + 1) .. Len(cursor) :
             i <= level[k] => Saved(cursor, i, k) \subseteq pending
        /\ \A r \in pending : r.key = k =>
             /\ r.block \in (Len(pos) + 1) .. Len(cursor) /\ r.block <= level[k]
             /\ r \in Saved(cursor, r.block, k)

\* The path whose blocks the history tells
HistoryPath == IF phase = "revert" THEN cursor ELSE pos

\* The history row of row k in block i has not been inserted
Unsaved(i, k) == phase = "flush" /\ i = Len(pos) /\ k \in todo \ logged

\* The buffer has the operation of the last block
Buffered(k) ==
    LET op == pos[Len(pos)][k]
    IN  /\ entries[k].type = op.type /\ entries[k].val = op.val
        /\ op.type # "NONE" =>
             entries[k].rev = IF Len(pos) > final THEN Len(pos) ELSE 0

\* The history holds what the blocks of its path saved, and all of it above the
\* final height
HistoryPlace ==
    /\ \A r \in history :
         /\ r.block \in 1 .. Len(HistoryPath) /\ ~ Unsaved(r.block, r.key)
         /\ r \in Saved(HistoryPath, r.block, r.key)
    /\ \A i \in (final + 1) .. Len(HistoryPath) : \A k \in Key :
         Unsaved(i, k) \/ Saved(HistoryPath, i, k) \subseteq history

\* As long as nothing fails and every block is flushed on its own
ReorgPlace ==
    (faults = 0 /\ ~ held) =>
        /\ phase # "down"
        /\ phase \in {"idle", "pruned", "reverted"} => rows = After(pos)[Len(pos)]
        /\ phase \in {"idle", "revert", "reverted"} => entries = NoEntries
        /\ phase = "flush" => \A k \in Key :
             /\ rows[k] = After(pos)[IF k \in todo THEN Len(cursor) ELSE Len(pos)][k]
             /\ Buffered(k)
        /\ phase = "revert" =>
             \E level \in [Key -> Len(pos) .. Len(cursor)] : RevertPlace(level)
        /\ HistoryPlace

RInv == Typed /\ PathsPlace /\ FaultsPlace /\ ReorgPlace

-----------------------------------------------------------------------------
(* Legal paths and saved rows.                                             *)

\* A legal path cut off is legal,
LEMMA LegalPrefix ==
    ASSUME NEW p \in Path, NEW s \in Path, LegalPath(s), Agree(p, s, Len(p))
    PROVE  LegalPath(p)
<1>1. Len(p) \in Nat /\ Len(s) \in Nat /\ Len(p) <= Len(s)
  BY PathLength DEF Agree
<1>2. ASSUME NEW i \in 1 .. Len(p)
      PROVE  i \in 1 .. Len(s) /\ p[i] = s[i] /\ After(p)[i - 1] = After(s)[i - 1]
  <2>1. i \in 1 .. Len(s) /\ p[i] = s[i] /\ i - 1 \in 0 .. Len(p)
    BY <1>1 DEF Agree
  <2>2. QED
    BY <1>1, <2>1, AfterAgree
<1>3. QED
  BY <1>2 DEF LegalPath

\* and so is one with a block added whose operations fit the rows.
LEMMA LegalAppend ==
    ASSUME NEW p \in Path, NEW b \in Block, LegalPath(p),
           \A k \in Key : OpFits(b[k], Content(p)[k])
    PROVE  LegalPath(Append(p, b))
<1>1. PICK q : q = Append(p, b)
  OBVIOUS
<1>2. /\ q \in Path /\ Len(q) = Len(p) + 1 /\ Agree(p, q, Len(p)) /\ q[Len(p) + 1] = b
      /\ Len(p) \in Nat
  BY <1>1, PathAppend, PathLength
<1>3. \A i \in 0 .. Len(p) : After(p)[i] = After(q)[i]
  BY <1>2, AfterAgree
<1>4. ASSUME NEW i \in 1 .. Len(q), NEW k \in Key
      PROVE  OpFits(q[i][k], After(q)[i - 1][k])
  <2>1. CASE i = Len(p) + 1
    <3>1. i - 1 = Len(p) /\ Len(p) \in 0 .. Len(p)
      BY <1>2, <2>1
    <3>2. After(q)[i - 1] = Content(p)
      BY <1>3, <3>1, AfterUnfolds
    <3>3. QED
      BY <1>2, <1>4, <2>1, <3>2
  <2>2. CASE i # Len(p) + 1
    <3>1. i \in 1 .. Len(p) /\ i - 1 \in 0 .. Len(p)
      BY <1>2, <2>2
    <3>2. p[i] = q[i] /\ After(p)[i - 1] = After(q)[i - 1]
      BY <1>2, <1>3, <3>1 DEF Agree
    <3>3. QED
      BY <1>4, <3>1, <3>2 DEF LegalPath
  <2>3. QED
    BY <2>1, <2>2
<1>5. QED
  BY <1>1, <1>4 DEF LegalPath

\* The next block of the chain after a prefix of it makes a longer prefix.
LEMMA NextOfPrefix ==
    ASSUME NEW p \in Path, NEW s \in Path, IsPrefix(p, s), Len(p) < Len(s)
    PROVE  LET q == Append(p, s[Len(p) + 1])
           IN  /\ s[Len(p) + 1] \in Block /\ q \in Path /\ Len(q) = Len(p) + 1
               /\ Agree(p, q, Len(p)) /\ Agree(q, s, Len(p) + 1)
               /\ q[Len(p) + 1] = s[Len(p) + 1]
<1>1. Len(p) \in Nat /\ Len(s) \in Nat
  BY PathLength
<1>2. PICK b \in Block : b = s[Len(p) + 1]
  <2>1. Len(p) + 1 \in 1 .. Len(s)
    BY <1>1
  <2>2. QED
    BY <2>1, ElementOfSeq DEF Path
<1>3. PICK q : q = Append(p, b)
  OBVIOUS
<1>4. /\ q \in Path /\ Len(q) = Len(p) + 1 /\ Agree(p, q, Len(p)) /\ q[Len(p) + 1] = b
  BY <1>3, PathAppend
<1>5. Agree(p, s, Len(p))
  BY PrefixAgrees
<1>6. Agree(q, s, Len(p) + 1)
  <2>1. ASSUME NEW i \in 1 .. (Len(p) + 1) PROVE q[i] = s[i]
    <3>1. CASE i = Len(p) + 1
      BY <1>2, <1>4, <3>1
    <3>2. CASE i # Len(p) + 1
      <4>1. i \in 1 .. Len(p)
        BY <1>1, <3>2
      <4>2. QED
        BY <1>4, <1>5, <4>1 DEF Agree
    <3>3. QED
      BY <3>1, <3>2
  <2>2. QED
    BY <1>1, <1>4, <2>1 DEF Agree
<1>7. QED
  BY <1>2, <1>3, <1>4, <1>6

\* The last block of a path and the rows before and after it.
LEMMA LastBlock ==
    ASSUME NEW p \in Path, NEW n \in Nat, Len(p) = n + 1, NEW k \in Key
    PROVE  /\ p[Len(p)] \in Block /\ p[Len(p)][k] \in Op
           /\ After(p)[n][k] \in Row /\ After(p)[n + 1][k] \in Row
           /\ After(p)[n + 1][k] = Execute(p[Len(p)][k], After(p)[n][k])
<1>1. n + 1 \in 1 .. Len(p) /\ n \in 0 .. Len(p) /\ n + 1 \in 0 .. Len(p) /\ (n + 1) - 1 = n
  OBVIOUS
<1>2. p[n + 1] \in Block
  BY <1>1, ElementOfSeq DEF Path
<1>3. p[n + 1][k] \in Op
  BY <1>2 DEF Block
<1>4. After(p)[n] \in [Key -> Row] /\ After(p)[n + 1] \in [Key -> Row]
  BY <1>1, AfterType
<1>5. After(p)[n + 1][k] = Execute(p[n + 1][k], After(p)[(n + 1) - 1][k])
  BY <1>1, AfterUnfolds
<1>6. QED
  BY <1>1, <1>2, <1>3, <1>4, <1>5

-----------------------------------------------------------------------------
(* Types and paths.                                                        *)

\* An empty buffer is well typed.
LEMMA NoEntriesTyped == NoEntries \in [Key -> Entry]
<1>1. NoEntry \in Entry
  BY RisingwaveAssumption DEF NoEntry, Entry
<1>2. QED
  BY <1>1 DEF NoEntries

\* What is merged into the buffer is well typed.
LEMMA MergeType ==
    ASSUME NEW e \in Entry, NEW op \in Op, NEW rev \in 0 .. MaxBlocks
    PROVE  Merge(e, op, rev) \in Entry
<1>1. /\ op.type \in Types /\ op.val \in Val \union {Absent}
      /\ e.type \in Types /\ e.val \in Val \union {Absent} /\ e.rev \in 0 .. MaxBlocks
      /\ e = [type |-> e.type, val |-> e.val, rev |-> e.rev]
  BY OpParts DEF Entry, Types, Row
<1>2. [type |-> op.type, val |-> op.val, rev |-> rev] \in Entry
  BY <1>1 DEF Entry, Types
<1>3. [e EXCEPT !.type = IF op.type = "UPSERT" THEN "UPSERT" ELSE @, !.val = op.val] \in Entry
  BY <1>1 DEF Entry, Types
<1>4. QED
  BY <1>2, <1>3 DEF Merge

\* The block a process handles next, and what it leaves in the buffer.
LEMMA HandleTyped ==
    ASSUME Typed, NEW flush \in BOOLEAN, HandleBlock(flush)
    PROVE  /\ pos' \in Path /\ Len(pos') = Len(pos) + 1 /\ Agree(pos, pos', Len(pos))
           /\ Agree(pos', chain, Len(pos')) /\ Len(pos') <= Len(chain)
           /\ chain[Len(pos')] \in Block /\ pos'[Len(pos')] = chain[Len(pos')]
           /\ \A k \in Key :
                /\ ~ Rejects(entries[k], chain[Len(pos')][k])
                /\ entries'[k] = Merge(entries[k], chain[Len(pos')][k],
                                       IF Len(pos') > lib THEN Len(pos') ELSE 0)
           /\ entries' \in [Key -> Entry] /\ Touched(entries') \subseteq Key
<1>1. /\ chain \in Path /\ pos \in Path /\ IsPrefix(pos, chain) /\ Len(pos) < Len(chain)
      /\ Len(pos) \in Nat /\ Len(chain) \in Nat /\ Len(chain) <= MaxBlocks
      /\ pos' = Append(pos, chain[Len(pos) + 1])
  BY PathLength DEF HandleBlock, Typed
<1>2. PICK n \in Nat : n = Len(pos) + 1
  BY <1>1
<1>3. /\ pos' \in Path /\ Len(pos') = n /\ Agree(pos, pos', Len(pos))
      /\ Agree(pos', chain, n) /\ chain[n] \in Block /\ pos'[n] = chain[n]
  BY <1>1, <1>2, NextOfPrefix
<1>4. /\ entries' = [k \in Key |-> Merge(entries[k], chain[n][k], IF n > lib THEN n ELSE 0)]
      /\ \A k \in Key : ~ Rejects(entries[k], chain[n][k])
  BY <1>2 DEF HandleBlock
<1>5. (IF n > lib THEN n ELSE 0) \in 0 .. MaxBlocks
  BY <1>1, <1>2, RisingwaveAssumption
<1>6. ASSUME NEW k \in Key
      PROVE  Merge(entries[k], chain[n][k], IF n > lib THEN n ELSE 0) \in Entry
  <2>1. entries[k] \in Entry /\ chain[n][k] \in Op
    BY <1>3 DEF Typed, Block
  <2>2. QED
    BY <1>5, <2>1, MergeType
<1>7. entries' \in [Key -> Entry]
  BY <1>4, <1>6
<1>8. QED
  BY <1>1, <1>2, <1>3, <1>4, <1>7 DEF Touched

\* The types hold initially and survive every step.
LEMMA TypedInit == ASSUME Init PROVE Typed
<1>1. <<>> \in Path /\ Len(<<>>) = 0
  BY EmptySeq DEF Path
<1>2. NoRows \in [Key -> Row]
  BY DEF NoRows, Row
<1>3. /\ 0 \in 0 .. FlushRetryCount /\ 0 \in 0 .. MaxBlocks /\ Within(0, 0)
  BY RisingwaveAssumption DEF Within
<1>4. 0 <= MaxBlocks
  BY RisingwaveAssumption
<1>5. held \in BOOLEAN
  BY DEF Init
<1>6. QED
  BY <1>1, <1>2, <1>3, <1>4, <1>5, NoEntriesTyped DEF Init, Typed

\* Every step keeps the state well typed.
LEMMA TypedNext == ASSUME Typed, PathsPlace, Next PROVE Typed'
<1> USE RisingwaveAssumption
<1>1. /\ Len(chain) \in Nat /\ Len(pos) \in Nat /\ Len(cursor) \in Nat
      /\ chain \in Path /\ pos \in Path /\ cursor \in Path
  BY PathLength DEF Typed
<1>2. ASSUME NEW b \in Block, NEW h \in 0 .. MaxBlocks, Extend(b, h) PROVE Typed'
  <2>1. chain' \in Path /\ Len(chain') = Len(chain) + 1
    BY <1>1, <1>2, PathAppend DEF Extend
  <2>2. h \in Nat /\ lib <= h /\ h <= Len(chain)
    BY <1>1, <1>2 DEF Extend, Typed
  <2>3. Len(chain') <= MaxBlocks /\ lib' <= Len(chain') /\ final <= lib'
    BY <1>1, <1>2, <2>1, <2>2 DEF Extend, Typed
  <2>4. QED
    BY <1>2, <2>1, <2>2, <2>3 DEF Extend, Typed, bufferVars, processVars, dbVars
<1>3. ASSUME NEW n \in 0 .. MaxBlocks, Reorg(n) PROVE Typed'
  <2>1. n \in Nat /\ lib <= n /\ n <= Len(chain)
    BY <1>1, <1>3 DEF Reorg, Typed
  <2>2. chain' \in Path /\ Len(chain') = n
    BY <1>1, <1>3, <2>1, PrefixOf DEF Reorg
  <2>3. QED
    BY <1>1, <1>3, <2>1, <2>2 DEF Reorg, Typed, bufferVars, processVars, dbVars
<1>4. ASSUME NEW flush \in BOOLEAN, HandleBlock(flush) PROVE Typed'
  <2>1. /\ pos' \in Path /\ Len(pos') = Len(pos) + 1 /\ Len(pos') <= Len(chain)
        /\ entries' \in [Key -> Entry] /\ Touched(entries') \subseteq Key
    BY <1>4, HandleTyped
  <2>2. Len(pos') <= MaxBlocks /\ Len(pos) + 1 \in 0 .. MaxBlocks
    BY <1>1, <2>1 DEF Typed
  <2>3. /\ todo' \subseteq Key /\ logged' = {} /\ phase' \in {"idle", "flush"}
        /\ held' \in BOOLEAN /\ ahead' \in 0 .. MaxBlocks
    BY <1>4, <2>1, <2>2 DEF HandleBlock, Typed
  <2>4. QED
    BY <1>4, <2>1, <2>2, <2>3 DEF HandleBlock, Typed, dbVars
<1>5. ASSUME NEW k \in Key, ExecStatement(k) PROVE Typed'
  <2>1. /\ rows \in [Key -> Row] /\ rows[k] \in Row /\ entries[k] \in Entry
        /\ entries[k].type \in Types /\ entries[k].val \in Row
    BY DEF Typed, Entry, Types, Row
  <2>2. rows' \in [Key -> Row]
    <3>1. rows' = [rows EXCEPT ![k] = Execute(entries[k], rows[k])]
      BY <1>5 DEF ExecStatement
    <3>2. Execute(entries[k], rows[k]) \in Row
      BY <2>1, ExecuteType
    <3>3. QED
      BY <2>1, <3>1, <3>2
  <2>3. QED
    BY <1>5, <2>2 DEF ExecStatement, Typed, bufferVars
<1>16. ASSUME NEW k \in Key, SaveRow(k) PROVE Typed'
  <2>1. rows[k] \in Row /\ entries[k] \in Entry /\ entries[k].rev # 0
    BY <1>16 DEF Typed, SaveRow
  <2>2. entries[k].type \in Types /\ entries[k].rev \in 1 .. MaxBlocks
    BY <2>1 DEF Entry, Types
  <2>3. SaveHistory(entries[k], k, entries[k].rev, rows[k]) \subseteq HistoryRow
    BY <2>1, <2>2, SavedShape
  <2>4. history' \subseteq HistoryRow
    BY <1>16, <2>3 DEF SaveRow, Typed
  <2>5. QED
    BY <1>16, <2>4 DEF SaveRow, Typed, bufferVars
<1>17. ASSUME Prune PROVE Typed'
  BY <1>17 DEF Prune, Typed, bufferVars
<1>18. ASSUME RejectBlock PROVE Typed'
  BY <1>18 DEF RejectBlock, Typed, bufferVars, dbVars
<1>6. ASSUME FlushEnds PROVE Typed'
  BY <1>6, NoEntriesTyped DEF FlushEnds, Typed
<1>7. ASSUME StatementFails PROVE Typed'
  <2>1. todo' \subseteq Key /\ logged' = {}
    BY <1>7 DEF StatementFails, Typed, Touched
  <2>2. attempt' \in 0 .. FlushRetryCount
    BY <1>7 DEF StatementFails, Typed
  <2>3. phase' \in {"flush", "down"}
    BY <1>7 DEF StatementFails
  <2>4. QED
    BY <1>7, <2>1, <2>2, <2>3 DEF StatementFails, Typed, bufferVars, dbVars
<1>8. ASSUME Undo PROVE Typed'
  <2>1. Common(pos, chain) \in Nat /\ Common(pos, chain) <= Len(pos)
    BY <1>1, CommonIsLongest DEF Agree
  <2>2. pos' \in Path /\ Len(pos') = Common(pos, chain)
    BY <1>1, <1>8, <2>1, PrefixOf DEF Undo
  <2>3. Len(pos') <= MaxBlocks
    BY <1>1, <2>1, <2>2 DEF Typed
  <2>4. QED
    BY <1>8, <2>2, <2>3 DEF Undo, Typed, bufferVars, dbVars
<1>9. ASSUME NEW r \in pending, RevertRow(r) PROVE Typed'
  <2>1. r \in HistoryRow /\ r.key \in Key /\ rows[r.key] \in Row /\ rows \in [Key -> Row]
    BY DEF Typed, HistoryRow
  <2>2. RevertOp(r, rows[r.key]) \in Row
    BY <2>1, RevertType
  <2>3. rows' = [rows EXCEPT ![r.key] = RevertOp(r, rows[r.key])]
    BY <1>9 DEF RevertRow
  <2>4. rows' \in [Key -> Row]
    BY <2>1, <2>2, <2>3
  <2>5. QED
    BY <1>9, <2>4 DEF RevertRow, Typed, bufferVars
<1>10. ASSUME PruneReverted PROVE Typed'
  BY <1>10 DEF PruneReverted, Typed, bufferVars
<1>11. ASSUME RevertEnds PROVE Typed'
  BY <1>11 DEF RevertEnds, Typed, bufferVars
<1>12. ASSUME Crash PROVE Typed'
  BY <1>12 DEF Crash, Typed, bufferVars, dbVars
<1>13. ASSUME Restart PROVE Typed'
  BY <1>13, NoEntriesTyped DEF Restart, Typed, dbVars
<1>14. ASSUME Waiting PROVE Typed'
  BY <1>14 DEF Waiting, Typed, vars, bufferVars, processVars, dbVars
<1>15. QED
  BY <1>2, <1>3, <1>4, <1>5, <1>6, <1>7, <1>8, <1>9, <1>10, <1>11, <1>12, <1>13, <1>14,
     <1>16, <1>17, <1>18 DEF Next

\* The process stays at its place on the paths.
LEMMA PathsInit == ASSUME Init PROVE PathsPlace
<1>1. Len(<<>>) = 0
  BY EmptySeq
<1>2. LegalPath(<<>>)
  BY <1>1 DEF LegalPath
<1>3. QED
  BY <1>1, <1>2 DEF Init, PathsPlace

\* Every step keeps the process on or next to the cursor, and the final blocks in place.
LEMMA PathsNext == ASSUME Typed, PathsPlace, Next PROVE PathsPlace'
<1>1. /\ Len(chain) \in Nat /\ Len(pos) \in Nat /\ Len(cursor) \in Nat
      /\ chain \in Path /\ pos \in Path /\ cursor \in Path
      /\ lib \in Nat /\ lib <= Len(chain) /\ final \in Nat /\ final <= lib
  BY PathLength DEF Typed
<1>2. ASSUME NEW b \in Block, NEW h \in 0 .. MaxBlocks, Extend(b, h) PROVE PathsPlace'
  <2>1. /\ chain' = Append(chain, b) /\ chain' \in Path /\ Len(chain') = Len(chain) + 1
        /\ Agree(chain, chain', Len(chain))
    BY <1>1, <1>2, PathAppend DEF Extend
  <2>2. LegalPath(chain')
    <3>1. \A k \in Key : OpFits(b[k], Content(chain)[k])
      BY <1>2 DEF Extend, Legal, OpFits
    <3>2. QED
      BY <1>1, <2>1, <3>1, LegalAppend DEF PathsPlace
  <2>3. ASSUME NEW i \in 1 .. final, i <= Len(pos) PROVE i <= Len(chain') /\ pos[i] = chain'[i]
    <3>1. i <= Len(chain) /\ pos[i] = chain[i]
      BY <2>3 DEF PathsPlace
    <3>2. i \in 1 .. Len(chain)
      BY <1>1, <3>1
    <3>3. QED
      BY <1>1, <2>1, <3>1, <3>2 DEF Agree
  <2>4. UNCHANGED <<phase, pos, final, cursor, held>>
    BY <1>2 DEF Extend, bufferVars, processVars, dbVars
  <2>5. QED
    BY <2>2, <2>3, <2>4 DEF PathsPlace, LegalPath, Agree
<1>3. ASSUME NEW n \in 0 .. MaxBlocks, Reorg(n) PROVE PathsPlace'
  <2>1. n \in Nat /\ lib <= n /\ n <= Len(chain)
    BY <1>1, <1>3 DEF Reorg
  <2>2. chain' \in Path /\ Len(chain') = n /\ Agree(chain', chain, n)
    BY <1>1, <1>3, <2>1, PrefixOf DEF Reorg
  <2>3. LegalPath(chain')
    BY <1>1, <2>2, LegalPrefix DEF PathsPlace
  <2>4. ASSUME NEW i \in 1 .. final, i <= Len(pos) PROVE i <= Len(chain') /\ pos[i] = chain'[i]
    <3>1. i \in 1 .. n
      BY <1>1, <2>1
    <3>2. QED
      BY <2>2, <2>4, <3>1 DEF Agree, PathsPlace
  <2>5. UNCHANGED <<phase, pos, final, cursor, held>>
    BY <1>3 DEF Reorg, bufferVars, processVars, dbVars
  <2>6. QED
    BY <2>3, <2>4, <2>5 DEF PathsPlace, LegalPath, Agree
<1>4. ASSUME NEW flush \in BOOLEAN, HandleBlock(flush) PROVE PathsPlace'
  <2>1. /\ pos' \in Path /\ Len(pos') = Len(pos) + 1 /\ Agree(pos, pos', Len(pos))
        /\ Agree(pos', chain, Len(pos'))
    BY <1>4, HandleTyped
  <2>2. LegalPath(pos')
    BY <1>1, <2>1, LegalPrefix DEF PathsPlace
  <2>3. ASSUME NEW i \in 1 .. final', i <= Len(pos') PROVE i <= Len(chain) /\ pos'[i] = chain[i]
    <3>1. final' = lib
      BY <1>4 DEF HandleBlock
    <3>2. i \in 1 .. Len(pos') /\ i <= Len(chain)
      BY <1>1, <2>1, <2>3, <3>1
    <3>3. QED
      BY <2>1, <3>2 DEF Agree
  <2>4. /\ ~ held => pos = cursor
        /\ UNCHANGED <<chain, cursor>> /\ phase' \in {"idle", "flush"}
        /\ phase' = "flush" => held' = held
        /\ phase' = "idle" => held'
    BY <1>4 DEF HandleBlock, PathsPlace, dbVars
  <2>5. ~ held' => /\ phase' = "flush" /\ Len(pos') = Len(cursor') + 1
                   /\ Agree(cursor', pos', Len(cursor'))
    BY <2>1, <2>4
  <2>6. QED
    BY <2>1, <2>2, <2>3, <2>4, <2>5 DEF PathsPlace, LegalPath
<1>5. ASSUME UNCHANGED <<chain, phase, pos, final, cursor, held>> PROVE PathsPlace'
  BY <1>5 DEF PathsPlace, LegalPath, Agree
<1>6. ASSUME FlushEnds PROVE PathsPlace'
  BY <1>6 DEF FlushEnds, PathsPlace, LegalPath
<1>7. ASSUME UNCHANGED <<chain, pos, final, cursor, held>>,
             \/ phase' = "down" \/ phase' = phase
             \/ phase \in {"flush", "pruned"} /\ phase' \in {"flush", "pruned"}
      PROVE  PathsPlace'
  BY <1>7 DEF PathsPlace, LegalPath, Agree
<1>8. ASSUME Undo PROVE PathsPlace'
  <2>1. PICK n \in Nat : /\ n = Common(pos, chain) /\ Agree(pos, chain, n)
                         /\ \A m \in Nat : Agree(pos, chain, m) => m <= n
    BY <1>1, CommonIsLongest
  <2>2. pos' \in Path /\ Len(pos') = n /\ Agree(pos', pos, n) /\ n <= Len(pos)
    BY <1>1, <1>8, <2>1, PrefixOf DEF Undo, Agree
  <2>3. LegalPath(pos')
    BY <1>1, <2>2, LegalPrefix DEF PathsPlace
  <2>4. final <= n
    <3>1. CASE Len(pos) <= final
      <4>1. \A i \in 1 .. Len(pos) : i \in 1 .. final /\ i <= Len(pos)
        BY <1>1, <3>1
      <4>2. Agree(pos, chain, Len(pos))
        BY <1>1, <3>1, <4>1 DEF PathsPlace, Agree
      <4>3. FALSE
        BY <1>1, <1>8, <4>2, PrefixAgrees DEF Undo
      <4>4. QED
        BY <4>3
    <3>2. CASE final <= Len(pos)
      <4>1. \A i \in 1 .. final : i <= Len(pos)
        BY <1>1, <3>2
      <4>2. Agree(pos, chain, final)
        BY <1>1, <3>2, <4>1 DEF PathsPlace, Agree
      <4>3. QED
        BY <1>1, <2>1, <4>2
    <3>3. QED
      BY <1>1, <3>1, <3>2
  <2>5. ASSUME NEW i \in 1 .. final, i <= Len(pos') PROVE i <= Len(chain) /\ pos'[i] = chain[i]
    <3>1. i \in 1 .. n /\ i <= Len(pos)
      BY <1>1, <2>1, <2>2, <2>5
    <3>2. QED
      BY <2>2, <2>5, <3>1 DEF PathsPlace, Agree
  <2>6. /\ ~ held => pos = cursor
        /\ phase' = "revert" /\ UNCHANGED <<chain, cursor, final, held>>
    BY <1>8 DEF Undo, PathsPlace, bufferVars, dbVars
  <2>7. QED
    BY <2>2, <2>3, <2>4, <2>5, <2>6 DEF PathsPlace, LegalPath
<1>9. ASSUME PruneReverted PROVE PathsPlace'
  BY <1>9 DEF PruneReverted, PathsPlace, LegalPath, Agree, bufferVars
<1>10. ASSUME RevertEnds PROVE PathsPlace'
  BY <1>10 DEF RevertEnds, PathsPlace, LegalPath, bufferVars
<1>11. ASSUME Restart PROVE PathsPlace'
  <2>1. 1 .. final' = {}
    BY <1>11 DEF Restart
  <2>2. QED
    BY <1>11, <2>1 DEF Restart, PathsPlace, LegalPath, dbVars
<1>12. ASSUME NEW k \in Key, ExecStatement(k) PROVE PathsPlace'
  BY <1>5, <1>12 DEF ExecStatement, bufferVars
<1>13. ASSUME StatementFails PROVE PathsPlace'
  BY <1>7, <1>13 DEF StatementFails, bufferVars, dbVars
<1>14. ASSUME NEW r \in pending, RevertRow(r) PROVE PathsPlace'
  BY <1>5, <1>14 DEF RevertRow, bufferVars
<1>15. ASSUME Crash PROVE PathsPlace'
  BY <1>7, <1>15 DEF Crash, bufferVars, dbVars
<1>16. ASSUME Waiting PROVE PathsPlace'
  BY <1>5, <1>16 DEF Waiting, vars, bufferVars, processVars, dbVars
<1>17. ASSUME NEW k \in Key, SaveRow(k) PROVE PathsPlace'
  BY <1>5, <1>17 DEF SaveRow, bufferVars
<1>18. ASSUME Prune PROVE PathsPlace'
  BY <1>7, <1>18 DEF Prune, bufferVars
<1>19. ASSUME RejectBlock PROVE PathsPlace'
  BY <1>7, <1>19 DEF RejectBlock, bufferVars, dbVars
<1>20. QED
  BY <1>2, <1>3, <1>4, <1>6, <1>8, <1>9, <1>10, <1>11, <1>12, <1>13, <1>14, <1>15, <1>16,
     <1>17, <1>18, <1>19 DEF Next

-----------------------------------------------------------------------------
(* Faults alone.                                                           *)

\* A row the block does not touch has no statement to wait for.
LEMMA UntouchedRow ==
    ASSUME NEW b \in Block, NEW k \in Key, k \notin Touched(b), NEW row \in Row
    PROVE  Execute(b[k], row) = row /\ \A i : SaveHistory(b[k], k, i, row) = {}
BY DEF Touched, Execute, SaveHistory

\* Where a statement leaves its row.
LEMMA StatementLevel ==
    ASSUME Typed, FaultsPlace, reorgs = 0, phase # "down", Len(pos) <= ahead, NEW k \in Key
    PROVE  \E m \in Len(pos) .. ahead : Execute(entries[k], rows[k]) = After(chain)[m][k]
<1>1. PICK c \in Nat, p \in Nat, n \in Nat : c = Len(cursor) /\ p = Len(pos) /\ n = ahead
  BY PathLength DEF Typed
<1>2. /\ chain \in Path /\ Len(chain) \in Nat /\ c <= p /\ p <= n /\ n <= Len(chain)
      /\ entries[k] \in Entry /\ Merged(k) /\ AtLevel(k, c, n)
  BY <1>1, PathLength DEF Typed, FaultsPlace
<1>3. PICK f : f = [l \in 0 .. Len(chain) |-> After(chain)[l][k]]
  OBVIOUS
<1>4. \A l \in c .. n : l \in 0 .. Len(chain) /\ f[l] = After(chain)[l][k]
  BY <1>2, <1>3
<1>5. \A l \in c .. n : f[l] \in Row
  BY <1>2, <1>4, AfterType
<1>6. PICK e \in Entry : e = entries[k]
  BY <1>2
<1>7. /\ \A l \in c .. p : Execute(e, f[l]) = f[p]
      /\ e.type = "UPDATE" => f[p] # Absent
  <2>1. p \in c .. n /\ \A l \in c .. p : l \in c .. n
    BY <1>2
  <2>2. QED
    BY <1>1, <1>2, <1>4, <1>6, <2>1 DEF Merged
<1>8. PICK l \in c .. n : rows[k] = f[l]
  BY <1>2, <1>4 DEF AtLevel
<1>9. PICK m \in p .. n : Execute(e, f[l]) = f[m]
  <2>1. p \in c .. p /\ p \in c .. n /\ p \in p .. n
    BY <1>2
  <2>2. CASE l <= p
    <3>1. l \in c .. p
      BY <2>2
    <3>2. QED
      BY <1>7, <2>1, <3>1
  <2>3. CASE ~ (l <= p)
    <3>1. l \in p .. n
      BY <2>3
    <3>2. f[p] \in Row /\ f[l] \in Row /\ Execute(e, f[p]) = f[p]
      BY <1>5, <1>7, <2>1
    <3>3. PICK goal \in Row, x \in Row : goal = f[p] /\ x = f[l]
      BY <3>2
    <3>4. Execute(e, x) \in {x, goal}
      BY <1>7, <3>2, <3>3, ExecuteBeyond
    <3>5. QED
      BY <2>1, <3>1, <3>3, <3>4
  <2>4. QED
    BY <2>2, <2>3
<1>10. m \in c .. n
  BY <1>2
<1>11. QED
  BY <1>1, <1>4, <1>6, <1>8, <1>9, <1>10

\* A row without an operation is not before the batch.
LEMMA UntouchedLevel ==
    ASSUME Typed, FaultsPlace, reorgs = 0, phase # "down", Len(pos) <= ahead,
           NEW k \in Key, k \notin Touched(entries)
    PROVE  AtLevel(k, Len(pos), ahead)
<1>1. Execute(entries[k], rows[k]) = rows[k]
  BY DEF Touched, Execute
<1>2. QED
  BY <1>1, StatementLevel DEF AtLevel

\* The next block, merged into the buffer, leads from any block since the cursor to it.
LEMMA MergedNext ==
    ASSUME Typed, PathsPlace, FaultsPlace, reorgs = 0, NEW flush \in BOOLEAN,
           HandleBlock(flush), NEW k \in Key
    PROVE  Merged(k)'
<1>1. PICK c \in Nat, p \in Nat : c = Len(cursor) /\ p = Len(pos)
  BY PathLength DEF Typed
<1>2. /\ phase # "down" /\ UNCHANGED <<chain, cursor>>
  BY DEF HandleBlock, dbVars
<1>3. /\ chain \in Path /\ Len(chain) \in Nat /\ c <= p /\ Merged(k) /\ LegalPath(chain)
      /\ entries[k] \in Entry /\ Len(chain) <= MaxBlocks /\ lib \in Nat
  BY <1>1, <1>2, PathLength DEF Typed, FaultsPlace, PathsPlace
<1>4. PICK op : op = chain[p + 1][k]
  OBVIOUS
<1>5. PICK rev : rev = IF p + 1 > lib THEN p + 1 ELSE 0
  OBVIOUS
<1>6. /\ Len(pos') = p + 1 /\ p + 1 <= Len(chain) /\ op \in Op
      /\ ~ Rejects(entries[k], op) /\ entries'[k] = Merge(entries[k], op, rev)
  <2>1. Len(pos') = p + 1 /\ Len(pos') <= Len(chain)
    BY <1>1, HandleTyped
  <2>2. /\ chain[Len(pos')] \in Block
        /\ ~ Rejects(entries[k], chain[Len(pos')][k])
        /\ entries'[k] = Merge(entries[k], chain[Len(pos')][k],
                               IF Len(pos') > lib THEN Len(pos') ELSE 0)
    BY HandleTyped
  <2>3. QED
    BY <1>4, <1>5, <2>1, <2>2 DEF Block
<1>7. rev \in 0 .. MaxBlocks
  BY <1>3, <1>5, <1>6, RisingwaveAssumption
<1>8. p + 1 \in 1 .. Len(chain) /\ (p + 1) - 1 = p /\ p \in 0 .. Len(chain) /\ p \in c .. p
  BY <1>3, <1>6
<1>9. PICK f : f = [l \in 0 .. Len(chain) |-> After(chain)[l][k]]
  OBVIOUS
<1>10. \A l \in 0 .. Len(chain) : f[l] = After(chain)[l][k] /\ f[l] \in Row
  BY <1>3, <1>9, AfterType
<1>11. f[p + 1] = Execute(op, f[p]) /\ OpFits(op, f[p])
  <2>1. After(chain)[p + 1][k] = Execute(chain[p + 1][k], After(chain)[(p + 1) - 1][k])
    BY <1>3, <1>8, AfterUnfolds
  <2>2. OpFits(chain[p + 1][k], After(chain)[(p + 1) - 1][k])
    BY <1>3, <1>8 DEF LegalPath
  <2>3. p + 1 \in 0 .. Len(chain)
    BY <1>8
  <2>4. QED
    BY <1>4, <1>8, <1>10, <2>1, <2>2, <2>3
<1>12. PICK e \in Entry : e = entries[k]
  BY <1>3
<1>13. /\ \A l \in c .. p : l \in 0 .. Len(chain) /\ Execute(e, f[l]) = f[p]
       /\ e.type = "UPDATE" => f[p] # Absent
  <2>1. \A l \in c .. p : l \in 0 .. Len(chain)
    BY <1>3, <1>6
  <2>2. QED
    BY <1>1, <1>3, <1>8, <1>10, <1>12, <2>1 DEF Merged
<1>14. PICK m : m = Merge(e, op, rev)
  OBVIOUS
<1>15. PICK row \in Row : row = f[p]
  BY <1>8, <1>10
<1>16. ~ Rejects(e, op) /\ OpFits(op, row) /\ Execute(e, row) = row
       /\ (e.type = "UPDATE" => row # Absent)
  BY <1>6, <1>8, <1>11, <1>12, <1>13, <1>15
<1>17. /\ Execute(m, Execute(op, row)) = Execute(op, row)
       /\ m.type = "UPDATE" => Execute(op, row) # Absent
       /\ \A x \in Row : Execute(e, x) = row => Execute(m, x) = Execute(op, row)
  BY <1>6, <1>7, <1>14, <1>16, MergeExecutes
<1>18. ASSUME NEW l \in c .. (p + 1) PROVE Execute(m, f[l]) = f[p + 1]
  <2>1. CASE l = p + 1
    BY <1>11, <1>15, <1>17, <2>1
  <2>2. CASE l # p + 1
    <3>1. l \in c .. p
      BY <2>2
    <3>2. f[l] \in Row /\ Execute(e, f[l]) = row
      BY <1>10, <1>13, <1>15, <3>1
    <3>3. QED
      BY <1>11, <1>15, <1>17, <3>2
  <2>3. QED
    BY <2>1, <2>2
<1>19. m.type = "UPDATE" => f[p + 1] # Absent
  BY <1>11, <1>15, <1>17
<1>20. entries'[k] = m
  BY <1>6, <1>12, <1>14
<1>21. \A l \in c .. (p + 1) : l \in 0 .. Len(chain) /\ f[l] = After(chain)[l][k]
  <2>1. \A l \in c .. (p + 1) : l \in 0 .. Len(chain)
    BY <1>6, <1>3
  <2>2. QED
    BY <1>10, <2>1
<1>22. p + 1 \in c .. (p + 1)
  BY <1>3
<1>23. QED
  BY <1>1, <1>2, <1>6, <1>18, <1>19, <1>20, <1>21, <1>22 DEF Merged

\* An empty buffer leads from the cursor to the cursor.
LEMMA MergedEmpty ==
    ASSUME Typed', reorgs' = 0, entries' = NoEntries, pos' = cursor', NEW k \in Key
    PROVE  Merged(k)'
<1>1. PICK c \in Nat : c = Len(cursor') /\ c = Len(pos')
  BY PathLength DEF Typed
<1>2. entries'[k].type = "NONE"
  BY DEF NoEntries, NoEntry
<1>3. ASSUME NEW l \in c .. c
      PROVE  Execute(entries'[k], After(chain')[l][k]) = After(chain')[c][k]
  <2>1. l = c
    OBVIOUS
  <2>2. QED
    BY <1>2, <2>1 DEF Execute
<1>4. QED
  BY <1>1, <1>2, <1>3 DEF Merged

\* More blocks on the chain change nothing below.
LEMMA FaultsExtend ==
    ASSUME Typed, FaultsPlace, NEW b \in Block, NEW h \in 0 .. MaxBlocks, Extend(b, h)
    PROVE  FaultsPlace'
<1>1. /\ Len(chain) \in Nat /\ Len(pos) \in Nat /\ Len(cursor) \in Nat /\ ahead \in Nat
      /\ chain \in Path /\ pos \in Path /\ cursor \in Path
  BY PathLength DEF Typed
<1>2. /\ chain' \in Path /\ Len(chain') = Len(chain) + 1 /\ Agree(chain, chain', Len(chain))
  BY <1>1, PathAppend DEF Extend
<1>3. UNCHANGED <<phase, pos, cursor, rows, todo, entries, ahead, reorgs, faults>>
  BY DEF Extend, bufferVars, processVars, dbVars
<1>4. \A n \in 0 .. Len(chain) : After(chain')[n] = After(chain)[n]
  BY <1>1, <1>2, AfterAgree
<1>5. ASSUME NEW p \in Path, Agree(p, chain, Len(p)) PROVE Agree(p, chain', Len(p))
  <2>1. Len(p) \in Nat /\ Len(p) <= Len(chain)
    BY <1>5, PathLength DEF Agree
  <2>2. Agree(chain, chain', Len(p))
    BY <1>1, <1>2, <2>1, AgreeLess
  <2>3. QED
    BY <1>5, <2>2, AgreeTrans
<1> SUFFICES ASSUME reorgs = 0 PROVE FaultsPlace'
  BY <1>3 DEF FaultsPlace
<1>6. ASSUME NEW k \in Key, NEW m \in Nat, NEW n \in Nat, n <= Len(chain), AtLevel(k, m, n)
      PROVE  AtLevel(k, m, n)'
  <2>1. PICK l \in m .. n : rows[k] = After(chain)[l][k]
    BY <1>6 DEF AtLevel
  <2>2. l \in 0 .. Len(chain)
    BY <1>1, <1>6
  <2>3. rows'[k] = After(chain')[l][k]
    BY <1>3, <1>4, <2>1, <2>2
  <2>4. QED
    BY <2>3 DEF AtLevel
<1>7. ASSUME NEW k \in Key, Len(cursor) <= Len(pos), Len(pos) <= Len(chain), Merged(k)
      PROVE  Merged(k)'
  <2>1. \A l \in Len(cursor) .. Len(pos) : l \in 0 .. Len(chain)
    BY <1>1, <1>7
  <2>2. Len(pos) \in 0 .. Len(chain)
    BY <1>1, <1>7
  <2>3. QED
    BY <1>3, <1>4, <1>7, <2>1, <2>2 DEF Merged
<1>8. phase # "down" => Len(pos) <= Len(chain)
  BY DEF FaultsPlace, Agree
<1>9. Agree(cursor, chain', Len(cursor)) /\ ahead <= Len(chain')
  BY <1>1, <1>2, <1>5 DEF FaultsPlace
<1>10. PICK c \in Nat, p \in Nat, n \in Nat : /\ c = Len(cursor) /\ c = Len(cursor')
                                              /\ p = Len(pos) /\ p = Len(pos')
                                              /\ n = ahead /\ n = ahead'
  BY <1>1, <1>3
<1>11. n <= Len(chain)
  BY <1>10 DEF FaultsPlace
<1>12. ASSUME NEW k \in Key PROVE AtLevel(k, c, n)'
  BY <1>6, <1>10, <1>11 DEF FaultsPlace
<1>13. ASSUME phase # "down"
       PROVE  Agree(pos, chain', Len(pos)) /\ \A k \in Key : Merged(k)'
  BY <1>1, <1>5, <1>7, <1>8, <1>13 DEF FaultsPlace
<1>14. ASSUME phase \in {"flush", "pruned"}, NEW k \in Key \ todo PROVE AtLevel(k, p, n)'
  BY <1>6, <1>10, <1>11, <1>14 DEF FaultsPlace
<1>15. \A k \in Key : AtLevel(k, Len(cursor), ahead)'
  BY <1>10, <1>12 DEF AtLevel
<1>16. phase \in {"flush", "pruned"} => \A k \in Key \ todo : AtLevel(k, Len(pos), ahead)'
  BY <1>10, <1>14 DEF AtLevel
<1>17. QED
  BY <1>3, <1>9, <1>13, <1>15, <1>16 DEF FaultsPlace

\* A block that is flushed or held.
LEMMA FaultsHandle ==
    ASSUME Typed, PathsPlace, FaultsPlace, Typed', NEW flush \in BOOLEAN, HandleBlock(flush)
    PROVE  FaultsPlace'
<1>1. /\ Len(chain) \in Nat /\ Len(pos) \in Nat /\ Len(cursor) \in Nat /\ ahead \in Nat
      /\ chain \in Path /\ pos \in Path /\ cursor \in Path
  BY PathLength DEF Typed
<1>2. /\ UNCHANGED <<chain, cursor, rows, faults, reorgs>> /\ phase = "idle"
      /\ phase' = IF flush THEN "flush" ELSE "idle"
      /\ flush => todo' = Touched(entries')
      /\ ahead' = IF flush /\ Len(pos) + 1 > ahead THEN Len(pos) + 1 ELSE ahead
  BY DEF HandleBlock, dbVars
<1>3. /\ Len(pos') = Len(pos) + 1 /\ Agree(pos', chain, Len(pos')) /\ Len(pos') <= Len(chain)
  BY HandleTyped
<1> SUFFICES ASSUME reorgs = 0 PROVE FaultsPlace'
  BY <1>2 DEF FaultsPlace
<1>4. \A k \in Key : Merged(k)'
  BY MergedNext
<1>5. /\ Len(cursor) <= Len(pos') /\ Len(cursor) <= ahead' /\ ahead' <= Len(chain)
      /\ ahead <= ahead' /\ (flush => Len(pos') <= ahead')
  BY <1>1, <1>2, <1>3 DEF FaultsPlace
<1>6. \A k \in Key : AtLevel(k, Len(cursor), ahead)'
  <2>1. Len(cursor) .. ahead \subseteq Len(cursor) .. ahead'
    BY <1>1, <1>2, <1>5
  <2>2. ASSUME NEW k \in Key PROVE AtLevel(k, Len(cursor), ahead)'
    <3>1. PICK l \in Len(cursor) .. ahead : rows[k] = After(chain)[l][k]
      BY DEF FaultsPlace, AtLevel
    <3>2. QED
      BY <1>2, <2>1, <3>1 DEF AtLevel
  <2>3. QED
    BY <2>2
<1>7. ASSUME flush, NEW k \in Key \ todo' PROVE AtLevel(k, Len(pos), ahead)'
  <2>1. entries'[k].type = "NONE"
    BY <1>2, <1>7 DEF Touched
  <2>2. PICK l \in Len(cursor) .. ahead' : rows[k] = After(chain)[l][k]
    BY <1>2, <1>6 DEF AtLevel
  <2>3. ahead' \in Nat /\ l \in Nat /\ l <= ahead'
    BY <1>1, <1>2, <2>2
  <2>4. CASE l <= Len(pos')
    <3>1. l \in Len(cursor') .. Len(pos')
      BY <1>1, <1>2, <1>3, <2>2, <2>4
    <3>2. Execute(entries'[k], After(chain')[l][k]) = After(chain')[Len(pos')][k]
      BY <1>4, <3>1 DEF Merged
    <3>3. rows'[k] = After(chain')[Len(pos')][k]
      BY <1>2, <2>1, <2>2, <3>2 DEF Execute
    <3>4. Len(pos') \in Len(pos') .. ahead'
      BY <1>1, <1>3, <1>5, <1>7, <2>3
    <3>5. QED
      BY <3>3, <3>4 DEF AtLevel
  <2>5. CASE ~ (l <= Len(pos'))
    <3>1. l \in Len(pos') .. ahead'
      BY <1>1, <1>3, <2>3, <2>5
    <3>2. QED
      BY <1>2, <2>2, <3>1 DEF AtLevel
  <2>6. QED
    BY <2>4, <2>5
<1>8. faults = 0 => ahead' = IF flush THEN Len(pos') ELSE Len(cursor)
  BY <1>1, <1>2, <1>3 DEF FaultsPlace
<1>9. QED
  BY <1>2, <1>3, <1>4, <1>5, <1>6, <1>7, <1>8 DEF FaultsPlace

\* A statement brings its row to the end of the batch or leaves it beyond.
LEMMA FaultsExec ==
    ASSUME Typed, PathsPlace, FaultsPlace, NEW k \in Key, ExecStatement(k)
    PROVE  FaultsPlace'
<1>1. /\ UNCHANGED <<chain, phase, pos, cursor, entries, ahead, faults, reorgs>>
      /\ phase = "flush" /\ todo' = todo \ {k}
      /\ rows' = [rows EXCEPT ![k] = Execute(entries[k], rows[k])]
  BY DEF ExecStatement, bufferVars
<1> SUFFICES ASSUME reorgs = 0 PROVE FaultsPlace'
  BY <1>1 DEF FaultsPlace
<1>2. /\ rows \in [Key -> Row] /\ Len(cursor) \in Nat /\ Len(pos) \in Nat /\ ahead \in Nat
      /\ Len(cursor) <= Len(pos) /\ Len(pos) <= ahead
  BY <1>1, PathLength DEF Typed, FaultsPlace
<1>3. AtLevel(k, Len(pos), ahead)'
  BY <1>1, <1>2, StatementLevel DEF AtLevel
<1>4. \A j \in Key : j # k => rows'[j] = rows[j]
  BY <1>1, <1>2
<1>5. ASSUME NEW j \in Key PROVE AtLevel(j, Len(cursor), ahead)'
  <2>1. CASE j = k
    <3>1. Len(pos) .. ahead \subseteq Len(cursor) .. ahead
      BY <1>2
    <3>2. QED
      BY <1>1, <1>3, <2>1, <3>1 DEF AtLevel
  <2>2. CASE j # k
    BY <1>1, <1>4, <2>2 DEF AtLevel, FaultsPlace
  <2>3. QED
    BY <2>1, <2>2
<1>6. ASSUME NEW j \in Key \ todo' PROVE AtLevel(j, Len(pos), ahead)'
  <2>1. CASE j = k
    BY <1>3, <2>1
  <2>2. CASE j # k
    BY <1>1, <1>4, <2>2 DEF AtLevel, FaultsPlace
  <2>3. QED
    BY <2>1, <2>2
<1>7. \A j \in Key : Merged(j)' <=> Merged(j)
  BY <1>1 DEF Merged
<1>8. QED
  BY <1>1, <1>5, <1>6, <1>7 DEF FaultsPlace

\* When the cursor is stored every row is at the end of the batch or beyond.
LEMMA FaultsFlushEnds ==
    ASSUME Typed, FaultsPlace, FlushEnds, Typed'
    PROVE  FaultsPlace'
<1>1. /\ UNCHANGED <<chain, rows, pos, ahead, faults, reorgs>> /\ phase = "pruned" /\ todo = {}
      /\ phase' = "idle" /\ cursor' = pos /\ entries' = NoEntries
  BY DEF FlushEnds, Typed
<1> SUFFICES ASSUME reorgs = 0 PROVE FaultsPlace'
  BY <1>1 DEF FaultsPlace
<1>2. \A k \in Key : Merged(k)'
  BY <1>1, MergedEmpty
<1>3. \A k \in Key : AtLevel(k, Len(cursor), ahead)'
  BY <1>1 DEF FaultsPlace, AtLevel
<1>4. Len(pos) \in Nat
  BY PathLength DEF Typed
<1>5. QED
  BY <1>1, <1>2, <1>3, <1>4 DEF FaultsPlace

\* A failed attempt starts again with every operation of the buffer.
LEMMA FaultsFail ==
    ASSUME Typed, PathsPlace, FaultsPlace, StatementFails
    PROVE  FaultsPlace'
<1>1. /\ UNCHANGED <<chain, rows, pos, cursor, entries, ahead, reorgs>>
      /\ phase \in {"flush", "pruned"}
      /\ \/ phase' = "flush" /\ todo' = Touched(entries)
         \/ phase' = "down"
      /\ faults' # 0
  BY DEF StatementFails, bufferVars, dbVars, Typed
<1> SUFFICES ASSUME reorgs = 0 PROVE FaultsPlace'
  BY <1>1 DEF FaultsPlace
<1>2. ASSUME NEW k \in Key \ Touched(entries) PROVE AtLevel(k, Len(pos), ahead)'
  <2>1. AtLevel(k, Len(pos), ahead)
    BY <1>1, UntouchedLevel DEF FaultsPlace
  <2>2. QED
    BY <1>1, <2>1 DEF AtLevel
<1>3. \A k \in Key : /\ Merged(k)' <=> Merged(k)
                     /\ AtLevel(k, Len(cursor), ahead)' <=> AtLevel(k, Len(cursor), ahead)
  BY <1>1 DEF Merged, AtLevel
<1>4. QED
  BY <1>1, <1>2, <1>3 DEF FaultsPlace

\* Every step keeps the rows between the cursor and the last flush, whatever fails.
LEMMA FaultsNext ==
    ASSUME Typed, PathsPlace, FaultsPlace, Next, Typed'
    PROVE  FaultsPlace'
<1>1. /\ Len(chain) \in Nat /\ Len(pos) \in Nat /\ Len(cursor) \in Nat
      /\ chain \in Path /\ pos \in Path /\ cursor \in Path
  BY PathLength DEF Typed
<1>2. ASSUME NEW n \in 0 .. MaxBlocks, Reorg(n) PROVE FaultsPlace'
  <2>1. reorgs' # 0
    BY <1>2 DEF Reorg, Typed
  <2>2. QED
    BY <2>1 DEF FaultsPlace
<1>3. ASSUME UNCHANGED <<chain, rows, cursor, ahead, reorgs>>, phase' = "down",
             faults' = 0 => faults = 0 /\ phase \notin {"flush", "pruned"}
      PROVE  FaultsPlace'
  <2>2. \A k \in Key : AtLevel(k, Len(cursor), ahead)' <=> AtLevel(k, Len(cursor), ahead)
    BY <1>3 DEF AtLevel
  <2>3. QED
    BY <1>3, <2>2 DEF FaultsPlace
<1>4. ASSUME UNCHANGED <<chain, rows, cursor, pos, entries, todo, ahead, reorgs, faults>>,
             \/ phase' = phase
             \/ phase = "flush" /\ phase' = "pruned"
      PROVE  FaultsPlace'
  <2>1. \A k \in Key : /\ AtLevel(k, Len(cursor), ahead)' <=> AtLevel(k, Len(cursor), ahead)
                       /\ AtLevel(k, Len(pos), ahead)' <=> AtLevel(k, Len(pos), ahead)
                       /\ Merged(k)' <=> Merged(k)
    BY <1>4 DEF AtLevel, Merged
  <2>2. QED
    BY <1>4, <2>1 DEF FaultsPlace
<1>5. ASSUME Undo PROVE FaultsPlace'
  <2>1. reorgs = 0 => IsPrefix(pos, chain)
    BY <1>1, <1>5, PrefixAgrees DEF Undo, FaultsPlace
  <2>2. reorgs' = reorgs /\ ~ IsPrefix(pos, chain)
    BY <1>5 DEF Undo
  <2>3. QED
    BY <2>1, <2>2 DEF FaultsPlace
<1>6. ASSUME phase \in {"revert", "reverted"}, reorgs' = reorgs PROVE FaultsPlace'
  BY <1>6 DEF FaultsPlace
<1>7. ASSUME NEW r \in pending, RevertRow(r) PROVE FaultsPlace'
  BY <1>6, <1>7 DEF RevertRow
<1>8. ASSUME PruneReverted PROVE FaultsPlace'
  BY <1>6, <1>8 DEF PruneReverted
<1>9. ASSUME RevertEnds PROVE FaultsPlace'
  BY <1>6, <1>9 DEF RevertEnds
<1>10. ASSUME Crash PROVE FaultsPlace'
  BY <1>3, <1>10 DEF Crash, Typed, bufferVars, dbVars
<1>11. ASSUME RejectBlock PROVE FaultsPlace'
  BY <1>3, <1>11 DEF RejectBlock, bufferVars, dbVars
<1>12. ASSUME Restart PROVE FaultsPlace'
  <2>1. /\ UNCHANGED <<chain, rows, cursor, ahead, reorgs, faults>> /\ pos' = cursor
        /\ entries' = NoEntries /\ phase = "down" /\ phase' = "idle" /\ cursor' = cursor
    BY <1>12 DEF Restart, dbVars
  <2>2. reorgs = 0 => \A k \in Key : Merged(k)'
    BY <2>1, MergedEmpty
  <2>3. \A k \in Key : AtLevel(k, Len(cursor), ahead)' <=> AtLevel(k, Len(cursor), ahead)
    BY <2>1 DEF AtLevel
  <2>4. QED
    BY <1>1, <2>1, <2>2, <2>3 DEF FaultsPlace
<1>13. ASSUME NEW k \in Key, SaveRow(k) PROVE FaultsPlace'
  BY <1>4, <1>13 DEF SaveRow, bufferVars
<1>14. ASSUME Prune PROVE FaultsPlace'
  BY <1>4, <1>14 DEF Prune, bufferVars
<1>15. ASSUME Waiting PROVE FaultsPlace'
  BY <1>4, <1>15 DEF Waiting, vars, bufferVars, processVars, dbVars
<1>16. QED
  BY <1>2, <1>5, <1>7, <1>8, <1>9, <1>10, <1>11, <1>12, <1>13, <1>14, <1>15,
     FaultsExtend, FaultsHandle, FaultsExec, FaultsFlushEnds, FaultsFail DEF Next

-----------------------------------------------------------------------------
(* Reorganisations alone.                                                  *)

\* Two paths that agree save the same history.
LEMMA SavedAgree ==
    ASSUME NEW p \in Path, NEW s \in Path, NEW n \in Nat, Agree(p, s, n),
           NEW i \in 1 .. n, NEW k \in Key
    PROVE  Saved(p, i, k) = Saved(s, i, k)
<1>1. p[i] = s[i] /\ i - 1 \in 0 .. n
  BY DEF Agree
<1>2. After(p)[i - 1] = After(s)[i - 1]
  BY <1>1, AfterAgree
<1>3. QED
  BY <1>1, <1>2 DEF Saved

\* What a block does to a row, and what it saves.
LEMMA SavedBlock ==
    ASSUME NEW p \in Path, NEW i \in 1 .. Len(p), NEW k \in Key
    PROVE  /\ p[i][k] \in Op /\ After(p)[i - 1][k] \in Row
           /\ After(p)[i][k] = Execute(p[i][k], After(p)[i - 1][k])
           /\ Saved(p, i, k) = {} => After(p)[i][k] = After(p)[i - 1][k]
           /\ \A r \in Saved(p, i, k) : LegalPath(p) =>
                RevertOp(r, After(p)[i][k]) = After(p)[i - 1][k]
<1>1. i \in Nat /\ i - 1 \in 0 .. Len(p) /\ p[i] \in Block
  BY PathLength, ElementOfSeq DEF Path
<1>2. p[i][k] \in Op
  BY <1>1 DEF Block
<1>3. After(p)[i - 1][k] \in Row
  BY <1>1, AfterType
<1>4. After(p)[i][k] = Execute(p[i][k], After(p)[i - 1][k])
  BY AfterUnfolds
<1>5. ASSUME Saved(p, i, k) = {} PROVE After(p)[i][k] = After(p)[i - 1][k]
  BY <1>1, <1>2, <1>3, <1>4, <1>5, NothingSaved DEF Saved
<1>6. ASSUME NEW r \in Saved(p, i, k), LegalPath(p)
      PROVE  RevertOp(r, After(p)[i][k]) = After(p)[i - 1][k]
  <2>1. p[i][k].type = "INSERT" => After(p)[i - 1][k] = Absent
    BY <1>6 DEF LegalPath, OpFits
  <2>2. r \in SaveHistory(p[i][k], k, i, After(p)[i - 1][k])
    BY <1>6 DEF Saved
  <2>3. QED
    BY <1>1, <1>2, <1>3, <1>4, <2>1, <2>2, RevertUndoes
<1>7. QED
  BY <1>2, <1>3, <1>4, <1>5, <1>6

\* Blocks that saved nothing for a row did not change it.
LEMMA NothingSavedBetween ==
    ASSUME NEW p \in Path, NEW k \in Key, NEW m \in Nat, NEW n \in Nat, m <= n, n <= Len(p),
           \A i \in (m + 1) .. n : Saved(p, i, k) = {}
    PROVE  After(p)[n][k] = After(p)[m][k]
<1> DEFINE Fails == {d \in Nat : d <= n - m /\ After(p)[m + d][k] # After(p)[m][k]}
<1>1. Len(p) \in Nat
  BY PathLength
<1>2. ASSUME Fails # {} PROVE FALSE
  <2>1. PICK d \in Fails : \A y \in Fails : d <= y
    BY <1>2, LeastNumber
  <2>2. d \in Nat /\ d <= n - m /\ After(p)[m + d][k] # After(p)[m][k]
    BY <2>1
  <2>3. d # 0
    BY <2>2
  <2>4. d - 1 \in Nat /\ d - 1 <= n - m /\ ~ (d <= d - 1)
    BY <2>2, <2>3
  <2>5. After(p)[m + (d - 1)][k] = After(p)[m][k]
    BY <2>1, <2>4
  <2>6. m + d \in (m + 1) .. n /\ m + d \in 1 .. Len(p) /\ (m + d) - 1 = m + (d - 1)
    BY <1>1, <2>2, <2>3
  <2>7. After(p)[m + d][k] = After(p)[m + (d - 1)][k]
    BY <2>6, SavedBlock
  <2>8. QED
    BY <2>2, <2>5, <2>7
<1>3. n - m \in Nat /\ n - m <= n - m /\ m + (n - m) = n
  OBVIOUS
<1>4. n - m \notin Fails
  BY <1>2
<1>5. QED
  BY <1>3, <1>4

\* There is neither a row nor a history at first.
LEMMA ReorgInit == ASSUME Init PROVE ReorgPlace
<1>1. <<>> \in Path /\ Len(<<>>) = 0
  BY EmptySeq DEF Path
<1>2. After(<<>>)[0] = NoRows
  BY <1>1, AfterUnfolds
<1>3. HistoryPlace
  BY <1>1 DEF Init, HistoryPlace, HistoryPath
<1>4. QED
  BY <1>1, <1>2, <1>3 DEF Init, ReorgPlace

\* A block: only the statements of the rows it touches are to be executed.
LEMMA ReorgHandle ==
    ASSUME Typed, PathsPlace, ReorgPlace, NEW flush \in BOOLEAN, HandleBlock(flush)
    PROVE  ReorgPlace'
<1> SUFFICES ASSUME faults' = 0, ~ held' PROVE ReorgPlace'
  BY DEF ReorgPlace
<1>1. /\ UNCHANGED <<rows, history, cursor, faults>> /\ phase = "idle" /\ pos = cursor
      /\ phase' = "flush" /\ final' = lib /\ logged' = {} /\ ~ held
      /\ todo' = Touched(entries')
  BY DEF HandleBlock, PathsPlace, dbVars, Typed
<1>2. rows = After(pos)[Len(pos)] /\ HistoryPlace /\ entries = NoEntries
  BY <1>1 DEF ReorgPlace
<1>3. PICK p \in Path : p = pos
  BY DEF Typed
<1>4. Len(p) \in Nat /\ lib \in Nat /\ final \in Nat /\ final <= lib
  BY PathLength DEF Typed
<1>5. PICK q : q = pos'
  OBVIOUS
<1>6. /\ q \in Path /\ Len(q) = Len(p) + 1 /\ Agree(p, q, Len(p))
      /\ q[Len(q)] \in Block /\ todo' = Touched(q[Len(q)])
      /\ \A k \in Key : Buffered(k)'
  <2>1. /\ q \in Path /\ Len(q) = Len(p) + 1 /\ Agree(p, q, Len(p))
        /\ q[Len(q)] = chain[Len(q)] /\ chain[Len(q)] \in Block
        /\ \A k \in Key : entries'[k] = Merge(entries[k], chain[Len(q)][k],
                                             IF Len(q) > lib THEN Len(q) ELSE 0)
    BY <1>3, <1>5, HandleTyped
  <2>2. PICK rev : rev = IF Len(q) > lib THEN Len(q) ELSE 0
    OBVIOUS
  <2>3. ASSUME NEW k \in Key
        PROVE  /\ entries'[k].type = q[Len(q)][k].type /\ entries'[k].val = q[Len(q)][k].val
               /\ q[Len(q)][k].type # "NONE" => entries'[k].rev = rev
    <3>1. PICK op \in Op : op = q[Len(q)][k]
      BY <2>1 DEF Block
    <3>2. entries'[k] = Merge(NoEntry, op, rev)
      BY <1>2, <2>1, <2>2, <3>1 DEF NoEntries
    <3>3. op.type = "NONE" => op.val = Absent
      BY OpParts
    <3>4. /\ op.type = "NONE" => Merge(NoEntry, op, rev) = NoEntry
          /\ op.type # "NONE" => Merge(NoEntry, op, rev)
                                   = [type |-> op.type, val |-> op.val, rev |-> rev]
      BY DEF Merge, NoEntry
    <3>5. QED
      BY <3>1, <3>2, <3>3, <3>4 DEF NoEntry
  <2>4. Touched(entries') = Touched(q[Len(q)])
    BY <2>3 DEF Touched
  <2>5. \A k \in Key : Buffered(k)'
    BY <1>1, <1>5, <2>2, <2>3 DEF Buffered
  <2>6. QED
    BY <1>1, <2>1, <2>4, <2>5
<1>7. \A i \in 1 .. Len(p) : \A k \in Key : Saved(p, i, k) = Saved(q, i, k)
  BY <1>4, <1>6, SavedAgree
<1>8. After(p)[Len(p)] = After(q)[Len(p)]
  BY <1>4, <1>6, AfterAgree
<1>9. Len(q) \in 1 .. Len(q) /\ Len(q) - 1 = Len(p)
  BY <1>4, <1>6
<1>10. ASSUME NEW k \in Key, k \notin todo'
       PROVE  After(q)[Len(q)][k] = After(q)[Len(p)][k] /\ Saved(q, Len(q), k) = {}
  <2>1. After(q)[Len(p)][k] \in Row
        /\ After(q)[Len(q)][k] = Execute(q[Len(q)][k], After(q)[Len(p)][k])
    BY <1>6, <1>9, SavedBlock
  <2>2. PICK b, row : b = q[Len(q)] /\ row = After(q)[Len(p)][k]
    OBVIOUS
  <2>3. b \in Block /\ k \notin Touched(b) /\ row \in Row
    BY <1>6, <1>10, <2>1, <2>2
  <2>4. Execute(b[k], row) = row /\ SaveHistory(b[k], k, Len(q), row) = {}
    BY <1>9, <2>3, UntouchedRow
  <2>5. QED
    BY <1>9, <2>1, <2>2, <2>4 DEF Saved
<1>11. \A k \in Key : rows'[k] = After(q)[IF k \in todo' THEN Len(cursor)' ELSE Len(q)][k]
  <2>1. rows' = After(p)[Len(p)] /\ Len(cursor)' = Len(p)
    BY <1>1, <1>2, <1>3
  <2>2. ASSUME NEW k \in Key
        PROVE  rows'[k] = After(q)[Len(p)][k]
    BY <1>8, <2>1
  <2>3. QED
    BY <1>10, <2>1, <2>2
<1>12. ASSUME NEW r \in history'
       PROVE  /\ r.block \in 1 .. Len(q) /\ r.block # Len(q)
              /\ r \in Saved(q, r.block, r.key)
  <2>1. r.block \in 1 .. Len(p) /\ r \in Saved(p, r.block, r.key)
    BY <1>1, <1>2, <1>3 DEF HistoryPlace, HistoryPath
  <2>2. r.key \in Key
    BY <1>1 DEF Typed, HistoryRow
  <2>3. QED
    BY <1>4, <1>6, <1>7, <2>1, <2>2
<1>13. ASSUME NEW i \in (lib + 1) .. Len(q), NEW k \in Key, ~ (i = Len(q) /\ k \in todo')
       PROVE  Saved(q, i, k) \subseteq history'
  <2>1. CASE i = Len(q)
    BY <1>10, <1>13, <2>1
  <2>2. CASE i # Len(q)
    <3>1. i \in 1 .. Len(p) /\ i \in (final + 1) .. Len(p)
      BY <1>4, <1>6, <2>2
    <3>2. Saved(p, i, k) \subseteq history
      BY <1>1, <1>2, <1>3, <3>1 DEF HistoryPlace, HistoryPath, Unsaved
    <3>3. QED
      BY <1>1, <1>7, <3>1, <3>2
  <2>3. QED
    BY <2>1, <2>2
<1>14. HistoryPath' = q
  BY <1>1, <1>5 DEF HistoryPath
<1>15. HistoryPlace'
  BY <1>1, <1>5, <1>12, <1>13, <1>14 DEF HistoryPlace, Unsaved
<1>16. QED
  BY <1>1, <1>5, <1>6, <1>11, <1>15 DEF ReorgPlace

\* A history row is what its block saves, as long as no statement is executed twice.
LEMMA ReorgSave ==
    ASSUME Typed, PathsPlace, ReorgPlace, NEW k \in Key, SaveRow(k)
    PROVE  ReorgPlace'
<1> SUFFICES ASSUME faults' = 0, ~ held' PROVE ReorgPlace'
  BY DEF ReorgPlace
<1>1. /\ UNCHANGED <<phase, pos, final, cursor, rows, todo, entries, faults>> /\ phase = "flush"
      /\ k \in todo /\ logged' = {k} /\ logged = {} /\ todo \subseteq Key /\ ~ held
      /\ entries[k].rev # 0
      /\ history' = history \union SaveHistory(entries[k], k, entries[k].rev, rows[k])
  BY DEF SaveRow, Typed, bufferVars
<1>2. /\ HistoryPlace
      /\ \A j \in Key : rows[j] = After(pos)[IF j \in todo THEN Len(cursor) ELSE Len(pos)][j]
      /\ \A j \in Key : Buffered(j)
  BY <1>1 DEF ReorgPlace
<1>3. /\ pos \in Path /\ Len(cursor) \in Nat /\ Len(pos) = Len(cursor) + 1
      /\ Len(pos) <= MaxBlocks /\ rows \in [Key -> Row] /\ final \in Nat
  BY <1>1, PathLength DEF Typed, PathsPlace
<1>4. /\ Len(pos) \in 1 .. Len(pos) /\ Len(pos) - 1 = Len(cursor)
      /\ Len(pos) \in 1 .. MaxBlocks
  BY <1>3, RisingwaveAssumption
<1>5. rows[k] = After(pos)[Len(cursor)][k]
  BY <1>1, <1>2
<1>6. pos[Len(pos)][k] \in Op /\ rows[k] \in Row
  BY <1>3, <1>4, <1>5, SavedBlock
<1>7. PICK new : new = SaveHistory(entries[k], k, entries[k].rev, rows[k])
  OBVIOUS
<1>8. new = Saved(pos, Len(pos), k)
  <2>1. SaveHistory(entries[k], k, entries[k].rev, rows[k])
          = SaveHistory(pos[Len(pos)][k], k, entries[k].rev, rows[k])
    BY <1>2 DEF Buffered, SaveHistory
  <2>2. CASE pos[Len(pos)][k].type = "NONE"
    <3>1. SaveHistory(pos[Len(pos)][k], k, entries[k].rev, rows[k])
            = SaveHistory(pos[Len(pos)][k], k, Len(pos), rows[k])
      BY <2>2 DEF SaveHistory
    <3>2. QED
      BY <1>4, <1>5, <1>7, <2>1, <3>1 DEF Saved
  <2>3. CASE pos[Len(pos)][k].type # "NONE"
    <3>1. entries[k].rev = Len(pos)
      BY <1>1, <1>2, <2>3 DEF Buffered
    <3>2. QED
      BY <1>4, <1>5, <1>7, <2>1, <3>1 DEF Saved
  <2>4. QED
    BY <2>2, <2>3
<1>9. HistoryPath = pos /\ HistoryPath' = pos
  BY <1>1 DEF HistoryPath
<1>10. ASSUME NEW r \in history'
       PROVE  /\ r.block \in 1 .. Len(pos) /\ ~ (r.block = Len(pos) /\ r.key \in todo \ {k})
              /\ r \in Saved(pos, r.block, r.key)
  <2>1. CASE r \in history
    BY <1>1, <1>2, <1>9, <2>1 DEF HistoryPlace, Unsaved
  <2>2. CASE r \in new
    <3>1. r \in SaveHistory(pos[Len(pos)][k], k, Len(pos), rows[k])
      BY <1>4, <1>5, <1>8, <2>2 DEF Saved
    <3>2. r.block = Len(pos) /\ r.key = k
      BY <1>4, <1>6, <3>1, OpParts, SavedShape
    <3>3. QED
      BY <1>4, <1>8, <2>2, <3>2
  <2>3. QED
    BY <1>1, <1>7, <2>1, <2>2
<1>11. ASSUME NEW i \in (final + 1) .. Len(pos), NEW j \in Key,
              ~ (i = Len(pos) /\ j \in todo \ {k})
       PROVE  Saved(pos, i, j) \subseteq history'
  <2>1. CASE i = Len(pos) /\ j = k
    BY <1>1, <1>7, <1>8, <2>1
  <2>2. CASE ~ (i = Len(pos) /\ j = k)
    <3>1. ~ Unsaved(i, j)
      BY <1>1, <1>11, <2>2 DEF Unsaved
    <3>2. Saved(pos, i, j) \subseteq history
      BY <1>2, <1>9, <3>1 DEF HistoryPlace
    <3>3. QED
      BY <1>1, <3>2
  <2>3. QED
    BY <2>1, <2>2
<1>12. HistoryPlace'
  BY <1>1, <1>9, <1>10, <1>11 DEF HistoryPlace, Unsaved
<1>13. \A j \in Key : Buffered(j)'
  BY <1>1, <1>2 DEF Buffered
<1>14. QED
  BY <1>1, <1>2, <1>12, <1>13 DEF ReorgPlace

\* The statement on a row whose history row, if there is one, has been inserted.
LEMMA ReorgExec ==
    ASSUME Typed, PathsPlace, ReorgPlace, NEW k \in Key, ExecStatement(k)
    PROVE  ReorgPlace'
<1> SUFFICES ASSUME faults' = 0, ~ held' PROVE ReorgPlace'
  BY DEF ReorgPlace
<1>1. /\ UNCHANGED <<phase, pos, final, cursor, history, entries, faults>> /\ phase = "flush"
      /\ k \in todo /\ todo' = todo \ {k} /\ logged' = {} /\ todo \subseteq Key /\ ~ held
      /\ logged = IF entries[k].rev # 0 THEN {k} ELSE {}
      /\ rows' = [rows EXCEPT ![k] = Execute(entries[k], rows[k])]
  BY DEF ExecStatement, Typed, bufferVars
<1>2. /\ HistoryPlace
      /\ \A j \in Key : rows[j] = After(pos)[IF j \in todo THEN Len(cursor) ELSE Len(pos)][j]
      /\ \A j \in Key : Buffered(j)
  BY <1>1 DEF ReorgPlace
<1>3. /\ pos \in Path /\ Len(cursor) \in Nat /\ Len(pos) = Len(cursor) + 1
      /\ Len(pos) <= MaxBlocks /\ rows \in [Key -> Row] /\ final \in Nat
  BY <1>1, PathLength DEF Typed, PathsPlace
<1>4. /\ Len(pos) \in 1 .. Len(pos) /\ Len(pos) - 1 = Len(cursor)
      /\ Len(pos) \in 1 .. MaxBlocks
  BY <1>3, RisingwaveAssumption
<1>5. rows[k] = After(pos)[Len(cursor)][k]
  BY <1>1, <1>2
<1>6. /\ pos[Len(pos)][k] \in Op /\ rows[k] \in Row
      /\ After(pos)[Len(pos)][k] = Execute(pos[Len(pos)][k], rows[k])
  BY <1>3, <1>4, <1>5, SavedBlock
<1>7. Execute(entries[k], rows[k]) = Execute(pos[Len(pos)][k], rows[k])
  BY <1>2 DEF Buffered, Execute
<1>8. \A j \in Key : rows'[j] = After(pos)[IF j \in todo' THEN Len(cursor) ELSE Len(pos)][j]
  BY <1>1, <1>2, <1>3, <1>6, <1>7
<1>9. HistoryPath = pos /\ HistoryPath' = pos
  BY <1>1 DEF HistoryPath
<1>10. entries[k].rev = 0 =>
          \A i \in (final + 1) .. Len(pos) : i = Len(pos) => Saved(pos, i, k) = {}
  <2>1. ASSUME entries[k].rev = 0, Len(pos) > final PROVE Saved(pos, Len(pos), k) = {}
    <3>1. pos[Len(pos)][k].type = "NONE"
      BY <1>2, <1>4, <2>1 DEF Buffered
    <3>2. QED
      BY <3>1 DEF Saved, SaveHistory
  <2>2. QED
    BY <1>3, <2>1
<1>11. ASSUME NEW r \in history
       PROVE  /\ r.block \in 1 .. Len(pos) /\ ~ (r.block = Len(pos) /\ r.key \in todo')
              /\ r \in Saved(pos, r.block, r.key)
  BY <1>1, <1>2, <1>9 DEF HistoryPlace, Unsaved
<1>12. ASSUME NEW i \in (final + 1) .. Len(pos), NEW j \in Key, ~ (i = Len(pos) /\ j \in todo')
       PROVE  Saved(pos, i, j) \subseteq history
  <2>1. CASE i = Len(pos) /\ j = k /\ entries[k].rev = 0
    BY <1>10, <2>1
  <2>2. CASE ~ (i = Len(pos) /\ j = k /\ entries[k].rev = 0)
    <3>1. ~ Unsaved(i, j)
      BY <1>1, <1>12, <2>2 DEF Unsaved
    <3>2. QED
      BY <1>2, <1>9, <3>1 DEF HistoryPlace
  <2>3. QED
    BY <2>1, <2>2
<1>13. HistoryPlace'
  BY <1>1, <1>9, <1>11, <1>12 DEF HistoryPlace, Unsaved
<1>14. \A j \in Key : Buffered(j)'
  BY <1>1, <1>2 DEF Buffered
<1>15. QED
  BY <1>1, <1>8, <1>13, <1>14 DEF ReorgPlace

\* A flush prunes the history of final blocks and no other.
LEMMA ReorgPruned ==
    ASSUME Typed, PathsPlace, ReorgPlace, Prune
    PROVE  ReorgPlace'
<1> SUFFICES ASSUME faults' = 0, ~ held' PROVE ReorgPlace'
  BY DEF ReorgPlace
<1>1. /\ UNCHANGED <<pos, final, todo, rows, faults>> /\ phase = "flush" /\ phase' = "pruned"
      /\ todo = {} /\ history' = {r \in history : r.block > final} /\ ~ held
  BY DEF Prune, bufferVars
<1>2. HistoryPlace /\ \A j \in Key : rows[j] = After(pos)[Len(pos)][j]
  BY <1>1 DEF ReorgPlace
<1>3. pos \in Path /\ rows \in [Key -> Row] /\ Len(pos) \in Nat /\ final \in Nat
  BY PathLength DEF Typed
<1>4. After(pos)[Len(pos)] \in [Key -> Row]
  BY <1>3, AfterType
<1>5. rows' = After(pos')[Len(pos')]
  BY <1>1, <1>2, <1>3, <1>4
<1>6. HistoryPath = pos /\ HistoryPath' = pos /\ \A i, k : ~ Unsaved(i, k) /\ ~ Unsaved(i, k)'
  BY <1>1 DEF HistoryPath, Unsaved
<1>7. ASSUME NEW i \in (final + 1) .. Len(pos), NEW k \in Key
      PROVE  Saved(pos, i, k) \subseteq history'
  <2>1. Saved(pos, i, k) \subseteq history
    BY <1>2, <1>6 DEF HistoryPlace
  <2>2. ASSUME NEW r \in Saved(pos, i, k) PROVE r.block > final
    <3>1. i \in 1 .. Len(pos) /\ i \in 1 .. MaxBlocks /\ i > final
      BY <1>3, RisingwaveAssumption DEF Typed
    <3>2. pos[i][k].type \in Types /\ After(pos)[i - 1][k] \in Row
      BY <1>3, <3>1, SavedBlock, OpParts
    <3>3. r.block = i
      BY <2>2, <3>1, <3>2, SavedShape DEF Saved
    <3>4. QED
      BY <3>1, <3>3
  <2>3. QED
    BY <1>1, <2>1, <2>2
<1>8. HistoryPlace'
  BY <1>1, <1>2, <1>6, <1>7 DEF HistoryPlace
<1>9. QED
  BY <1>1, <1>5, <1>8 DEF ReorgPlace

\* An undo signal: every row is at the last block the process was sent, and the
\* history rows of all the blocks above the common one are there to be reverted.
LEMMA ReorgUndo ==
    ASSUME Typed, PathsPlace, ReorgPlace, Undo, PathsPlace'
    PROVE  ReorgPlace'
<1> SUFFICES ASSUME faults' = 0, ~ held' PROVE ReorgPlace'
  BY DEF ReorgPlace
<1>1. /\ UNCHANGED <<todo, final, rows, history, cursor, faults, entries>> /\ phase = "idle"
      /\ phase' = "revert" /\ ~ held /\ pos = cursor
      /\ pos' = SubSeq(pos, 1, Common(pos, chain))
      /\ pending' = {r \in history : r.block > Common(pos, chain)}
  BY DEF Undo, PathsPlace, bufferVars, dbVars
<1>2. HistoryPlace /\ rows = After(cursor)[Len(cursor)] /\ entries = NoEntries
  BY <1>1 DEF ReorgPlace
<1>3. PICK n \in Nat : n = Common(pos, chain) /\ n <= Len(pos)
  BY CommonIsLongest DEF Agree, Typed
<1>4. /\ pos \in Path /\ cursor \in Path /\ Len(cursor) \in Nat /\ final \in Nat
      /\ history \subseteq HistoryRow /\ Len(cursor) <= MaxBlocks
  BY PathLength DEF Typed
<1>5. Len(pos') = n /\ pos' \in Path
  BY <1>1, <1>3, <1>4, PrefixOf
<1>6. final <= n
  BY <1>1, <1>5 DEF PathsPlace
<1>7. HistoryPath = cursor /\ HistoryPath' = cursor /\ \A i, k : ~ Unsaved(i, k) /\ ~ Unsaved(i, k)'
  BY <1>1 DEF HistoryPath, Unsaved
<1>8. HistoryPlace'
  BY <1>1, <1>2, <1>7 DEF HistoryPlace
<1>9. PICK level \in [Key -> n .. Len(cursor)] : \A k \in Key : level[k] = Len(cursor)
  <2>1. Len(cursor) \in n .. Len(cursor)
    BY <1>1, <1>3, <1>4
  <2>2. [k \in Key |-> Len(cursor)] \in [Key -> n .. Len(cursor)]
    BY <2>1
  <2>3. QED
    BY <2>2
<1>10. ASSUME NEW k \in Key
       PROVE  /\ rows[k] = After(cursor)[level[k]][k]
              /\ \A i \in (n + 1) .. Len(cursor) :
                   i <= level[k] => Saved(cursor, i, k) \subseteq pending'
              /\ \A r \in pending' : r.key = k =>
                   /\ r.block \in (n + 1) .. Len(cursor) /\ r.block <= level[k]
                   /\ r \in Saved(cursor, r.block, k)
  <2>1. level[k] = Len(cursor)
    BY <1>9
  <2>2. ASSUME NEW i \in (n + 1) .. Len(cursor) PROVE Saved(cursor, i, k) \subseteq pending'
    <3>1. i \in (final + 1) .. Len(cursor) /\ i > n
      BY <1>4, <1>6
    <3>2. Saved(cursor, i, k) \subseteq history
      BY <1>2, <1>7, <3>1 DEF HistoryPlace
    <3>3. ASSUME NEW r \in Saved(cursor, i, k) PROVE r.block = i
      <4>1. i \in 1 .. Len(cursor) /\ i \in 1 .. MaxBlocks
        BY <1>4, RisingwaveAssumption
      <4>2. cursor[i][k].type \in Types /\ After(cursor)[i - 1][k] \in Row
        BY <1>4, <4>1, SavedBlock, OpParts
      <4>3. QED
        BY <3>3, <4>1, <4>2, SavedShape DEF Saved
    <3>4. QED
      BY <1>1, <1>3, <3>1, <3>2, <3>3
  <2>3. ASSUME NEW r \in pending', r.key = k
        PROVE  /\ r.block \in (n + 1) .. Len(cursor) /\ r \in Saved(cursor, r.block, k)
    <3>1. r \in history /\ r.block > n
      BY <1>1, <1>3
    <3>2. r.block \in 1 .. Len(cursor) /\ r \in Saved(cursor, r.block, k)
      BY <1>2, <1>7, <2>3, <3>1 DEF HistoryPlace
    <3>3. QED
      BY <1>4, <3>1, <3>2
  <2>4. QED
    BY <1>2, <2>1, <2>2, <2>3, <1>4
<1>11. RevertPlace(level)'
  BY <1>1, <1>5, <1>10 DEF RevertPlace, Saved
<1>12. \E l \in [Key -> Len(pos') .. Len(cursor')] : RevertPlace(l)'
  BY <1>1, <1>5, <1>9, <1>11
<1>13. QED
  BY <1>1, <1>2, <1>8, <1>12 DEF ReorgPlace

\* The newest history row that is left brings its row back to the block before.
LEMMA ReorgRevert ==
    ASSUME Typed, PathsPlace, ReorgPlace, NEW r \in pending, RevertRow(r)
    PROVE  ReorgPlace'
<1> SUFFICES ASSUME faults' = 0, ~ held' PROVE ReorgPlace'
  BY DEF ReorgPlace
<1>1. /\ UNCHANGED <<phase, pos, todo, logged, final, history, cursor, entries, faults>>
      /\ phase = "revert" /\ ~ held
      /\ \A q \in pending : q.block <= r.block
      /\ rows' = [rows EXCEPT ![r.key] = RevertOp(r, rows[r.key])]
      /\ pending' = pending \ {r}
  BY DEF RevertRow, NextToRevert, bufferVars
<1>2. /\ HistoryPlace /\ entries = NoEntries
      /\ \E l \in [Key -> Len(pos) .. Len(cursor)] : RevertPlace(l)
  BY <1>1 DEF ReorgPlace
<1>3. PICK level \in [Key -> Len(pos) .. Len(cursor)] : RevertPlace(level)
  BY <1>2
<1>4. /\ cursor \in Path /\ Len(cursor) \in Nat /\ Len(pos) \in Nat /\ LegalPath(cursor)
      /\ rows \in [Key -> Row] /\ r \in HistoryRow /\ Len(cursor) <= MaxBlocks
      /\ pending \subseteq HistoryRow
  BY PathLength DEF Typed, PathsPlace
<1>5. PICK k \in Key : k = r.key
  BY <1>4 DEF HistoryRow
<1>6. PICK b \in (Len(pos) + 1) .. Len(cursor) :
          b = r.block /\ b <= level[k] /\ r \in Saved(cursor, b, k)
  BY <1>3, <1>5 DEF RevertPlace
<1>7. /\ b \in Nat /\ b \in 1 .. Len(cursor) /\ b - 1 \in Len(pos) .. Len(cursor)
      /\ level[k] \in Nat /\ level[k] <= Len(cursor)
  BY <1>3, <1>4, <1>6
<1>8. ASSUME NEW i \in 1 .. Len(cursor), NEW j \in Key, NEW s \in Saved(cursor, i, j)
      PROVE  s.block = i /\ s.key = j
  <2>1. i \in 1 .. MaxBlocks
    BY <1>4, RisingwaveAssumption
  <2>2. cursor[i][j].type \in Types /\ After(cursor)[i - 1][j] \in Row
    BY <1>4, SavedBlock, OpParts
  <2>3. QED
    BY <1>8, <2>1, <2>2, SavedShape DEF Saved
<1>9. rows[k] = After(cursor)[b][k]
  <2>1. ASSUME NEW i \in (b + 1) .. level[k] PROVE Saved(cursor, i, k) = {}
    <3>1. i \in (Len(pos) + 1) .. Len(cursor) /\ i <= level[k] /\ ~ (i <= b)
          /\ i \in 1 .. Len(cursor)
      BY <1>4, <1>6, <1>7
    <3>2. Saved(cursor, i, k) \subseteq pending
      BY <1>3, <3>1 DEF RevertPlace
    <3>3. \A s \in Saved(cursor, i, k) : s.block = i /\ s.block <= b
      BY <1>1, <1>6, <1>8, <3>1, <3>2
    <3>4. QED
      BY <3>1, <3>3
  <2>2. PICK n \in Nat : n = level[k]
    BY <1>7
  <2>3. b <= n /\ n <= Len(cursor) /\ \A i \in (b + 1) .. n : Saved(cursor, i, k) = {}
    BY <1>6, <1>7, <2>1, <2>2
  <2>4. After(cursor)[n][k] = After(cursor)[b][k]
    BY <1>4, <1>7, <2>3, NothingSavedBetween
  <2>5. QED
    BY <1>3, <2>2, <2>4 DEF RevertPlace
<1>10. rows'[k] = After(cursor)[b - 1][k]
  <2>1. RevertOp(r, rows[k]) = After(cursor)[b - 1][k]
    BY <1>4, <1>6, <1>7, <1>9, SavedBlock
  <2>2. QED
    BY <1>1, <1>4, <1>5, <2>1
<1> DEFINE lower == [level EXCEPT ![k] = b - 1]
<1>11. /\ lower \in [Key -> Len(pos) .. Len(cursor)] /\ lower[k] = b - 1
       /\ \A j \in Key : j # k => lower[j] = level[j]
  BY <1>3, <1>7
<1> HIDE DEF lower
<1>12. ASSUME NEW j \in Key
       PROVE  /\ rows'[j] = After(cursor)[lower[j]][j]
              /\ \A i \in (Len(pos) + 1) .. Len(cursor) :
                   i <= lower[j] => Saved(cursor, i, j) \subseteq pending'
              /\ \A s \in pending' : s.key = j =>
                   /\ s.block \in (Len(pos) + 1) .. Len(cursor) /\ s.block <= lower[j]
                   /\ s \in Saved(cursor, s.block, j)
  <2>1. CASE j = k
    <3>1. ASSUME NEW i \in (Len(pos) + 1) .. Len(cursor), i <= b - 1
          PROVE  Saved(cursor, i, k) \subseteq pending'
      <4>1. i <= level[k] /\ i # b /\ i \in 1 .. Len(cursor)
        BY <1>4, <1>6, <1>7, <3>1
      <4>2. Saved(cursor, i, k) \subseteq pending
        BY <1>3, <4>1 DEF RevertPlace
      <4>3. r \notin Saved(cursor, i, k)
        BY <1>6, <1>8, <4>1
      <4>4. QED
        BY <1>1, <4>2, <4>3
    <3>2. ASSUME NEW s \in pending', s.key = k
          PROVE  /\ s.block \in (Len(pos) + 1) .. Len(cursor) /\ s.block <= b - 1
                 /\ s \in Saved(cursor, s.block, k)
      <4>1. s \in pending /\ s # r /\ s.block <= b
        BY <1>1, <1>6
      <4>2. /\ s.block \in (Len(pos) + 1) .. Len(cursor)
            /\ s \in Saved(cursor, s.block, k)
        BY <1>3, <3>2, <4>1 DEF RevertPlace
      <4>3. s.block # b
        <5>1. ASSUME s \in Saved(cursor, b, k) PROVE s = r
          BY <1>4, <1>6, <1>7, <5>1, SavedBlock, SavedOnce DEF Saved
        <5>2. QED
          BY <4>1, <4>2, <5>1
      <4>4. QED
        BY <1>4, <1>7, <4>1, <4>2, <4>3
    <3>3. QED
      BY <1>10, <1>11, <2>1, <3>1, <3>2
  <2>2. CASE j # k
    <3>1. rows'[j] = rows[j] /\ lower[j] = level[j]
      BY <1>1, <1>4, <1>5, <1>11, <2>2
    <3>2. ASSUME NEW i \in (Len(pos) + 1) .. Len(cursor), i <= level[j]
          PROVE  Saved(cursor, i, j) \subseteq pending'
      <4>1. i \in 1 .. Len(cursor) /\ Saved(cursor, i, j) \subseteq pending
        BY <1>3, <1>4, <3>2 DEF RevertPlace
      <4>2. r \notin Saved(cursor, i, j)
        BY <1>5, <1>8, <2>2, <4>1
      <4>3. QED
        BY <1>1, <4>1, <4>2
    <3>3. QED
      BY <1>1, <1>3, <3>1, <3>2 DEF RevertPlace
  <2>3. QED
    BY <2>1, <2>2
<1>13. RevertPlace(lower)'
  BY <1>1, <1>12 DEF RevertPlace, Saved
<1>14. \E l \in [Key -> Len(pos') .. Len(cursor')] : RevertPlace(l)'
  BY <1>1, <1>11, <1>13
<1>15. HistoryPath' = HistoryPath /\ \A i, j : Unsaved(i, j)' <=> Unsaved(i, j)
  BY <1>1 DEF HistoryPath, Unsaved
<1>16. HistoryPlace'
  BY <1>1, <1>2, <1>15 DEF HistoryPlace
<1>17. QED
  BY <1>1, <1>2, <1>14, <1>16 DEF ReorgPlace

\* When no history row is left to be reverted, every row is at the common block.
LEMMA ReorgPrune ==
    ASSUME Typed, PathsPlace, ReorgPlace, PruneReverted
    PROVE  ReorgPlace'
<1> SUFFICES ASSUME faults' = 0, ~ held' PROVE ReorgPlace'
  BY DEF ReorgPlace
<1>1. /\ UNCHANGED <<pos, todo, final, rows, cursor, entries, faults>> /\ phase = "revert"
      /\ phase' = "reverted" /\ pending = {} /\ ~ held
      /\ history' = {r \in history : r.block <= Len(pos)}
  BY DEF PruneReverted, bufferVars
<1>2. /\ HistoryPlace /\ entries = NoEntries
      /\ \E l \in [Key -> Len(pos) .. Len(cursor)] : RevertPlace(l)
  BY <1>1 DEF ReorgPlace
<1>3. PICK level \in [Key -> Len(pos) .. Len(cursor)] : RevertPlace(level)
  BY <1>2
<1>4. /\ cursor \in Path /\ Len(cursor) \in Nat /\ Len(pos) \in Nat /\ pos \in Path
      /\ rows \in [Key -> Row] /\ Agree(pos, cursor, Len(pos)) /\ Len(cursor) <= MaxBlocks
      /\ history \subseteq HistoryRow /\ final \in Nat
  BY <1>1, PathLength DEF Typed, PathsPlace
<1>5. After(pos)[Len(pos)] = After(cursor)[Len(pos)] /\ Len(pos) <= Len(cursor)
  BY <1>4, AfterAgree DEF Agree
<1>6. ASSUME NEW k \in Key PROVE rows[k] = After(cursor)[Len(pos)][k]
  <2>1. level[k] \in Nat /\ Len(pos) <= level[k] /\ level[k] <= Len(cursor)
    BY <1>3, <1>4
  <2>2. ASSUME NEW i \in (Len(pos) + 1) .. level[k] PROVE Saved(cursor, i, k) = {}
    <3>1. i \in (Len(pos) + 1) .. Len(cursor) /\ i <= level[k]
      BY <1>4, <2>1
    <3>2. QED
      BY <1>1, <1>3, <3>1 DEF RevertPlace
  <2>3. PICK n \in Nat, m \in Nat : n = level[k] /\ m = Len(pos)
    BY <1>4, <2>1
  <2>4. m <= n /\ n <= Len(cursor) /\ \A i \in (m + 1) .. n : Saved(cursor, i, k) = {}
    BY <2>1, <2>2, <2>3
  <2>5. After(cursor)[n][k] = After(cursor)[m][k]
    BY <1>4, <2>4, NothingSavedBetween
  <2>6. QED
    BY <1>3, <2>3, <2>5 DEF RevertPlace
<1>7. rows = After(pos)[Len(pos)]
  <2>1. After(pos)[Len(pos)] \in [Key -> Row]
    BY <1>4, AfterType
  <2>2. QED
    BY <1>4, <1>5, <1>6, <2>1
<1>8. HistoryPath = cursor /\ HistoryPath' = pos /\ \A i, k : ~ Unsaved(i, k) /\ ~ Unsaved(i, k)'
  BY <1>1 DEF HistoryPath, Unsaved
<1>9. \A i \in 1 .. Len(pos) : \A k \in Key : Saved(pos, i, k) = Saved(cursor, i, k)
  BY <1>4, SavedAgree
<1>10. ASSUME NEW r \in history'
       PROVE  r.block \in 1 .. Len(pos) /\ r \in Saved(pos, r.block, r.key)
  <2>1. r \in history /\ r.block <= Len(pos) /\ r.key \in Key
    BY <1>1, <1>4 DEF HistoryRow
  <2>2. r.block \in 1 .. Len(cursor) /\ r \in Saved(cursor, r.block, r.key)
    BY <1>2, <1>8, <2>1 DEF HistoryPlace
  <2>3. r.block \in 1 .. Len(pos)
    BY <1>4, <2>1, <2>2
  <2>4. QED
    BY <1>9, <2>1, <2>2, <2>3
<1>11. ASSUME NEW i \in (final + 1) .. Len(pos), NEW k \in Key
       PROVE  Saved(pos, i, k) \subseteq history'
  <2>1. i \in 1 .. Len(pos) /\ i \in (final + 1) .. Len(cursor) /\ i \in 1 .. Len(cursor)
        /\ i \in 1 .. MaxBlocks
    BY <1>4, <1>5, RisingwaveAssumption
  <2>2. Saved(cursor, i, k) \subseteq history
    BY <1>2, <1>8, <2>1 DEF HistoryPlace
  <2>3. cursor[i][k].type \in Types /\ After(cursor)[i - 1][k] \in Row
    BY <1>4, <2>1, SavedBlock, OpParts
  <2>4. \A r \in Saved(cursor, i, k) : r.block = i
    BY <2>1, <2>3, SavedShape DEF Saved
  <2>5. QED
    BY <1>1, <1>9, <2>1, <2>2, <2>4
<1>12. HistoryPlace'
  BY <1>1, <1>8, <1>10, <1>11 DEF HistoryPlace
<1>13. QED
  BY <1>1, <1>2, <1>7, <1>12 DEF ReorgPlace

\* Every step keeps the rows of the path and its history, whatever is undone.
LEMMA ReorgNext ==
    ASSUME Typed, PathsPlace, ReorgPlace, Next, PathsPlace'
    PROVE  ReorgPlace'
<1>1. ASSUME UNCHANGED <<phase, pos, entries, todo, logged, final, pending, rows, history,
                         cursor, held, faults>>
      PROVE  ReorgPlace'
  <2>1. HistoryPath' = HistoryPath /\ \A i, k : Unsaved(i, k)' <=> Unsaved(i, k)
    BY <1>1 DEF HistoryPath, Unsaved
  <2>2. HistoryPlace' <=> HistoryPlace
    BY <1>1, <2>1 DEF HistoryPlace
  <2>3. /\ \A l : RevertPlace(l)' <=> RevertPlace(l)
        /\ \A k : Buffered(k)' <=> Buffered(k)
    BY <1>1 DEF RevertPlace, Buffered
  <2>4. QED
    BY <1>1, <2>2, <2>3 DEF ReorgPlace
<1>2. ASSUME NEW b \in Block, NEW h \in 0 .. MaxBlocks, Extend(b, h) PROVE ReorgPlace'
  BY <1>1, <1>2 DEF Extend, bufferVars, processVars, dbVars
<1>3. ASSUME NEW n \in 0 .. MaxBlocks, Reorg(n) PROVE ReorgPlace'
  BY <1>1, <1>3 DEF Reorg, bufferVars, processVars, dbVars
<1>4. ASSUME faults' = faults + 1 PROVE ReorgPlace'
  <2>1. faults' # 0
    BY <1>4 DEF Typed
  <2>2. QED
    BY <2>1 DEF ReorgPlace
<1>5. ASSUME RevertEnds PROVE ReorgPlace'
  <2>1. /\ UNCHANGED <<pos, todo, final, rows, history, entries, held, faults>>
        /\ phase = "reverted" /\ phase' = "idle"
    BY <1>5 DEF RevertEnds, bufferVars
  <2>2. HistoryPath = pos /\ HistoryPath' = pos /\ \A i, k : ~ Unsaved(i, k) /\ ~ Unsaved(i, k)'
    BY <2>1 DEF HistoryPath, Unsaved
  <2>3. HistoryPlace' <=> HistoryPlace
    BY <2>1, <2>2 DEF HistoryPlace
  <2>4. QED
    BY <2>1, <2>3 DEF ReorgPlace
<1>6. ASSUME FlushEnds PROVE ReorgPlace'
  <2>1. /\ UNCHANGED <<pos, todo, final, rows, history, held, faults>>
        /\ phase = "pruned" /\ phase' = "idle" /\ entries' = NoEntries
    BY <1>6 DEF FlushEnds
  <2>2. HistoryPath = pos /\ HistoryPath' = pos /\ \A i, k : ~ Unsaved(i, k) /\ ~ Unsaved(i, k)'
    BY <2>1 DEF HistoryPath, Unsaved
  <2>3. HistoryPlace' <=> HistoryPlace
    BY <2>1, <2>2 DEF HistoryPlace
  <2>4. QED
    BY <2>1, <2>3 DEF ReorgPlace
<1>7. ASSUME RejectBlock PROVE ReorgPlace'
  <2>1. /\ phase = "idle" /\ UNCHANGED <<faults, held>>
        /\ \E k \in Key : Rejects(entries[k], chain[Len(pos) + 1][k])
    BY <1>7 DEF RejectBlock, bufferVars
  <2>2. ASSUME entries = NoEntries, NEW k \in Key
        PROVE  ~ Rejects(entries[k], chain[Len(pos) + 1][k])
    BY <2>2 DEF NoEntries, NoEntry, Rejects
  <2>3. QED
    BY <2>1, <2>2 DEF ReorgPlace
<1>8. ASSUME Restart PROVE ReorgPlace'
  BY <1>8 DEF Restart, ReorgPlace
<1>9. ASSUME StatementFails PROVE ReorgPlace'
  BY <1>4, <1>9 DEF StatementFails
<1>10. ASSUME Crash PROVE ReorgPlace'
  BY <1>4, <1>10 DEF Crash
<1>11. ASSUME Waiting PROVE ReorgPlace'
  BY <1>1, <1>11 DEF Waiting, vars, bufferVars, processVars, dbVars
<1>12. QED
  BY <1>2, <1>3, <1>5, <1>6, <1>7, <1>8, <1>9, <1>10, <1>11, ReorgHandle, ReorgSave, ReorgExec,
     ReorgPruned, ReorgUndo, ReorgRevert, ReorgPrune DEF Next

-----------------------------------------------------------------------------
(* The theorems.                                                           *)

\* The invariant holds at first,
LEMMA RInvInit == ASSUME Init PROVE RInv
<1>1. FaultsPlace
  <2>1. <<>> \in Path /\ Len(<<>>) = 0
    BY EmptySeq DEF Path
  <2>2. After(<<>>)[0] = NoRows
    BY <2>1, AfterUnfolds
  <2>3. QED
    BY <2>1, <2>2 DEF Init, FaultsPlace, Agree, AtLevel, Merged, NoEntries, NoEntry, Execute
<1>2. QED
  BY <1>1, TypedInit, PathsInit, ReorgInit DEF RInv

\* and every step keeps it.
LEMMA RInvNext == ASSUME RInv, [Next]_vars PROVE RInv'
<1>1. CASE Next
  <2>1. Typed' /\ PathsPlace' /\ FaultsPlace'
    <3>1. Typed'
      BY <1>1, TypedNext DEF RInv
    <3>2. QED
      BY <1>1, <3>1, PathsNext, FaultsNext DEF RInv
  <2>2. ReorgPlace'
    BY <1>1, <2>1, ReorgNext DEF RInv
  <2>3. QED
    BY <2>1, <2>2 DEF RInv
<1>2. CASE UNCHANGED vars
  <2>1. UNCHANGED <<chain, lib, phase, pos, entries, todo, logged, final, pending, attempt,
                    rows, history, cursor, held, ahead, faults, reorgs>>
    BY <1>2 DEF vars, bufferVars, processVars, dbVars
  <2>2. Typed' /\ PathsPlace'
    BY <2>1 DEF RInv, Typed, PathsPlace
  <2>3. FaultsPlace'
    BY <2>1 DEF RInv, FaultsPlace, AtLevel, Merged
  <2>4. HistoryPath' = HistoryPath /\ \A i, k : Unsaved(i, k)' <=> Unsaved(i, k)
    BY <2>1 DEF HistoryPath, Unsaved
  <2>5. HistoryPlace' <=> HistoryPlace
    BY <2>1, <2>4 DEF HistoryPlace
  <2>6. /\ \A l : RevertPlace(l)' <=> RevertPlace(l)
        /\ \A k : Buffered(k)' <=> Buffered(k)
    BY <2>1 DEF RevertPlace, Buffered
  <2>7. ReorgPlace'
    BY <2>1, <2>5, <2>6 DEF RInv, ReorgPlace
  <2>8. QED
    BY <2>2, <2>3, <2>7 DEF RInv
<1>3. QED
  BY <1>1, <1>2

\* In every reachable state the process, the rows and the history are where RInv says,
\* whatever statements of a flush or a revert were executed, failed or were repeated.
THEOREM RisingwaveInvariance == Spec => []RInv
<1>1. Init => RInv
  BY RInvInit
<1>2. RInv /\ [Next]_vars => RInv'
  BY RInvNext
<1>3. QED
  BY <1>1, <1>2, PTL DEF Spec

\* What the invariant says of the properties.
LEMMA RInvFollows == ASSUME RInv PROVE RowsFollowCursor
<1>1. TypeOK
  <2>1. \A p \in Path : \A i \in DOMAIN p : p[i] \in Block
    BY PathLength, ElementOfSeq DEF Path
  <2>2. lib \in 0 .. MaxBlocks /\ final \in 0 .. MaxBlocks
    BY PathLength, RisingwaveAssumption DEF RInv, Typed
  <2>3. QED
    BY <2>1, <2>2 DEF RInv, Typed, TypeOK
<1>2. /\ chain \in Path /\ cursor \in Path /\ Len(cursor) \in Nat /\ Len(chain) \in Nat
      /\ Content(cursor) = After(cursor)[Len(cursor)]
  BY PathLength, AfterUnfolds DEF RInv, Typed
<1>3. RowsAtCursorOrAhead
  <2>1. SUFFICES ASSUME reorgs = 0 PROVE RowsAtCursorOrAhead
    BY DEF RowsAtCursorOrAhead
  <2>2. /\ Len(cursor) <= ahead /\ ahead <= Len(chain) /\ ahead \in Nat
        /\ \A k \in Key : AtLevel(k, Len(cursor), ahead)
    BY <2>1 DEF RInv, FaultsPlace, Typed
  <2>3. ASSUME NEW n \in Len(cursor) .. ahead PROVE Content(SubSeq(chain, 1, n)) = After(chain)[n]
    <3>1. n \in Nat /\ n <= Len(chain)
      BY <1>2, <2>2
    <3>2. QED
      BY <1>2, <3>1, PrefixOf
  <2>4. QED
    BY <2>2, <2>3 DEF AtLevel, RowsAtCursorOrAhead
<1>4. RowsMatchCursor
  <2>1. SUFFICES ASSUME faults = 0, reorgs = 0 \/ ~ held, phase = "idle"
                 PROVE  rows = Content(cursor)
    BY DEF RowsMatchCursor
  <2>2. CASE ~ held
    BY <1>2, <2>1, <2>2 DEF RInv, PathsPlace, ReorgPlace
  <2>3. CASE reorgs = 0
    <3>1. ahead = Len(cursor) /\ Agree(cursor, chain, Len(cursor))
          /\ \A k \in Key : AtLevel(k, Len(cursor), ahead)
      BY <2>1, <2>3 DEF RInv, FaultsPlace
    <3>2. After(chain)[Len(cursor)] = Content(cursor)
      BY <1>2, <3>1, AfterAgree
    <3>3. ASSUME NEW k \in Key PROVE rows[k] = Content(cursor)[k]
      <4>1. PICK l \in Len(cursor) .. ahead : rows[k] = After(chain)[l][k]
        BY <3>1 DEF AtLevel
      <4>2. l = Len(cursor)
        BY <1>2, <3>1
      <4>3. QED
        BY <3>2, <4>1, <4>2
    <3>4. rows \in [Key -> Row] /\ Content(cursor) \in [Key -> Row]
      BY <1>2, AfterType DEF RInv, Typed
    <3>5. QED
      BY <3>3, <3>4
  <2>4. QED
    BY <2>1, <2>2, <2>3
<1>5. QED
  BY <1>1, <1>3, <1>4 DEF RowsFollowCursor

\* RisingWave commits every statement on its own, and still: without a reorganisation a row
\* is between the cursor and the last block a flush was started for, whatever failed and
\* however the blocks were put into batches; without a fault the rows are those of the
\* cursor between two messages, whatever was undone, if no block was held.
THEOREM RowsStayWithCursor == Spec => []RowsFollowCursor
<1>1. RInv => RowsFollowCursor
  BY RInvFollows
<1>2. QED
  BY <1>1, RisingwaveInvariance, PTL

\* The cursor only moves where all the rows are: UpdateCursor is the last statement of a
\* flush, and the statements executed before, once or more often, lead to the same rows.
THEOREM CursorMoves == Spec => CursorMovesWithRows
<1>1. ASSUME RInv, Next, reorgs' = 0, cursor' # cursor, Len(cursor') = ahead
      PROVE  rows' = Content(cursor')
  <2>1. FlushEnds \/ RevertEnds
    BY <1>1 DEF Next, Extend, Reorg, HandleBlock, RejectBlock, SaveRow, ExecStatement, Prune,
         StatementFails, Undo, RevertRow, PruneReverted, Crash, Restart, Waiting, vars,
         bufferVars, processVars, dbVars
  <2>2. CASE RevertEnds
    <3>1. phase = "reverted" /\ reorgs = 0
      BY <1>1, <2>2 DEF RevertEnds
    <3>2. QED
      BY <1>1, <3>1 DEF RInv, FaultsPlace
  <2>3. CASE FlushEnds
    <3>1. UNCHANGED <<chain, rows, pos, reorgs>> /\ phase = "pruned" /\ cursor' = pos
      BY <2>3 DEF FlushEnds
    <3>2. /\ pos \in Path /\ chain \in Path /\ rows \in [Key -> Row] /\ Len(pos) \in Nat
          /\ todo = {} /\ Len(pos) = ahead
      BY <1>1, <3>1, PathLength DEF RInv, Typed
    <3>3. Agree(pos, chain, Len(pos)) /\ \A k \in Key : AtLevel(k, Len(pos), ahead)
      BY <1>1, <3>1, <3>2 DEF RInv, FaultsPlace
    <3>4. After(chain)[Len(pos)] = After(pos)[Len(pos)] /\ Content(pos) = After(pos)[Len(pos)]
      BY <3>2, <3>3, AfterAgree, AfterUnfolds
    <3>5. After(pos)[Len(pos)] \in [Key -> Row]
      BY <3>2, AfterType
    <3>6. ASSUME NEW k \in Key PROVE rows[k] = Content(pos)[k]
      <4>1. PICK l \in Len(pos) .. ahead : rows[k] = After(chain)[l][k]
        BY <3>3 DEF AtLevel
      <4>2. l = Len(pos)
        BY <3>2
      <4>3. QED
        BY <3>4, <4>1, <4>2
    <3>7. rows = Content(pos)
      BY <3>2, <3>4, <3>5, <3>6
    <3>8. QED
      BY <3>1, <3>7
  <2>4. QED
    BY <2>1, <2>2, <2>3
<1>2. RInv /\ [Next]_vars =>
        [(reorgs' = 0 /\ cursor' # cursor /\ Len(cursor') = ahead) => rows' = Content(cursor')]_vars
  BY <1>1
<1>3. QED
  BY <1>2, RisingwaveInvariance, PTL DEF Spec, CursorMovesWithRows

=============================================================================
