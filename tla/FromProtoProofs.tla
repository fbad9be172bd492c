-------------------------- MODULE FromProtoProofs ---------------------------
(***************************************************************************)
(* Proofs about FromProto, for all configurations, entities and bounds.    *)
(***************************************************************************)
EXTENDS FromProto, WellFoundedInduction, SequenceTheorems, FiniteSetTheorems, TLAPS

\* The paths of blocks
Blocks == Seq(Block)

\* Two paths have the same first n blocks
Agree(p, s, n) == n <= Len(p) /\ n <= Len(s) /\ \A i \in 1 .. n : p[i] = s[i]

\* The rows of the n-th block of a path, and of its first n blocks
RowsAt(p, n) == RowsOf(Held(p, n))
RowsTo(p, n) == UNION {RowsAt(p, i) : i \in 1 .. n}

\* What the statements of a sequence insert or remove
All(s) == UNION {s[i] : i \in DOMAIN s}

-----------------------------------------------------------------------------
(* Prefixes of paths.                                                      *)

\* Every set of natural numbers that is not empty has a least element.
LEMMA LeastNumber ==
    ASSUME NEW T, T \subseteq Nat, T # {}
    PROVE  \E x \in T : \A y \in T : x <= y
<1> DEFINE R == OpToRel(<, Nat)
<1>1. IsWellFoundedOn(R, Nat)
  BY NatLessThanWellFounded
<1>2. ASSUME NEW a \in Nat, NEW b \in Nat, a < b PROVE <<a, b>> \in R
  BY <1>2 DEF OpToRel
<1> HIDE DEF R
<1>3. PICK x \in T : \A y \in T : ~ (<<y, x>> \in R)
  BY <1>1, WFMin
<1>4. ASSUME NEW y \in T PROVE x <= y
  <2>1. ~ (y < x)
    BY <1>2, <1>3
  <2>2. x \in Nat /\ y \in Nat
    OBVIOUS
  <2>3. QED
    BY <2>1, <2>2
<1>5. QED
  BY <1>4

\* The length of a path.
LEMMA PathLength == ASSUME NEW p \in Blocks PROVE Len(p) \in Nat /\ DOMAIN p = 1 .. Len(p)
BY LenProperties DEF Blocks

\* The first n blocks of a path.
LEMMA PrefixOf ==
    ASSUME NEW p \in Blocks, NEW n \in Nat, n <= Len(p)
    PROVE  /\ SubSeq(p, 1, n) \in Blocks /\ Len(SubSeq(p, 1, n)) = n
           /\ Agree(SubSeq(p, 1, n), p, n)
<1>1. Len(p) \in Nat /\ \A i \in 1 .. n : i \in 1 .. Len(p)
  BY PathLength
<1>2. \A i \in 1 .. n : p[i] \in Block
  BY <1>1, ElementOfSeq DEF Blocks
<1>3. PICK q : q = SubSeq(p, 1, n)
  OBVIOUS
<1>4. /\ q \in Seq(Block) /\ Len(q) = (IF 1 <= n THEN n - 1 + 1 ELSE 0)
      /\ \A i \in 1 .. (n - 1 + 1) : q[i] = p[1 + i - 1]
  BY <1>2, <1>3, SubSeqProperties
<1>5. Len(q) = n /\ \A i \in 1 .. n : q[i] = p[i]
  BY <1>4
<1>6. q \in Blocks /\ Agree(q, p, n)
  BY <1>4, <1>5 DEF Blocks, Agree
<1>7. QED
  BY <1>3, <1>5, <1>6

\* IsPrefix in terms of blocks.
LEMMA PrefixAgrees ==
    ASSUME NEW p \in Blocks, NEW s \in Blocks
    PROVE  IsPrefix(p, s) <=> Agree(p, s, Len(p))
<1>1. Len(p) \in Nat /\ Len(s) \in Nat
  BY PathLength
<1>2. SubSeq(p, 1, Len(p)) = p
  BY SubSeqFull DEF Blocks
<1>3. ASSUME Len(p) <= Len(s)
      PROVE  SubSeq(s, 1, Len(p)) = p <=> \A i \in 1 .. Len(p) : p[i] = s[i]
  <2>1. PICK q : q = SubSeq(s, 1, Len(p))
    OBVIOUS
  <2>2. q \in Blocks /\ Len(q) = Len(p) /\ \A i \in 1 .. Len(p) : q[i] = s[i]
    BY <1>1, <1>3, <2>1, PrefixOf DEF Agree
  <2>3. (\A i \in 1 .. Len(p) : p[i] = q[i]) => q = p
    BY <2>2, SeqEqual DEF Blocks
  <2>4. QED
    BY <2>1, <2>2, <2>3
<1>4. QED
  BY <1>1, <1>2, <1>3 DEF IsPrefix, Agree

\* A path and one more block.
LEMMA PathAppend ==
    ASSUME NEW p \in Blocks, NEW b \in Block
    PROVE  /\ Append(p, b) \in Blocks /\ Len(Append(p, b)) = Len(p) + 1
           /\ Agree(p, Append(p, b), Len(p)) /\ Append(p, b)[Len(p) + 1] = b
<1>1. /\ Append(p, b) \in Seq(Block) /\ Len(Append(p, b)) = Len(p) + 1
      /\ \A i \in 1 .. Len(p) : Append(p, b)[i] = p[i]
      /\ Append(p, b)[Len(p) + 1] = b
  BY AppendProperties DEF Blocks
<1>2. Len(p) \in Nat
  BY PathLength
<1>3. QED
  BY <1>1, <1>2 DEF Blocks, Agree

\* Paths that agree on n blocks agree on fewer, and agreement is an equivalence.
LEMMA AgreeLess ==
    ASSUME NEW p \in Blocks, NEW s \in Blocks, NEW n \in Nat, Agree(p, s, n), NEW m \in Nat, m <= n
    PROVE  Agree(p, s, m) /\ Agree(s, p, m)
<1>1. Len(p) \in Nat /\ Len(s) \in Nat /\ \A i \in 1 .. m : i \in 1 .. n
  BY PathLength
<1>2. QED
  BY <1>1 DEF Agree

\* Two paths that agree with a third agree with each other.
LEMMA AgreeTrans ==
    ASSUME NEW p, NEW q, NEW s, NEW n, Agree(p, q, n), Agree(q, s, n)
    PROVE  Agree(p, s, n)
BY DEF Agree

\* What two paths have in common: nothing longer is.
LEMMA CommonIsLongest ==
    ASSUME NEW p \in Blocks, NEW s \in Blocks
    PROVE  /\ Common(p, s) \in Nat /\ Agree(p, s, Common(p, s))
           /\ \A m \in Nat : Agree(p, s, m) => m <= Common(p, s)
<1> DEFINE C == CommonPrefixes({p, s})
           P == Prefixes(p) \union Prefixes(s)
<1>1. Len(p) \in Nat /\ Len(s) \in Nat
  BY PathLength
<1>2. C = {x \in P : IsPrefix(x, p) /\ IsPrefix(x, s)}
  BY DEF CommonPrefixes
<1>3. ASSUME NEW x \in C PROVE x \in Blocks /\ Len(x) \in Nat /\ Agree(p, s, Len(x))
  <2>1. x \in P /\ IsPrefix(x, p) /\ IsPrefix(x, s)
    BY <1>2
  <2>2. x \in Blocks
    <3>1. ASSUME NEW q \in Blocks, x \in Prefixes(q) PROVE x \in Blocks
      <4>1. PICK l \in 0 .. Len(q) : x = SubSeq(q, 1, l)
        BY <3>1 DEF Prefixes
      <4>2. l \in Nat /\ l <= Len(q)
        BY <4>1, PathLength
      <4>3. QED
        BY <4>1, <4>2, PrefixOf
    <3>2. QED
      BY <2>1, <3>1
  <2>3. Agree(x, p, Len(x)) /\ Agree(x, s, Len(x)) /\ Len(x) \in Nat
    BY <2>1, <2>2, PrefixAgrees, PathLength
  <2>4. QED
    BY <2>2, <2>3 DEF Agree
<1>4. ASSUME NEW m \in Nat, Agree(p, s, m) PROVE \E x \in C : Len(x) = m
  <2>1. PICK x : x = SubSeq(p, 1, m)
    OBVIOUS
  <2>2. m <= Len(p) /\ m \in 0 .. Len(p)
    BY <1>1, <1>4 DEF Agree
  <2>3. x \in Blocks /\ Len(x) = m /\ Agree(x, p, m)
    BY <2>1, <2>2, PrefixOf
  <2>4. Agree(x, s, m)
    BY <1>4, <2>3, AgreeTrans
  <2>5. IsPrefix(x, p) /\ IsPrefix(x, s)
    BY <2>3, <2>4, PrefixAgrees
  <2>6. x \in Prefixes(p)
    BY <2>1, <2>2 DEF Prefixes
  <2>7. QED
    BY <1>2, <2>3, <2>5, <2>6
<1> HIDE DEF C
<1>5. \E x \in C : \A y \in C : Len(y) <= Len(x)
  <2> DEFINE Gaps == {Len(p) - Len(x) : x \in C}
  <2>1. \A x \in C : Len(x) \in Nat /\ Len(p) - Len(x) \in Nat
    <3>1. ASSUME NEW x \in C PROVE Len(x) \in Nat /\ Len(x) <= Len(p)
      BY <1>3 DEF Agree
    <3>2. QED
      BY <1>1, <3>1
  <2>2. Agree(p, s, 0)
    BY <1>1 DEF Agree
  <2>3. Gaps \subseteq Nat /\ Gaps # {}
    BY <1>4, <2>1, <2>2
  <2>4. PICK g \in Gaps : \A h \in Gaps : g <= h
    BY <2>3, LeastNumber
  <2>5. PICK x \in C : g = Len(p) - Len(x)
    BY <2>4
  <2>6. ASSUME NEW y \in C PROVE Len(y) <= Len(x)
    <3>1. Len(p) - Len(x) <= Len(p) - Len(y)
      BY <2>4, <2>5
    <3>2. Len(x) \in Nat /\ Len(y) \in Nat
      BY <2>1
    <3>3. QED
      BY <1>1, <3>1, <3>2
  <2>7. QED
    BY <2>6
<1>6. /\ LongestCommonPrefix({p, s}) \in C
      /\ \A y \in C : Len(y) <= Len(LongestCommonPrefix({p, s}))
  BY <1>5 DEF LongestCommonPrefix, C
<1>7. QED
  BY <1>3, <1>4, <1>6 DEF Common

-----------------------------------------------------------------------------
(* The rows of blocks.                                                     *)

\* The rows of a block carry its number and fork; if there are any, one is in _blocks_.
LEMMA RowsOfShape ==
    ASSUME NEW h, NEW r \in RowsOf(h)
    PROVE  /\ r.num = h.num /\ r.fork = h.fork /\ h.rows # {}
           /\ \E b \in RowsOf(h) : b.key = BlockRow /\ b.num = h.num
<1>1. h.rows # {} /\ RowsOf(h) = [num : {h.num}, fork : {h.fork}, key : h.rows \union {BlockRow}]
  BY DEF RowsOf
<1>2. PICK b : b = [num |-> h.num, fork |-> h.fork, key |-> BlockRow]
  OBVIOUS
<1>3. b \in RowsOf(h) /\ b.key = BlockRow /\ b.num = h.num
  BY <1>1, <1>2
<1>4. QED
  BY <1>1, <1>3

\* They are rows.
LEMMA RowsOfType == ASSUME NEW h \in Holder PROVE RowsOf(h) \subseteq Row
BY DEF RowsOf, Holder, Row

\* The rows of all blocks of a batch.
LEMMA RowsOfAllType ==
    ASSUME NEW hs \in Seq(Holder) PROVE RowsOfAll(hs) \subseteq Row
<1>1. ASSUME NEW i \in DOMAIN hs PROVE RowsOf(hs[i]) \subseteq Row
  <2>1. hs[i] \in Holder
    BY ElementOfSeq, LenProperties
  <2>2. QED
    BY <2>1, RowsOfType
<1>2. QED
  BY <1>1 DEF RowsOfAll

\* A block of a path is a block that may be held.
LEMMA HeldType ==
    ASSUME NEW p \in Blocks, Len(p) <= StopBlock, NEW n \in 1 .. Len(p)
    PROVE  Held(p, n) \in Holder
<1>1. p[n] \in Block /\ n \in 1 .. StopBlock
  BY PathLength, ElementOfSeq, FromProtoAssumption DEF Blocks
<1>2. QED
  BY <1>1 DEF Held, Holder, Block

\* The rows of the n-th block of a path carry its number and fork.
LEMMA RowsAtShape ==
    ASSUME NEW p, NEW n, NEW r \in RowsAt(p, n)
    PROVE  r.num = n /\ r.fork = p[n].fork
BY RowsOfShape DEF RowsAt, Held

\* The rows of a path are the rows of its blocks.
LEMMA ContentRowsTo == ASSUME NEW p \in Blocks PROVE Content(p) = RowsTo(p, Len(p))
BY PathLength DEF Content, RowsTo, RowsAt

\* Membership in the rows of a path.
LEMMA RowsToIs ==
    ASSUME NEW p, NEW n
    PROVE  \A r : r \in RowsTo(p, n) <=> \E i \in 1 .. n : r \in RowsAt(p, i)
BY DEF RowsTo

\* The rows of a path by number.
LEMMA RowsToByNumber ==
    ASSUME NEW p, NEW n \in Nat, NEW r \in RowsTo(p, n)
    PROVE  /\ r.num \in 1 .. n /\ r \in RowsAt(p, r.num)
           /\ \A m \in Nat : r.num <= m => r \in RowsTo(p, m)
<1>1. PICK i \in 1 .. n : r \in RowsAt(p, i)
  BY RowsToIs
<1>2. r.num = i
  BY <1>1, RowsAtShape
<1>3. ASSUME NEW m \in Nat, i <= m PROVE r \in RowsTo(p, m)
  <2>1. i \in 1 .. m
    BY <1>3
  <2>2. QED
    BY <1>1, <2>1, RowsToIs
<1>4. QED
  BY <1>1, <1>2, <1>3

\* Blocks two paths have in common have the same rows.
LEMMA RowsAgree ==
    ASSUME NEW p, NEW s, NEW n \in Nat, Agree(p, s, n)
    PROVE  /\ \A i \in 1 .. n : RowsAt(p, i) = RowsAt(s, i)
           /\ RowsTo(p, n) = RowsTo(s, n)
<1>1. ASSUME NEW i \in 1 .. n PROVE RowsAt(p, i) = RowsAt(s, i)
  <2>1. p[i] = s[i]
    BY DEF Agree
  <2>2. QED
    BY <2>1 DEF RowsAt, Held
<1>2. QED
  BY <1>1 DEF RowsTo

\* More blocks have more rows.
LEMMA RowsToMore ==
    ASSUME NEW p, NEW n \in Nat, NEW m \in Nat, n <= m
    PROVE  RowsTo(p, n) \subseteq RowsTo(p, m)
<1>1. \A i \in 1 .. n : i \in 1 .. m
  OBVIOUS
<1>2. QED
  BY <1>1 DEF RowsTo

\* A batch without blocks has no rows.
LEMMA NoRowsHeld == RowsOfAll(<<>>) = {}
BY DEF RowsOfAll

-----------------------------------------------------------------------------
(* Sequences of statements.                                                *)

\* No statement, and one.
LEMMA FewStatements ==
    /\ <<>> \in Seq(SUBSET Row) /\ All(<<>>) = {}
    /\ \A a \in SUBSET Row : /\ <<a>> \in Seq(SUBSET Row) /\ <<a>> # <<>>
                             /\ Len(<<a>>) = 1 /\ All(<<a>>) = a
<1>1. <<>> \in Seq(SUBSET Row) /\ All(<<>>) = {}
  BY DEF All
<1>2. ASSUME NEW a \in SUBSET Row
      PROVE <<a>> \in Seq(SUBSET Row) /\ <<a>> # <<>> /\ Len(<<a>>) = 1 /\ All(<<a>>) = a
  <2>1. DOMAIN <<a>> = {1} /\ <<a>>[1] = a
    OBVIOUS
  <2>2. All(<<a>>) = a
    BY <2>1, Zenon DEF All
  <2>3. QED
    BY <2>2
<1>3. QED
  BY <1>1, <1>2

\* The first statement and the rest.
LEMMA NextStatement ==
    ASSUME NEW s \in Seq(SUBSET Row), s # <<>>
    PROVE  /\ Head(s) \subseteq Row /\ Tail(s) \in Seq(SUBSET Row)
           /\ Len(Tail(s)) = Len(s) - 1 /\ Len(s) \in Nat /\ Len(s) > 0
           /\ All(s) = Head(s) \union All(Tail(s))
           /\ Len(s) <= 1 => Tail(s) = <<>>
<1>1. /\ Head(s) \in SUBSET Row /\ Tail(s) \in Seq(SUBSET Row) /\ Len(Tail(s)) = Len(s) - 1
      /\ \A i \in 1 .. Len(Tail(s)) : Tail(s)[i] = s[i + 1]
  BY HeadTailProperties
<1>2. Len(s) \in Nat /\ Len(s) > 0 /\ DOMAIN s = 1 .. Len(s) /\ Head(s) = s[1]
  BY LenProperties, EmptySeq
<1>3. DOMAIN Tail(s) = 1 .. (Len(s) - 1)
  BY <1>1, LenProperties
<1>4. \A r : r \in All(s) <=> \E i \in 1 .. Len(s) : r \in s[i]
  BY <1>2 DEF All
<1>5. \A r : r \in All(Tail(s)) <=> \E i \in 1 .. (Len(s) - 1) : r \in Tail(s)[i]
  BY <1>3 DEF All
<1>6. \A r : r \in All(Tail(s)) <=> \E i \in 2 .. Len(s) : r \in s[i]
  <2>1. ASSUME NEW r, NEW i \in 1 .. (Len(s) - 1), r \in Tail(s)[i]
        PROVE  \E j \in 2 .. Len(s) : r \in s[j]
    <3>1. i + 1 \in 2 .. Len(s) /\ r \in s[i + 1]
      BY <1>1, <1>2, <2>1
    <3>2. QED
      BY <3>1
  <2>2. ASSUME NEW r, NEW j \in 2 .. Len(s), r \in s[j]
        PROVE  \E i \in 1 .. (Len(s) - 1) : r \in Tail(s)[i]
    <3>1. j - 1 \in 1 .. (Len(s) - 1) /\ (j - 1) + 1 = j
      BY <1>2
    <3>2. r \in Tail(s)[j - 1]
      BY <1>1, <2>2, <3>1
    <3>3. QED
      BY <3>1, <3>2
  <2>3. QED
    BY <1>5, <2>1, <2>2
<1>7. \A i : i \in 1 .. Len(s) <=> i = 1 \/ i \in 2 .. Len(s)
  BY <1>2
<1>8. \A r : r \in All(s) <=> r \in Head(s) \/ r \in All(Tail(s))
  BY <1>2, <1>4, <1>6, <1>7
<1>9. Len(s) <= 1 => Tail(s) = <<>>
  BY <1>1, <1>2, EmptySeq
<1>10. QED
  BY <1>1, <1>2, <1>8, <1>9

\* One sequence after another.
LEMMA AllConcat ==
    ASSUME NEW s \in Seq(SUBSET Row), NEW t \in Seq(SUBSET Row)
    PROVE  s \o t \in Seq(SUBSET Row) /\ All(s \o t) = All(s) \union All(t)
<1> DEFINE u == s \o t
<1>1. /\ u \in Seq(SUBSET Row) /\ Len(u) = Len(s) + Len(t)
      /\ \A i \in 1 .. Len(s) + Len(t) : u[i] = IF i <= Len(s) THEN s[i] ELSE t[i - Len(s)]
  BY ConcatProperties
<1>2. /\ Len(s) \in Nat /\ DOMAIN s = 1 .. Len(s) /\ Len(t) \in Nat /\ DOMAIN t = 1 .. Len(t)
      /\ DOMAIN u = 1 .. (Len(s) + Len(t))
  BY <1>1, LenProperties
<1> HIDE DEF u
<1>3. ASSUME NEW r \in All(u) PROVE r \in All(s) \/ r \in All(t)
  <2>1. PICK i \in 1 .. (Len(s) + Len(t)) : r \in u[i]
    BY <1>2, <1>3 DEF All
  <2>2. CASE i <= Len(s)
    <3>1. i \in 1 .. Len(s) /\ r \in s[i]
      BY <1>1, <1>2, <2>1, <2>2
    <3>2. QED
      BY <1>2, <3>1 DEF All
  <2>3. CASE ~ (i <= Len(s))
    <3>1. i - Len(s) \in 1 .. Len(t) /\ r \in t[i - Len(s)]
      BY <1>1, <1>2, <2>1, <2>3
    <3>2. QED
      BY <1>2, <3>1 DEF All
  <2>4. QED
    BY <2>2, <2>3
<1>4. ASSUME NEW r \in All(s) PROVE r \in All(u)
  <2>1. PICK i \in 1 .. Len(s) : r \in s[i]
    BY <1>2, <1>4 DEF All
  <2>2. i \in 1 .. (Len(s) + Len(t)) /\ u[i] = s[i]
    BY <1>1, <1>2, <2>1
  <2>3. QED
    BY <1>2, <2>1, <2>2 DEF All
<1>5. ASSUME NEW r \in All(t) PROVE r \in All(u)
  <2>1. PICK i \in 1 .. Len(t) : r \in t[i]
    BY <1>2, <1>5 DEF All
  <2>2. /\ Len(s) + i \in 1 .. (Len(s) + Len(t)) /\ ~ (Len(s) + i <= Len(s))
        /\ (Len(s) + i) - Len(s) = i
    BY <1>2, <2>1
  <2>3. u[Len(s) + i] = t[i]
    BY <1>1, <2>2
  <2>4. QED
    BY <1>2, <2>1, <2>2, <2>3 DEF All
<1>6. All(u) = All(s) \union All(t)
  BY <1>3, <1>4, <1>5
<1>7. QED
  BY <1>1, <1>6 DEF u

\* A sequence of the elements of a finite set of statements.
LEMMA AllOfSet ==
    ASSUME NEW S \in SUBSET SUBSET Row, IsFiniteSet(S)
    PROVE  SetToSeq(S) \in Seq(SUBSET Row) /\ All(SetToSeq(S)) = UNION S
<1> DEFINE n == Cardinality(S)
           f == SetToSeq(S)
<1>1. n \in Nat /\ ExistsBijection(1 .. n, S)
  BY FS_CardinalityType
<1>2. \E g \in [1 .. n -> S] : IsInjective(g)
  BY <1>1 DEF ExistsBijection, Bijection, Injection
<1>3. f \in [1 .. n -> S] /\ IsInjective(f)
  BY <1>2 DEF SetToSeq
<1>4. f \in Injection(1 .. n, S) /\ Cardinality(1 .. n) = n
  <2>1. Cardinality(1 .. n) = IF 1 > n THEN 0 ELSE n - 1 + 1
    BY <1>1, FS_Interval
  <2>2. f \in Injection(1 .. n, S)
    BY <1>3 DEF Injection
  <2>3. Cardinality(1 .. n) = n
    BY <1>1, <2>1
  <2>4. QED
    BY <2>2, <2>3
<1>5. f \in Surjection(1 .. n, S)
  BY <1>4, FS_Injection
<1> HIDE DEF f, n
<1>6. \A a \in S : \E i \in 1 .. n : f[i] = a
  BY <1>5 DEF Surjection
<1>7. DOMAIN f = 1 .. n /\ \A i \in 1 .. n : f[i] \in S
  BY <1>3
<1>8. All(f) = UNION S
  BY <1>6, <1>7 DEF All
<1>9. f \in Seq(SUBSET Row)
  BY <1>1, <1>3, IsASeq
<1>10. QED
  BY <1>8, <1>9 DEF f

\* The statements of one block row by row.
LEMMA OneByOne ==
    ASSUME NEW h \in Holder
    PROVE  LET new == RowsOf(h)
               T == {{r} : r \in new \ InBlocks(new)}
           IN  /\ SetToSeq(T) \in Seq(SUBSET Row)
               /\ All(SetToSeq(T)) = new \ InBlocks(new)
<1> DEFINE new == RowsOf(h)
           T == {{r} : r \in new \ InBlocks(new)}
<1>1. new \subseteq Row
  BY RowsOfType
<1>2. T \in SUBSET SUBSET Row
  BY <1>1
<1>3. IsFiniteSet(T)
  <2>1. CASE h.rows = {}
    <3>1. T = {}
      BY <2>1 DEF RowsOf
    <3>2. QED
      BY <3>1, FS_EmptySet
  <2>2. CASE h.rows # {}
    <3> DEFINE row(k) == [num |-> h.num, fork |-> h.fork, key |-> k]
               g == [k \in h.rows |-> {row(k)}]
    <3>1. h.rows \subseteq Entity /\ BlockRow \notin h.rows /\ IsFiniteSet(h.rows)
      BY FromProtoAssumption, FS_Subset DEF Holder
    <3>2. new = [num : {h.num}, fork : {h.fork}, key : h.rows \union {BlockRow}]
      BY <2>2 DEF RowsOf
    <3>3. ASSUME NEW k \in h.rows PROVE row(k) \in new \ InBlocks(new)
      BY <3>1, <3>2 DEF InBlocks
    <3>4. ASSUME NEW r \in new \ InBlocks(new) PROVE r.key \in h.rows /\ r = row(r.key)
      BY <3>1, <3>2 DEF InBlocks
    <3>5. g \in [h.rows -> T]
      BY <3>3
    <3>6. ASSUME NEW t \in T PROVE \E k \in h.rows : g[k] = t
      <4>1. PICK r \in new \ InBlocks(new) : t = {r}
        OBVIOUS
      <4>2. r.key \in h.rows /\ r = row(r.key)
        BY <3>4
      <4>3. g[r.key] = {row(r.key)}
        BY <4>2
      <4>4. QED
        BY <4>1, <4>2, <4>3
    <3>7. g \in Surjection(h.rows, T)
      BY <3>5, <3>6 DEF Surjection
    <3>8. QED
      BY <3>1, <3>7, FS_Surjection
  <2>3. QED
    BY <2>1, <2>2
<1>4. UNION T = new \ InBlocks(new)
  OBVIOUS
<1>5. QED
  BY <1>2, <1>3, <1>4, AllOfSet

\* One step of the recursion of RowByRow, from f
RowStep(hs, f, i) ==
    IF i = 0 THEN <<>>
    ELSE LET new == RowsOf(hs[i])
         IN  f[i - 1] \o <<InBlocks(new)>> \o SetToSeq({{r} : r \in new \ InBlocks(new)})

\* Its recursive function
RowsUpTo(hs) ==
    LET rowsTo[n \in 0 .. Len(hs)] ==
            IF n = 0 THEN <<>>
            ELSE LET new == RowsOf(hs[n])
                 IN  rowsTo[n - 1] \o <<InBlocks(new)>>
                       \o SetToSeq({{r} : r \in new \ InBlocks(new)})
    IN  rowsTo

\* The recursion has a solution.
LEMMA RowsUpToExists ==
    ASSUME NEW hs, NEW n \in Nat
    PROVE  \E f : f = [i \in 0 .. n |-> RowStep(hs, f, i)]
<1> DEFINE Fails == {m \in Nat : ~ \E f : f = [i \in 0 .. m |-> RowStep(hs, f, i)]}
<1>1. ASSUME Fails # {} PROVE FALSE
  <2>1. PICK m \in Fails : \A y \in Fails : m <= y
    BY <1>1, LeastNumber
  <2>2. CASE m = 0
    <3> DEFINE f == [i \in 0 .. 0 |-> <<>>]
    <3>1. ASSUME NEW i \in 0 .. 0 PROVE RowStep(hs, f, i) = <<>>
      BY DEF RowStep
    <3>2. f = [i \in 0 .. 0 |-> RowStep(hs, f, i)]
      BY <3>1
    <3>3. QED
      BY <2>1, <2>2, <3>2
  <2>3. CASE m # 0
    <3>1. m - 1 \in Nat /\ ~ (m <= m - 1) /\ 0 .. m = (0 .. (m - 1)) \union {m}
      BY <2>1, <2>3
    <3>2. m - 1 \notin Fails
      BY <2>1, <3>1
    <3>3. PICK f : f = [i \in 0 .. (m - 1) |-> RowStep(hs, f, i)]
      BY <3>1, <3>2
    <3> DEFINE g == [i \in 0 .. m |-> IF i = m THEN RowStep(hs, f, m) ELSE f[i]]
    <3>4. ASSUME NEW i \in 0 .. m PROVE g[i] = RowStep(hs, g, i)
      <4>1. i # 0 => i - 1 \in 0 .. (m - 1) /\ i - 1 \in 0 .. m /\ i - 1 # m
        BY <2>1
      <4>2. i # 0 => g[i - 1] = f[i - 1]
        BY <4>1
      <4>3. RowStep(hs, g, i) = RowStep(hs, f, i)
        <5> HIDE DEF g
        <5>1. QED
          BY <4>2 DEF RowStep
      <4>4. i # m => f[i] = RowStep(hs, f, i)
        <5>1. i # m => i \in 0 .. (m - 1)
          BY <2>1
        <5>2. QED
          BY <3>3, <5>1
      <4>5. QED
        BY <4>3, <4>4
    <3>5. g = [i \in 0 .. m |-> RowStep(hs, g, i)]
      BY <3>4
    <3>6. QED
      BY <2>1, <3>5
  <2>4. QED
    BY <2>2, <2>3
<1>2. QED
  BY <1>1

\* The recursion, unfolded once.
LEMMA RowsUpToUnfolds ==
    ASSUME NEW hs, Len(hs) \in Nat
    PROVE  /\ \A i \in 0 .. Len(hs) : RowsUpTo(hs)[i] = RowStep(hs, RowsUpTo(hs), i)
           /\ RowByRow(hs) = RowsUpTo(hs)[Len(hs)]
<1>1. RowsUpTo(hs) = CHOOSE f : f = [i \in 0 .. Len(hs) |-> RowStep(hs, f, i)]
  BY DEF RowsUpTo, RowStep
<1>2. RowsUpTo(hs) = [i \in 0 .. Len(hs) |-> RowStep(hs, RowsUpTo(hs), i)]
  BY <1>1, RowsUpToExists
<1>3. RowByRow(hs) = RowsUpTo(hs)[Len(hs)]
  BY DEF RowByRow, RowsUpTo
<1>4. QED
  BY <1>2, <1>3

\* The RowInserter inserts the rows of the blocks, no more and no less.
LEMMA RowByRowInserts ==
    ASSUME NEW hs \in Seq(Holder)
    PROVE  RowByRow(hs) \in Seq(SUBSET Row) /\ All(RowByRow(hs)) = RowsOfAll(hs)
<1> DEFINE To(n) == UNION {RowsOf(hs[i]) : i \in 1 .. n}
           Good(n) == RowsUpTo(hs)[n] \in Seq(SUBSET Row) /\ All(RowsUpTo(hs)[n]) = To(n)
           Fails == {m \in Nat : m <= Len(hs) /\ ~ Good(m)}
<1>1. Len(hs) \in Nat /\ DOMAIN hs = 1 .. Len(hs)
  BY LenProperties
<1>2. ASSUME Fails # {} PROVE FALSE
  <2>1. PICK m \in Fails : \A y \in Fails : m <= y
    BY <1>2, LeastNumber
  <2>2. RowsUpTo(hs)[m] = RowStep(hs, RowsUpTo(hs), m)
    <3>1. m \in 0 .. Len(hs)
      BY <1>1, <2>1
    <3>2. QED
      BY <1>1, <3>1, RowsUpToUnfolds
  <2>3. CASE m = 0
    <3>1. RowsUpTo(hs)[m] = <<>>
      BY <2>2, <2>3 DEF RowStep
    <3>2. To(m) = {}
      BY <2>3
    <3>3. Good(m)
      BY <3>1, <3>2, FewStatements
    <3>4. QED
      BY <2>1, <3>3
  <2>4. CASE m # 0
    <3>1. m - 1 \in Nat /\ m - 1 <= Len(hs) /\ ~ (m <= m - 1) /\ m \in 1 .. Len(hs)
      BY <1>1, <2>1, <2>4
    <3>2. Good(m - 1)
      BY <2>1, <3>1
    <3> DEFINE new == RowsOf(hs[m])
               T == {{r} : r \in new \ InBlocks(new)}
    <3>3. hs[m] \in Holder
      BY <3>1, ElementOfSeq
    <3>4. SetToSeq(T) \in Seq(SUBSET Row) /\ All(SetToSeq(T)) = new \ InBlocks(new)
      BY <3>3, OneByOne
    <3>5. <<InBlocks(new)>> \in Seq(SUBSET Row) /\ All(<<InBlocks(new)>>) = InBlocks(new)
      <4>1. InBlocks(new) \in SUBSET Row
        BY <3>3, RowsOfType DEF InBlocks
      <4>2. QED
        BY <4>1, FewStatements
    <3>6. RowsUpTo(hs)[m] = RowsUpTo(hs)[m - 1] \o <<InBlocks(new)>> \o SetToSeq(T)
      BY <2>2, <2>4 DEF RowStep
    <3>7. /\ RowsUpTo(hs)[m - 1] \o <<InBlocks(new)>> \in Seq(SUBSET Row)
          /\ All(RowsUpTo(hs)[m - 1] \o <<InBlocks(new)>>) = To(m - 1) \union InBlocks(new)
      BY <3>2, <3>5, AllConcat
    <3>8. /\ RowsUpTo(hs)[m] \in Seq(SUBSET Row)
          /\ All(RowsUpTo(hs)[m]) = (To(m - 1) \union InBlocks(new)) \union (new \ InBlocks(new))
      <4>1. PICK a, b : a = RowsUpTo(hs)[m - 1] \o <<InBlocks(new)>> /\ b = SetToSeq(T)
        OBVIOUS
      <4>2. RowsUpTo(hs)[m] = a \o b
        BY <3>6, <4>1
      <4>3. /\ a \in Seq(SUBSET Row) /\ b \in Seq(SUBSET Row)
            /\ All(a) = To(m - 1) \union InBlocks(new) /\ All(b) = new \ InBlocks(new)
        BY <3>4, <3>7, <4>1
      <4> HIDE DEF To, new
      <4>4. QED
        BY <4>2, <4>3, AllConcat
    <3>9. To(m) = To(m - 1) \union new
      <4>1. \A i : i \in 1 .. m <=> i \in 1 .. (m - 1) \/ i = m
        BY <3>1
      <4>2. QED
        BY <4>1
    <3>10. InBlocks(new) \subseteq new
      BY DEF InBlocks
    <3>11. All(RowsUpTo(hs)[m]) = To(m)
      <4> HIDE DEF To, new
      <4>1. QED
        BY <3>8, <3>9, <3>10
    <3>12. QED
      BY <2>1, <3>8, <3>11
  <2>5. QED
    BY <2>3, <2>4
<1>3. Good(Len(hs))
  <2>1. Len(hs) \notin Fails /\ Len(hs) <= Len(hs)
    BY <1>1, <1>2
  <2>2. QED
    BY <1>1, <2>1
<1>4. To(Len(hs)) = RowsOfAll(hs)
  BY <1>1 DEF RowsOfAll
<1>5. QED
  BY <1>1, <1>3, <1>4, RowsUpToUnfolds

\* The sequences of all elements of a finite set.
LEMMA AllOrders ==
    ASSUME NEW S, IsFiniteSet(S), NEW o \in SetToSeqs(S)
    PROVE  /\ o \in Seq(S) /\ Len(o) \in Nat /\ DOMAIN o = 1 .. Len(o)
           /\ \A t \in S : \E i \in 1 .. Len(o) : o[i] = t
<1> DEFINE n == Cardinality(S)
<1>1. n \in Nat
  BY FS_CardinalityType
<1>2. o \in [1 .. n -> S] /\ \A i, j \in 1 .. n : i # j => o[i] # o[j]
  BY DEF SetToSeqs
<1>3. o \in Injection(1 .. n, S) /\ Cardinality(1 .. n) = n
  <2>1. Cardinality(1 .. n) = IF 1 > n THEN 0 ELSE n - 1 + 1
    BY <1>1, FS_Interval
  <2>2. IsInjective(o)
    BY <1>2 DEF IsInjective
  <2>3. o \in Injection(1 .. n, S)
    BY <1>2, <2>2 DEF Injection
  <2>4. Cardinality(1 .. n) = n
    BY <1>1, <2>1
  <2>5. QED
    BY <2>3, <2>4
<1>4. o \in Surjection(1 .. n, S)
  BY <1>3, FS_Injection
<1> HIDE DEF n
<1>5. o \in Seq(S) /\ DOMAIN o = 1 .. n
  BY <1>1, <1>2, IsASeq
<1>6. Len(o) = n
  BY <1>1, <1>5, LenProperties
<1>7. QED
  BY <1>1, <1>4, <1>5, <1>6 DEF Surjection

\* There are finitely many tables; each row is in one of them or in _blocks_.
LEMMA TablesKnown ==
    ASSUME config \in Config
    PROVE  /\ IsFiniteSet(Tables) /\ Tables \subseteq UserTable /\ BlockRow \notin UserTable
           /\ \A r \in Row : TableOf(r) = BlockRow \/ TableOf(r) \in Tables
<1>1. config.table \in [Entity -> UserTable]
  BY DEF Config
<1>2. IsFiniteSet(Entity) /\ BlockRow \notin UserTable
  BY FromProtoAssumption
<1>3. config.table \in Surjection(Entity, Tables)
  BY <1>1 DEF Surjection, Tables
<1>4. IsFiniteSet(Tables)
  BY <1>2, <1>3, FS_Surjection
<1>5. ASSUME NEW r \in Row PROVE TableOf(r) = BlockRow \/ TableOf(r) \in Tables
  <2>1. r.key \in Entity \union {BlockRow}
    BY DEF Row
  <2>2. QED
    BY <2>1 DEF TableOf, Tables
<1>6. Tables \subseteq UserTable
  BY <1>1 DEF Tables
<1>7. QED
  BY <1>2, <1>4, <1>5, <1>6

\* The statements for a sequence of all tables of some rows are about those rows.
LEMMA TableByTable ==
    ASSUME NEW rows \in SUBSET Row, NEW n \in Nat, NEW o, DOMAIN o = 1 .. n,
           \A r \in rows : \E i \in 1 .. n : o[i] = TableOf(r)
    PROVE  /\ ByTable(o, rows) \in Seq(SUBSET Row) /\ Len(ByTable(o, rows)) = n
           /\ All(ByTable(o, rows)) = rows
<1> DEFINE b == ByTable(o, rows)
<1>1. /\ DOMAIN b = 1 .. n /\ b \in [1 .. n -> SUBSET Row]
      /\ \A i \in 1 .. n : b[i] = {r \in rows : TableOf(r) = o[i]}
  BY DEF ByTable
<1> HIDE DEF b
<1>2. b \in Seq(SUBSET Row)
  BY <1>1, IsASeq
<1>3. Len(b) = n
  BY <1>1, <1>2, LenProperties
<1>4. \A r : r \in All(b) <=> r \in rows
  BY <1>1 DEF All
<1>5. QED
  BY <1>2, <1>3, <1>4 DEF b

\* All tables, _blocks_ first.
LEMMA BlocksFirst ==
    ASSUME config \in Config, NEW o \in Seq(Tables),
           \A t \in Tables : \E i \in 1 .. Len(o) : o[i] = t,
           NEW rows \in SUBSET Row
    PROVE  /\ ByTable(<<BlockRow>> \o o, rows) \in Seq(SUBSET Row)
           /\ ByTable(<<BlockRow>> \o o, rows) # <<>>
           /\ All(ByTable(<<BlockRow>> \o o, rows)) = rows
<1>1. PICK b, T : b = <<BlockRow>> /\ T = Tables \union {BlockRow}
  OBVIOUS
<1>2. b \in Seq(T) /\ Len(b) = 1 /\ b[1] = BlockRow
  BY <1>1
<1>3. Len(o) \in Nat /\ o \in Seq(T)
  <2>1. DOMAIN o = 1 .. Len(o) /\ o \in [1 .. Len(o) -> Tables] /\ Len(o) \in Nat
    BY LenProperties
  <2>2. o \in [1 .. Len(o) -> T]
    BY <1>1, <2>1
  <2>3. QED
    BY <2>1, <2>2, IsASeq
<1>4. PICK u : u = b \o o
  OBVIOUS
<1>5. /\ u \in Seq(T) /\ Len(u) = 1 + Len(o)
      /\ \A i \in 1 .. (1 + Len(o)) : u[i] = IF i <= 1 THEN b[i] ELSE o[i - 1]
  <2>1. /\ b \o o \in Seq(T) /\ Len(b \o o) = Len(b) + Len(o)
        /\ \A i \in 1 .. Len(b) + Len(o) :
              (b \o o)[i] = IF i <= Len(b) THEN b[i] ELSE o[i - Len(b)]
    BY <1>2, <1>3, ConcatProperties
  <2>2. QED
    BY <1>2, <1>4, <2>1
<1>6. DOMAIN u = 1 .. (1 + Len(o))
  BY <1>5, LenProperties
<1>7. ASSUME NEW t \in T PROVE \E i \in 1 .. (1 + Len(o)) : u[i] = t
  <2>1. CASE t = BlockRow
    <3>1. 1 \in 1 .. (1 + Len(o)) /\ u[1] = BlockRow
      BY <1>2, <1>3, <1>5
    <3>2. QED
      BY <2>1, <3>1
  <2>2. CASE t \in Tables
    <3>1. PICK i \in 1 .. Len(o) : o[i] = t
      BY <2>2
    <3>2. i + 1 \in 1 .. (1 + Len(o)) /\ ~ (i + 1 <= 1) /\ (i + 1) - 1 = i
      BY <1>3
    <3>3. u[i + 1] = t
      BY <1>5, <3>1, <3>2
    <3>4. QED
      BY <3>2, <3>3
  <2>3. QED
    BY <1>1, <2>1, <2>2
<1>8. \A r \in rows : \E i \in 1 .. (1 + Len(o)) : u[i] = TableOf(r)
  <2>1. \A r \in rows : TableOf(r) \in T
    BY <1>1, TablesKnown
  <2>2. QED
    BY <1>7, <2>1
<1>9. /\ ByTable(u, rows) \in Seq(SUBSET Row) /\ Len(ByTable(u, rows)) = 1 + Len(o)
      /\ All(ByTable(u, rows)) = rows
  <2>1. 1 + Len(o) \in Nat
    BY <1>3
  <2>2. QED
    BY <1>6, <1>8, <2>1, TableByTable
<1>10. ByTable(u, rows) # <<>>
  BY <1>3, <1>9, EmptySeq
<1>11. QED
  BY <1>1, <1>4, <1>9, <1>10

\* All tables by ordinal, and the other way round.
LEMMA TablesInOrder ==
    ASSUME config \in Config, NEW o \in ByOrdinal
    PROVE  /\ o \in Seq(Tables) /\ \A t \in Tables : \E i \in 1 .. Len(o) : o[i] = t
           /\ Reverse(o) \in Seq(Tables)
           /\ \A t \in Tables : \E i \in 1 .. Len(Reverse(o)) : Reverse(o)[i] = t
<1>1. o \in SetToSeqs(Tables) /\ IsFiniteSet(Tables)
  BY TablesKnown DEF ByOrdinal
<1>2. /\ o \in Seq(Tables) /\ Len(o) \in Nat /\ DOMAIN o = 1 .. Len(o)
      /\ \A t \in Tables : \E i \in 1 .. Len(o) : o[i] = t
  BY <1>1, AllOrders
<1>3. PICK v : v = Reverse(o)
  OBVIOUS
<1>4. \A i \in 1 .. Len(o) : (Len(o) - i) + 1 \in 1 .. Len(o) /\ o[i] \in Tables
  BY <1>2, ElementOfSeq
<1>5. /\ v \in [1 .. Len(o) -> Tables]
      /\ \A i \in 1 .. Len(o) : v[i] = o[(Len(o) - i) + 1]
  BY <1>3, <1>4 DEF Reverse
<1>6. v \in Seq(Tables) /\ Len(v) = Len(o)
  <2>1. PICK n : n = Len(o)
    OBVIOUS
  <2>2. n \in Nat /\ v \in [1 .. n -> Tables] /\ DOMAIN v = 1 .. n
    BY <1>2, <1>5, <2>1
  <2>3. v \in Seq(Tables)
    BY <2>2, IsASeq
  <2>4. Len(v) = n
    BY <2>2, <2>3, LenProperties
  <2>5. QED
    BY <2>1, <2>3, <2>4
<1>7. ASSUME NEW t \in Tables PROVE \E i \in 1 .. Len(v) : v[i] = t
  <2>1. PICK i \in 1 .. Len(o) : o[i] = t
    BY <1>2
  <2>2. PICK j : j = (Len(o) - i) + 1
    OBVIOUS
  <2>3. j \in 1 .. Len(o) /\ (Len(o) - j) + 1 = i
    BY <1>2, <2>2
  <2>4. v[j] = t
    BY <1>5, <2>1, <2>3
  <2>5. QED
    BY <1>6, <2>3, <2>4
<1>8. QED
  BY <1>2, <1>3, <1>6, <1>7

\* The statements of a flush insert the rows of the blocks, no more and no less; in
\* PostgreSQL they are one transaction.
LEMMA StatementsInsert ==
    ASSUME config \in Config, NEW hs \in Seq(Holder), NEW s \in Statements(hs)
    PROVE  /\ s \in Seq(SUBSET Row) /\ All(s) = RowsOfAll(hs)
           /\ Driver = "postgres" => Len(s) <= 1
<1> DEFINE all == RowsOfAll(hs)
<1>1. all \in SUBSET Row
  BY RowsOfAllType
<1>2. Driver \in {"postgres", "risingwave", "clickhouse"} /\ UseConstraints \in BOOLEAN
  BY DEF Config, Driver, UseConstraints
<1>3. CASE Driver = "postgres"
  <2>1. s = <<all>>
    BY <1>3 DEF Statements
  <2>2. QED
    BY <1>1, <2>1, FewStatements
<1>4. CASE Driver = "clickhouse"
  <2>1. PICK o \in ByOrdinal : s = ByTable(<<BlockRow>> \o o, all)
    BY <1>4 DEF Statements
  <2>2. o \in Seq(Tables) /\ \A t \in Tables : \E i \in 1 .. Len(o) : o[i] = t
    BY TablesInOrder
  <2> HIDE DEF all
  <2>3. s \in Seq(SUBSET Row) /\ All(s) = all
    BY <1>1, <2>1, <2>2, BlocksFirst
  <2>4. QED
    BY <1>4, <2>3 DEF all
<1>5. CASE Driver = "risingwave" /\ UseConstraints
  <2>1. s = RowByRow(hs)
    BY <1>5 DEF Statements
  <2>2. QED
    BY <1>5, <2>1, RowByRowInserts
<1>6. CASE Driver = "risingwave" /\ ~ UseConstraints
  <2> DEFINE S == {TableOf(r) : r \in all}
  <2>1. PICK o \in SetToSeqs(S) : s = ByTable(o, all)
    BY <1>6 DEF Statements
  <2>2. IsFiniteSet(S)
    <3>1. S \subseteq Tables \union {BlockRow}
      BY <1>1, TablesKnown
    <3>2. IsFiniteSet(Tables \union {BlockRow})
      BY TablesKnown, FS_AddElement
    <3> HIDE DEF S
    <3>3. QED
      BY <3>1, <3>2, FS_Subset
  <2>3. \A r \in all : TableOf(r) \in S
    OBVIOUS
  <2> HIDE DEF S, all
  <2>4. /\ Len(o) \in Nat /\ DOMAIN o = 1 .. Len(o)
        /\ \A t \in S : \E i \in 1 .. Len(o) : o[i] = t
    BY <2>2, AllOrders
  <2>5. \A r \in all : \E i \in 1 .. Len(o) : o[i] = TableOf(r)
    BY <2>3, <2>4
  <2>6. s \in Seq(SUBSET Row) /\ All(s) = all
    BY <1>1, <2>1, <2>4, <2>5, TableByTable
  <2>7. QED
    BY <1>6, <2>6 DEF all
<1>7. QED
  BY <1>2, <1>3, <1>4, <1>5, <1>6

\* An undo is to remove rows above the last valid block, and all of those Run looks at.
LEMMA UndoRemoves ==
    ASSUME config \in Config, tables \subseteq Row, NEW n, NEW s \in UndoStatements(n)
    PROVE  /\ s \in Seq(SUBSET Row) /\ s # <<>>
           /\ \A r \in All(s) : r \in tables /\ r.num > n
           /\ \A r \in Removed : r.num > n => r \in All(s)
           /\ Driver = "postgres" => Len(s) <= 1
<1> DEFINE above == {r \in tables : r.num > n}
<1>1. above \in SUBSET Row /\ InBlocks(above) \in SUBSET Row
  BY DEF InBlocks
<1>2. Driver \in {"postgres", "risingwave", "clickhouse"} /\ UseConstraints \in BOOLEAN
  BY DEF Config, Driver, UseConstraints
<1>3. \A r \in above : r \in tables /\ r.num > n
  OBVIOUS
<1>4. \A r \in InBlocks(above) : r \in above
  BY DEF InBlocks
<1>5. \A r \in InBlocks(tables) : r.num > n => r \in InBlocks(above)
  BY DEF InBlocks
<1>6. \A r \in tables : r.num > n => r \in above
  OBVIOUS
<1>7. CASE Driver = "postgres" /\ UseConstraints
  <2>1. s = <<above>>
    BY <1>7 DEF UndoStatements
  <2>2. Removed = tables
    BY <1>7 DEF Removed
  <2> HIDE DEF above
  <2>3. s \in Seq(SUBSET Row) /\ s # <<>> /\ Len(s) = 1 /\ All(s) = above
    BY <1>1, <2>1, FewStatements
  <2>4. QED
    BY <1>3, <1>6, <2>2, <2>3
<1>8. CASE Driver \in {"postgres", "risingwave"} /\ ~ (Driver = "postgres" /\ UseConstraints)
  <2>1. s = <<InBlocks(above)>>
    BY <1>8 DEF UndoStatements
  <2>2. Removed = InBlocks(tables)
    BY <1>8 DEF Removed
  <2> HIDE DEF above
  <2>3. s \in Seq(SUBSET Row) /\ s # <<>> /\ Len(s) = 1 /\ All(s) = InBlocks(above)
    BY <1>1, <2>1, FewStatements
  <2>4. QED
    BY <1>3, <1>4, <1>5, <2>2, <2>3
<1>9. CASE Driver = "clickhouse"
  <2>1. PICK o \in ByOrdinal : s = ByTable(<<BlockRow>> \o Reverse(o), above)
    BY <1>9 DEF UndoStatements
  <2>2. Removed = tables
    BY <1>9 DEF Removed
  <2>3. PICK v : v = Reverse(o)
    OBVIOUS
  <2>4. v \in Seq(Tables) /\ \A t \in Tables : \E i \in 1 .. Len(v) : v[i] = t
    BY <2>3, TablesInOrder
  <2> HIDE DEF above
  <2>5. s \in Seq(SUBSET Row) /\ s # <<>> /\ All(s) = above
    BY <1>1, <2>1, <2>3, <2>4, BlocksFirst
  <2>6. QED
    BY <1>3, <1>6, <1>9, <2>2, <2>5
<1>10. QED
  BY <1>2, <1>7, <1>8, <1>9

\* Tombstones that fit hide their rows.
LEMMA HiddenFits ==
    ASSUME config \in Config, TombstonesFit, NEW rows \in SUBSET Row, NEW gone \in Hidden(rows)
    PROVE  gone = rows
<1>1. ASSUME Driver = "clickhouse", NEW r \in rows PROVE TableOf(r) \notin Shifted
  <2>1. r.key \in Entity \union {BlockRow} /\ BlockRow \notin Shifted
    BY FromProtoAssumption DEF Row
  <2>2. \A e \in Entity : config.table[e] \notin Shifted
    BY <1>1 DEF TombstonesFit
  <2>3. QED
    BY <2>1, <2>2 DEF TableOf
<1>2. QED
  BY <1>1 DEF Hidden

-----------------------------------------------------------------------------
(* Rows that replace each other.                                           *)

\* Rows with the same key.
LEMMA SameKeyIs ==
    /\ \A r : SameKey(r, r)
    /\ \A p, q, r : SameKey(p, q) /\ SameKey(q, r) => SameKey(p, r)
    /\ \A p, q : SameKey(p, q) => p.num = q.num
BY DEF SameKey

\* Of the rows inserted with one key, one stays.
LEMMA OneStays ==
    ASSUME NEW rows \in SUBSET Row, NEW q \in rows
    PROVE  Latest(q, rows) \in rows /\ SameKey(Latest(q, rows), q)
<1> DEFINE Same == {r \in rows : SameKey(r, q)}
           Ages == {MaxReorgs - r.fork : r \in Same}
<1>1. \A r \in rows : r.fork \in Nat /\ MaxReorgs - r.fork \in Nat
  BY FromProtoAssumption DEF Row
<1>2. MaxReorgs \in Nat /\ q \in Same
  BY FromProtoAssumption, SameKeyIs
<1>3. Ages \subseteq Nat /\ Ages # {}
  BY <1>1, <1>2
<1>4. PICK a \in Ages : \A b \in Ages : a <= b
  BY <1>3, LeastNumber
<1>5. PICK r \in Same : a = MaxReorgs - r.fork
  BY <1>4
<1>6. ASSUME NEW p \in rows, SameKey(p, q) PROVE p.fork <= r.fork
  <2>1. MaxReorgs - r.fork <= MaxReorgs - p.fork
    BY <1>4, <1>5, <1>6
  <2>2. QED
    BY <1>1, <1>2, <1>5, <2>1
<1>7. \E l \in rows : SameKey(l, q) /\ \A p \in rows : SameKey(p, q) => p.fork <= l.fork
  BY <1>5, <1>6
<1>8. QED
  BY <1>7 DEF Latest

\* An INSERT adds no other rows.
LEMMA InsertAdds ==
    ASSUME NEW rows \in SUBSET Row PROVE WithInserted(rows) \subseteq tables \union rows
BY OneStays DEF WithInserted

\* What stays represented when the rows of its block stay.
LEMMA StillRepresented ==
    ASSUME config' = config, NEW r \in Represented, \A q \in tables : q.num = r.num => q \in tables'
    PROVE  r \in Represented'
<1>1. PICK q \in tables : q.num = r.num /\ q.fork = r.fork /\ SameKey(q, r) /\ r \in Row
  BY DEF Represented
<1>2. q \in tables' /\ SameKey(q, r)'
  BY <1>1 DEF SameKey, TableOf, Driver
<1>3. QED
  BY <1>1, <1>2 DEF Represented

\* A table that stays or grows represents what it did.
LEMMA ConfigKept ==
    ASSUME config' = config
    PROVE  /\ TombstonesFit' <=> TombstonesFit
           /\ tables' = tables => Represented' = Represented
           /\ tables \subseteq tables' => Represented \subseteq Represented'
<1>1. TombstonesFit' <=> TombstonesFit
  BY DEF TombstonesFit, Driver
<1>2. tables \subseteq tables' => Represented \subseteq Represented'
  BY StillRepresented
<1>3. ASSUME tables' = tables, NEW r \in Represented' PROVE r \in Represented
  <2>1. PICK q \in tables' : q.num = r.num /\ q.fork = r.fork /\ SameKey(q, r)' /\ r \in Row
    BY <1>3 DEF Represented
  <2>2. q \in tables /\ SameKey(q, r)
    BY <1>3, <2>1 DEF SameKey, TableOf, Driver
  <2>3. QED
    BY <2>1, <2>2 DEF Represented
<1>4. QED
  BY <1>1, <1>2, <1>3

\* Rows in the tables are represented; on PostgreSQL they are the only ones.
LEMMA TablesRepresented ==
    ASSUME tables \subseteq Row
    PROVE  tables \subseteq Represented /\ (Driver = "postgres" => Represented = tables)
<1>1. \A r \in tables : r \in Represented
  BY SameKeyIs DEF Represented
<1>2. ASSUME Driver = "postgres", NEW r \in Represented PROVE r \in tables
  BY <1>2 DEF Represented, SameKey
<1>3. QED
  BY <1>1, <1>2

\* So they are after a step.
LEMMA TablesGrownRepresented == ASSUME tables' \subseteq Row PROVE tables' \subseteq Represented'
BY DEF Represented, SameKey

\* A row that is inserted, or was represented, is represented after the INSERT, when the
\* rows inserted of its block number are of its fork.
LEMMA InsertRepresents ==
    ASSUME config' = config, NEW rows \in SUBSET Row, tables' = WithInserted(rows),
           NEW r \in Row, r \in Represented \/ r \in rows,
           \A q \in rows : q.num = r.num => q.fork = r.fork
    PROVE  r \in Represented'
<1>1. ASSUME NEW p \in rows, SameKey(p, r) PROVE r \in Represented'
  <2>1. PICK l : l = Latest(p, rows)
    OBVIOUS
  <2>2. l \in rows /\ SameKey(l, p)
    BY <2>1, OneStays
  <2>3. SameKey(l, r) /\ l.num = r.num /\ l.fork = r.fork
    BY <1>1, <2>2, SameKeyIs
  <2>4. l \in tables' /\ SameKey(l, r)'
    BY <2>1, <2>3 DEF WithInserted, SameKey, TableOf, Driver
  <2>5. QED
    BY <2>3, <2>4 DEF Represented
<1>2. CASE r \in rows
  BY <1>1, <1>2, SameKeyIs
<1>3. CASE r \in Represented
  <2>1. PICK q \in tables : q.num = r.num /\ q.fork = r.fork /\ SameKey(q, r)
    BY <1>3 DEF Represented
  <2>2. CASE \E p \in rows : SameKey(p, q)
    <3>1. PICK p \in rows : SameKey(p, q)
      BY <2>2
    <3>2. SameKey(p, r)
      BY <2>1, <3>1, SameKeyIs
    <3>3. QED
      BY <1>1, <3>2
  <2>3. CASE ~ \E p \in rows : SameKey(p, q)
    <3>1. q \in tables'
      BY <2>1, <2>3 DEF WithInserted
    <3>2. SameKey(q, r)'
      BY <2>1 DEF SameKey, TableOf, Driver
    <3>3. QED
      BY <2>1, <3>1, <3>2 DEF Represented
  <2>4. QED
    BY <2>2, <2>3
<1>4. QED
  BY <1>2, <1>3

-----------------------------------------------------------------------------
(* The inductive invariant.                                                *)

Typed ==
    /\ config \in Configs
    /\ chain \in Blocks /\ Len(chain) <= StopBlock
    /\ lib \in Nat /\ lib <= Len(chain)
    /\ reorgs \in Nat /\ reorgs <= config.reorgs
    /\ phase \in {"down", "cleaning", "idle", "flushing", "flushed", "undoing", "undone"}
    /\ pos \in Blocks /\ Len(pos) <= StopBlock
    /\ holding \in Seq(Holder)
    /\ lastApplied \in 0 .. StopBlock
    /\ stmts \in Seq(SUBSET Row)
    /\ tables \subseteq Row
    /\ cursor = NoCursor \/ cursor \in Blocks
    /\ Len(StoredPath) <= StopBlock
    /\ faults \in 0 .. config.faults

\* A block that is not on the chain is of a fork older than what may be added to it
Stale(p) ==
    \A n \in 1 .. Len(p) : p[n].fork <= reorgs /\ (n > Len(chain) => p[n].fork < reorgs)

PathsPlace ==
    /\ \A n \in 1 .. Len(chain) : chain[n].fork <= reorgs
    /\ Stale(pos) /\ Stale(StoredPath)
    /\ reorgs = 0 => Agree(pos, chain, Len(pos)) /\ Agree(StoredPath, chain, Len(StoredPath))

\* What is at hand in a phase, whatever was held at an undo
PhasePlace ==
    /\ phase = "down" => pos = <<>> /\ holding = <<>> /\ lastApplied = 0
    /\ phase = "cleaning" => cursor # NoCursor /\ pos = cursor /\ holding = <<>> /\ lastApplied = 0
    /\ phase \in {"down", "idle", "flushed", "undone"} => stmts = <<>>
    /\ phase \in {"flushed", "undone"} => Driver = "clickhouse" /\ cursor = <<>>
    /\ phase \in {"flushing", "flushed"} /\ holding # <<>> => Len(pos) > 0
    /\ reorgs = 0 => phase \notin {"undoing", "undone"}

\* What the statements that are left do
StmtsPlace ==
    /\ phase = "flushing" =>
         /\ All(stmts) \subseteq RowsOfAll(holding)
         /\ Driver = "postgres" \/ NothingHeldAtUndo =>
              RowsOfAll(holding) \subseteq Represented \union All(stmts)
         /\ Driver = "postgres" => Len(stmts) <= 1
    /\ phase \in {"cleaning", "undoing"} =>
         /\ \A r \in All(stmts) : r.num > Len(pos)
         /\ Driver = "postgres" => Len(stmts) <= 1

\* The blocks that are held are the last ones sent, the cursor is at the block before
\* them; during an undo it is on the blocks that are undone
BatchPlace ==
    NothingHeldAtUndo =>
        /\ Len(holding) <= Len(pos)
        /\ \A i \in 1 .. Len(holding) : holding[i] = Held(pos, (Len(pos) - Len(holding)) + i)
        /\ BatchSize = 1 /\ ~config.slow /\ phase = "idle" => holding = <<>>
        /\ phase \in {"undoing", "undone"} => holding = <<>>
        /\ phase \in {"idle", "flushing"} =>
             /\ Len(StoredPath) = Len(pos) - Len(holding)
             /\ Agree(StoredPath, pos, Len(StoredPath))
        /\ phase = "undoing" =>
             /\ Agree(pos, StoredPath, Len(pos))
             /\ \A n \in 1 .. Len(StoredPath) : Agree(StoredPath, chain, n) => n <= Len(pos)

\* The rows of the blocks a path shares with the chain are there
Kept(p) == \A n \in 1 .. Len(p) : Agree(p, chain, n) => RowsAt(p, n) \subseteq Represented

KeptPlace ==
    NothingHeldAtUndo /\ TombstonesFit =>
        /\ Kept(StoredPath)
        /\ phase \in {"flushed", "undone"} => Kept(pos)

\* PostgreSQL: the rows are those of the blocks up to the cursor, or of some of them,
\* when an undo was interrupted
StoredTo(m) ==
    /\ tables = RowsTo(StoredPath, m)
    /\ \A n \in 1 .. Len(StoredPath) : Agree(StoredPath, chain, n) => n <= m
    /\ phase = "flushing" => m = Len(StoredPath)
    /\ phase = "undoing" => Len(pos) <= m

PostgresPlace ==
    Driver = "postgres" /\ UseConstraints /\ NothingHeldAtUndo =>
        \E m \in 0 .. Len(StoredPath) : StoredTo(m)

\* ClickHouse without a fault: the rows are those of the blocks the process was sent
ClickhousePlace ==
    Driver = "clickhouse" /\ faults = 0 /\ TombstonesFit =>
        /\ phase = "down" => cursor = NoCursor /\ tables = {}
        /\ phase # "cleaning"
        /\ NothingHeldAtUndo =>
             \A r \in tables : r \in RowsTo(pos, Len(pos)) \/ (phase = "undoing" /\ r \in All(stmts))

\* What is removed is removed completely, and a process that has not written yet has
\* nothing beyond the blocks it is at
CleanPlace ==
    /\ TombstonesFit /\ phase \in {"cleaning", "undoing"} =>
         \A r \in Removed : r.num <= Len(pos) \/ r \in All(stmts)
    /\ TombstonesFit /\ phase # "down" /\ lastApplied = 0 /\ holding = <<>> =>
         \/ phase = "idle" /\ pos = <<>> /\ cursor = NoCursor
         \/ \A r \in Removed : r.num <= Len(pos) \/ (phase \in {"cleaning", "undoing"} /\ r \in All(stmts))
    /\ reorgs = 0 => tables \subseteq RowsTo(chain, Len(chain))

FInv ==
    /\ Typed /\ PathsPlace /\ PhasePlace /\ StmtsPlace /\ BatchPlace
    /\ KeptPlace /\ PostgresPlace /\ ClickhousePlace /\ CleanPlace /\ ForksNeverMix

-----------------------------------------------------------------------------
(* Consequences of the invariant.                                          *)

\* A cursor that was stored is not NoCursor.
LEMMA StoredIsPath ==
    /\ \A c \in Blocks : c # NoCursor
    /\ cursor \in Blocks => StoredPath = cursor
    /\ cursor = NoCursor => StoredPath = <<>>
    /\ cursor = NoCursor \/ cursor \in Blocks => StoredPath \in Blocks
<1>1. \A c \in Blocks : c # NoCursor
  BY FromProtoAssumption DEF Blocks, Block
<1>2. <<>> \in Blocks
  BY DEF Blocks
<1>3. QED
  BY <1>1, <1>2 DEF StoredPath

\* The configuration and its numbers.
LEMMA ConfigType ==
    ASSUME Typed
    PROVE  /\ config \in Config /\ StopBlock \in Nat
           /\ Driver \in {"postgres", "risingwave", "clickhouse"} /\ UseConstraints \in BOOLEAN
           /\ BatchSize \in Nat /\ config.slow \in BOOLEAN
           /\ config.reorgs \in 0 .. MaxReorgs /\ MaxReorgs \in Nat /\ config.faults \in Nat
<1>1. config \in Config /\ StopBlock \in Nat /\ MaxReorgs \in Nat
  BY FromProtoAssumption DEF Typed
<1>2. QED
  BY <1>1 DEF Config, Driver, UseConstraints, BatchSize

\* The paths of a state and their lengths.
LEMMA PathsKnown ==
    ASSUME Typed
    PROVE  /\ chain \in Blocks /\ pos \in Blocks /\ StoredPath \in Blocks
           /\ Len(chain) \in Nat /\ Len(pos) \in Nat /\ Len(StoredPath) \in Nat
           /\ Len(holding) \in Nat /\ DOMAIN holding = 1 .. Len(holding)
           /\ holding = <<>> <=> Len(holding) = 0
<1>1. chain \in Blocks /\ pos \in Blocks /\ StoredPath \in Blocks
  BY StoredIsPath DEF Typed
<1>2. Len(holding) \in Nat /\ DOMAIN holding = 1 .. Len(holding) /\ (holding = <<>> <=> Len(holding) = 0)
  BY LenProperties, EmptySeq DEF Typed
<1>3. QED
  BY <1>1, <1>2, PathLength

\* The blocks that are held are the last ones of the blocks sent.
LEMMA HeldRows ==
    ASSUME Typed, BatchPlace, NothingHeldAtUndo
    PROVE  /\ RowsOfAll(holding) \subseteq RowsTo(pos, Len(pos))
           /\ \A n \in 1 .. Len(pos) : n > Len(pos) - Len(holding) =>
                RowsAt(pos, n) \subseteq RowsOfAll(holding)
<1>1. Len(pos) \in Nat /\ Len(holding) \in Nat /\ DOMAIN holding = 1 .. Len(holding)
  BY PathsKnown
<1>2. /\ Len(holding) <= Len(pos)
      /\ \A i \in 1 .. Len(holding) : holding[i] = Held(pos, (Len(pos) - Len(holding)) + i)
  BY DEF BatchPlace
<1>3. ASSUME NEW i \in 1 .. Len(holding)
      PROVE  RowsOf(holding[i]) \subseteq RowsTo(pos, Len(pos))
  <2>1. (Len(pos) - Len(holding)) + i \in 1 .. Len(pos)
    BY <1>1, <1>2
  <2>2. RowsOf(holding[i]) = RowsAt(pos, (Len(pos) - Len(holding)) + i)
    BY <1>2 DEF RowsAt
  <2>3. QED
    BY <2>1, <2>2 DEF RowsTo
<1>4. ASSUME NEW n \in 1 .. Len(pos), n > Len(pos) - Len(holding)
      PROVE  RowsAt(pos, n) \subseteq RowsOfAll(holding)
  <2>1. PICK i : i = n - (Len(pos) - Len(holding))
    OBVIOUS
  <2>2. i \in 1 .. Len(holding) /\ (Len(pos) - Len(holding)) + i = n
    BY <1>1, <1>2, <1>4, <2>1
  <2>3. RowsAt(pos, n) = RowsOf(holding[i])
    BY <1>2, <2>2 DEF RowsAt
  <2>4. QED
    BY <1>1, <2>2, <2>3 DEF RowsOfAll
<1>5. RowsOfAll(holding) \subseteq RowsTo(pos, Len(pos))
  BY <1>1, <1>3 DEF RowsOfAll
<1>6. QED
  BY <1>4, <1>5

\* When the statements of a flush are executed, the tables have the rows of the blocks
\* sent that are still on the chain.
LEMMA FlushedKept ==
    ASSUME Typed, BatchPlace, StmtsPlace, KeptPlace, NothingHeldAtUndo, TombstonesFit, phase = "flushing",
           NEW n \in 1 .. Len(pos), Agree(pos, chain, n)
    PROVE  RowsAt(pos, n) \subseteq Represented \union RowsOfAll(holding)
<1>1. /\ pos \in Blocks /\ chain \in Blocks /\ StoredPath \in Blocks
      /\ Len(pos) \in Nat /\ Len(holding) \in Nat /\ Len(StoredPath) \in Nat
  BY PathsKnown
<1>2. Len(StoredPath) = Len(pos) - Len(holding) /\ Agree(StoredPath, pos, Len(StoredPath))
  BY DEF BatchPlace
<1>3. CASE n > Len(pos) - Len(holding)
  BY <1>3, HeldRows
<1>4. CASE n <= Len(StoredPath)
  <2>1. n \in Nat /\ n \in 1 .. Len(StoredPath) /\ n \in 1 .. n
    BY <1>1, <1>4
  <2>2. Agree(StoredPath, pos, n)
    BY <1>1, <1>2, <1>4, <2>1, AgreeLess
  <2>3. Agree(StoredPath, chain, n)
    BY <2>2, AgreeTrans
  <2>4. RowsAt(StoredPath, n) \subseteq Represented
    BY <2>1, <2>3 DEF KeptPlace, Kept
  <2>5. RowsAt(StoredPath, n) = RowsAt(pos, n)
    BY <2>1, <2>2, RowsAgree
  <2>6. QED
    BY <2>4, <2>5
<1>5. QED
  BY <1>1, <1>2, <1>3, <1>4

\* During an undo of blocks that were not held, the blocks left are stored.
LEMMA UndoneKept ==
    ASSUME Typed, BatchPlace, KeptPlace, NothingHeldAtUndo, TombstonesFit, phase = "undoing",
           NEW n \in 1 .. Len(pos), Agree(pos, chain, n)
    PROVE  RowsAt(pos, n) \subseteq Represented
<1>1. /\ pos \in Blocks /\ chain \in Blocks /\ StoredPath \in Blocks
      /\ Len(pos) \in Nat /\ Len(StoredPath) \in Nat
  BY PathsKnown
<1>2. Agree(pos, StoredPath, Len(pos)) /\ n \in Nat /\ n <= Len(pos) /\ n \in 1 .. n
  BY <1>1 DEF BatchPlace
<1>3. Agree(pos, StoredPath, n) /\ Agree(StoredPath, pos, n)
  BY <1>1, <1>2, AgreeLess
<1>4. Agree(StoredPath, chain, n)
  BY <1>3, AgreeTrans
<1>5. n \in 1 .. Len(StoredPath)
  BY <1>1, <1>2, <1>4 DEF Agree
<1>6. RowsAt(StoredPath, n) \subseteq Represented
  BY <1>4, <1>5 DEF KeptPlace, Kept
<1>7. RowsAt(StoredPath, n) = RowsAt(pos, n)
  BY <1>2, <1>3, RowsAgree
<1>8. QED
  BY <1>6, <1>7

-----------------------------------------------------------------------------
(* The initial state and the moves of the chain.                           *)

\* The invariant holds initially.
LEMMA InitInv == ASSUME Init PROVE FInv
<1>1. /\ config \in Configs /\ config \in Config
      /\ chain = <<>> /\ lib = 0 /\ reorgs = 0
      /\ phase = "down" /\ pos = <<>> /\ holding = <<>> /\ lastApplied = 0 /\ stmts = <<>>
      /\ tables = {} /\ cursor = NoCursor /\ faults = 0 /\ StopBlock \in Nat
  BY FromProtoAssumption DEF Init
<1>2. StoredPath = <<>>
  BY <1>1 DEF StoredPath
<1>3. <<>> \in Blocks /\ <<>> \in Seq(Holder) /\ <<>> \in Seq(SUBSET Row) /\ Len(<<>>) = 0
  BY DEF Blocks
<1>4. config.reorgs \in Nat /\ config.faults \in Nat
  BY <1>1, FromProtoAssumption DEF Config
<1>5. Typed
  BY <1>1, <1>2, <1>3, <1>4 DEF Typed
<1>6. Agree(<<>>, <<>>, 0)
  BY <1>3 DEF Agree
<1>7. PathsPlace
  BY <1>1, <1>2, <1>3, <1>6 DEF PathsPlace, Stale
<1>8. PhasePlace
  BY <1>1 DEF PhasePlace
<1>9. StmtsPlace
  BY <1>1 DEF StmtsPlace
<1>10. BatchPlace
  BY <1>1, <1>2, <1>3 DEF BatchPlace
<1>11. KeptPlace
  BY <1>1, <1>2, <1>3 DEF KeptPlace, Kept
<1>12. PostgresPlace
  <2>1. RowsTo(<<>>, 0) = {}
    BY DEF RowsTo
  <2>2. StoredTo(0)
    BY <1>1, <1>2, <1>3, <2>1 DEF StoredTo
  <2>3. 0 \in 0 .. Len(StoredPath)
    BY <1>2, <1>3
  <2>4. QED
    BY <2>2, <2>3 DEF PostgresPlace
<1>13. ClickhousePlace
  BY <1>1 DEF ClickhousePlace
<1>14. CleanPlace
  BY <1>1 DEF CleanPlace
<1>15. ForksNeverMix
  BY <1>1 DEF ForksNeverMix
<1>16. QED
  BY <1>5, <1>7, <1>8, <1>9, <1>10, <1>11, <1>12, <1>13, <1>14, <1>15 DEF FInv

\* The chain moves: what a stale path had lost stays lost.
LEMMA ChainMoves ==
    ASSUME FInv, UNCHANGED <<config, processVars, dbVars, faults>>,
           chain' \in Blocks, Len(chain') <= StopBlock, lib' \in Nat, lib' <= Len(chain'),
           reorgs' \in Nat, reorgs <= reorgs', reorgs' <= config.reorgs,
           \A n \in 1 .. Len(chain') : chain'[n].fork <= reorgs',
           \A p \in Blocks : Stale(p) => \A n \in 1 .. Len(p) :
             /\ Agree(p, chain', n) => Agree(p, chain, n)
             /\ p[n].fork <= reorgs' /\ (n > Len(chain') => p[n].fork < reorgs'),
           reorgs' = 0 => Agree(chain, chain', Len(chain))
    PROVE  FInv'
<1>1. /\ config' = config /\ phase' = phase /\ pos' = pos /\ holding' = holding
      /\ lastApplied' = lastApplied /\ stmts' = stmts /\ tables' = tables /\ cursor' = cursor
      /\ faults' = faults
  BY DEF processVars, dbVars
<1>2. /\ StoredPath' = StoredPath /\ Driver' = Driver /\ UseConstraints' = UseConstraints
      /\ BatchSize' = BatchSize
  BY <1>1 DEF StoredPath, Driver, UseConstraints, BatchSize
<1>3. /\ Typed /\ PathsPlace /\ PhasePlace /\ StmtsPlace /\ BatchPlace /\ KeptPlace
      /\ PostgresPlace /\ ClickhousePlace /\ CleanPlace /\ ForksNeverMix
  BY DEF FInv
<1>4. /\ chain \in Blocks /\ pos \in Blocks /\ StoredPath \in Blocks /\ Len(chain) \in Nat
      /\ Len(pos) \in Nat /\ Len(StoredPath) \in Nat /\ reorgs \in Nat
  BY <1>3, PathsKnown DEF Typed
<1>5. /\ reorgs' = 0 => reorgs = 0
      /\ NothingHeldAtUndo' => NothingHeldAtUndo
      /\ (TombstonesFit' <=> TombstonesFit) /\ Represented' = Represented
  BY <1>1, <1>2, <1>4, ConfigKept DEF NothingHeldAtUndo
<1>6. Removed' = Removed
  BY <1>1, <1>2 DEF Removed, InBlocks
<1>7. Stale(pos) /\ Stale(StoredPath)
  BY <1>3 DEF PathsPlace
<1>8. \A n \in 1 .. Len(StoredPath) : Agree(StoredPath, chain', n) => Agree(StoredPath, chain, n)
  BY <1>4, <1>7
<1>9. \A n \in 1 .. Len(pos) : Agree(pos, chain', n) => Agree(pos, chain, n)
  BY <1>4, <1>7
<1>10. Typed'
  BY <1>1, <1>2, <1>3 DEF Typed
<1>11. PathsPlace'
  <2>1. Stale(pos)' /\ Stale(StoredPath)'
    BY <1>1, <1>2, <1>4, <1>7 DEF Stale
  <2>2. ASSUME reorgs' = 0, NEW p \in Blocks, Agree(p, chain, Len(p))
        PROVE  Agree(p, chain', Len(p))
    <3>1. Len(p) \in Nat /\ Len(p) <= Len(chain)
      BY <2>2, PathLength DEF Agree
    <3>2. Agree(chain, chain', Len(p))
      BY <1>4, <2>2, <3>1, AgreeLess
    <3>3. QED
      BY <2>2, <3>2, AgreeTrans
  <2>3. reorgs' = 0 => Agree(pos, chain', Len(pos)) /\ Agree(StoredPath, chain', Len(StoredPath))
    BY <1>3, <1>4, <1>5, <2>2 DEF PathsPlace
  <2>4. QED
    BY <1>1, <1>2, <2>1, <2>3 DEF PathsPlace
<1>12. PhasePlace'
  BY <1>1, <1>2, <1>3, <1>5 DEF PhasePlace
<1>13. StmtsPlace'
  BY <1>1, <1>2, <1>3, <1>5 DEF StmtsPlace
<1>14. BatchPlace'
  BY <1>1, <1>2, <1>3, <1>5, <1>8 DEF BatchPlace
<1>15. KeptPlace'
  BY <1>1, <1>2, <1>3, <1>5, <1>8, <1>9 DEF KeptPlace, Kept
<1>16. PostgresPlace'
  <2>1. \A m : StoredTo(m) => StoredTo(m)'
    BY <1>1, <1>2, <1>8 DEF StoredTo
  <2>2. QED
    BY <1>1, <1>2, <1>3, <1>5, <2>1 DEF PostgresPlace
<1>17. ClickhousePlace'
  BY <1>1, <1>2, <1>3, <1>5 DEF ClickhousePlace
<1>18. CleanPlace'
  <2>1. reorgs' = 0 => tables \subseteq RowsTo(chain', Len(chain'))
    <3>1. ASSUME reorgs' = 0 PROVE tables \subseteq RowsTo(chain', Len(chain'))
      <4>1. tables \subseteq RowsTo(chain, Len(chain))
        BY <1>3, <1>5, <3>1 DEF CleanPlace
      <4>2. Agree(chain, chain', Len(chain)) /\ Len(chain) <= Len(chain') /\ Len(chain') \in Nat
        BY <3>1, PathLength DEF Agree
      <4>3. RowsTo(chain, Len(chain)) = RowsTo(chain', Len(chain))
        BY <1>4, <4>2, RowsAgree
      <4>4. RowsTo(chain', Len(chain)) \subseteq RowsTo(chain', Len(chain'))
        BY <1>4, <4>2, RowsToMore
      <4>5. QED
        BY <4>1, <4>3, <4>4
    <3>2. QED
      BY <3>1
  <2>2. QED
    BY <1>1, <1>3, <1>5, <1>6, <2>1 DEF CleanPlace
<1>19. ForksNeverMix'
  BY <1>1, <1>2, <1>3 DEF ForksNeverMix, InBlocks
<1>20. QED
  BY <1>10, <1>11, <1>12, <1>13, <1>14, <1>15, <1>16, <1>17, <1>18, <1>19 DEF FInv

\* A block is added to the chain.
LEMMA ExtendInv ==
    ASSUME FInv, NEW rows \in SUBSET Entity, NEW h, Extend(rows, h) PROVE FInv'
<1>1. Typed /\ PathsPlace
  BY DEF FInv
<1>2. PICK b : b = [fork |-> reorgs, rows |-> rows]
  OBVIOUS
<1>3. /\ Len(chain) < StopBlock /\ chain' = Append(chain, b)
      /\ h \in lib .. Len(chain) /\ lib' = h /\ reorgs' = reorgs
      /\ UNCHANGED <<config, processVars, dbVars, faults>>
  BY <1>2 DEF Extend
<1>4. /\ chain \in Blocks /\ Len(chain) \in Nat /\ lib \in Nat /\ reorgs \in Nat
      /\ reorgs <= config.reorgs /\ config.reorgs \in 0 .. MaxReorgs /\ MaxReorgs \in Nat
      /\ StopBlock \in Nat
  BY <1>1, PathsKnown, ConfigType DEF Typed
<1>5. b \in Block
  BY <1>2, <1>4 DEF Block
<1>6. /\ chain' \in Blocks /\ Len(chain') = Len(chain) + 1
      /\ Agree(chain, chain', Len(chain)) /\ chain'[Len(chain) + 1] = b
  BY <1>3, <1>4, <1>5, PathAppend
<1>7. lib' \in Nat /\ lib' <= Len(chain') /\ Len(chain') <= StopBlock
  BY <1>3, <1>4, <1>6
<1>8. ASSUME NEW n \in 1 .. Len(chain') PROVE chain'[n].fork <= reorgs
  <2>1. CASE n = Len(chain) + 1
    BY <1>2, <1>4, <1>6, <2>1
  <2>2. CASE n # Len(chain) + 1
    <3>1. n \in 1 .. Len(chain)
      BY <1>4, <1>6, <2>2
    <3>2. chain'[n] = chain[n]
      BY <1>6, <3>1 DEF Agree
    <3>3. QED
      BY <1>1, <3>1, <3>2 DEF PathsPlace
  <2>3. QED
    BY <2>1, <2>2
<1>9. ASSUME NEW p \in Blocks, Stale(p), NEW n \in 1 .. Len(p)
      PROVE  /\ Agree(p, chain', n) => Agree(p, chain, n)
             /\ p[n].fork <= reorgs /\ (n > Len(chain') => p[n].fork < reorgs)
  <2>1. n \in Nat /\ Len(p) \in Nat /\ n \in 1 .. n
    BY PathLength
  <2>2. p[n].fork <= reorgs /\ (n > Len(chain) => p[n].fork < reorgs)
    BY <1>9 DEF Stale
  <2>3. n > Len(chain') => n > Len(chain)
    BY <1>4, <1>6, <2>1
  <2>4. ASSUME Agree(p, chain', n) PROVE Agree(p, chain, n)
    <3>1. n <= Len(chain')
      BY <2>4 DEF Agree
    <3>2. CASE n <= Len(chain)
      <4>1. Agree(chain', chain, n)
        BY <1>4, <1>6, <2>1, <3>2, AgreeLess
      <4>2. QED
        BY <2>4, <4>1, AgreeTrans
    <3>3. CASE n = Len(chain) + 1
      <4>1. p[n] = b
        BY <1>6, <2>1, <2>4, <3>3 DEF Agree
      <4>2. p[n].fork = reorgs
        BY <1>2, <4>1
      <4>3. n > Len(chain)
        BY <1>4, <3>3
      <4>4. QED
        BY <1>4, <2>2, <4>2, <4>3
    <3>4. QED
      BY <1>4, <1>6, <2>1, <3>1, <3>2, <3>3
  <2>5. QED
    BY <2>2, <2>3, <2>4
<1>10. QED
  BY <1>3, <1>4, <1>6, <1>7, <1>8, <1>9, ChainMoves

\* The blocks above the n-th leave the chain.
LEMMA ReorgInv ==
    ASSUME FInv, NEW n \in Nat, Reorg(n) PROVE FInv'
<1>1. Typed /\ PathsPlace
  BY DEF FInv
<1>2. /\ reorgs < config.reorgs /\ n \in lib .. (Len(chain) - 1)
      /\ chain' = SubSeq(chain, 1, n) /\ reorgs' = reorgs + 1 /\ lib' = lib
      /\ UNCHANGED <<config, processVars, dbVars, faults>>
  BY DEF Reorg
<1>3. /\ chain \in Blocks /\ Len(chain) \in Nat /\ lib \in Nat /\ reorgs \in Nat
      /\ config.reorgs \in 0 .. MaxReorgs /\ MaxReorgs \in Nat
      /\ StopBlock \in Nat /\ Len(chain) <= StopBlock
  BY <1>1, PathsKnown, ConfigType DEF Typed
<1>4. n <= Len(chain)
  BY <1>2, <1>3
<1>5. chain' \in Blocks /\ Len(chain') = n /\ Agree(chain', chain, n)
  BY <1>2, <1>3, <1>4, PrefixOf
<1>6. lib' \in Nat /\ lib' <= Len(chain') /\ Len(chain') <= StopBlock
  BY <1>2, <1>3, <1>4, <1>5
<1>7. reorgs' \in Nat /\ reorgs <= reorgs' /\ reorgs' <= config.reorgs /\ reorgs' # 0
  BY <1>2, <1>3
<1>8. ASSUME NEW i \in 1 .. Len(chain') PROVE chain'[i].fork <= reorgs'
  <2>1. i \in 1 .. n /\ i \in 1 .. Len(chain)
    BY <1>3, <1>4, <1>5
  <2>2. chain'[i] = chain[i]
    BY <1>5, <2>1 DEF Agree
  <2>3. chain[i].fork <= reorgs /\ chain[i] \in Block
    BY <1>1, <1>3, <2>1, ElementOfSeq DEF PathsPlace, Blocks
  <2>4. QED
    BY <1>2, <1>3, <2>2, <2>3 DEF Block
<1>9. ASSUME NEW p \in Blocks, Stale(p), NEW i \in 1 .. Len(p)
      PROVE  /\ Agree(p, chain', i) => Agree(p, chain, i)
             /\ p[i].fork <= reorgs' /\ (i > Len(chain') => p[i].fork < reorgs')
  <2>1. i \in Nat /\ Len(p) \in Nat /\ p[i] \in Block
    BY PathLength, ElementOfSeq DEF Blocks
  <2>2. p[i].fork \in Nat /\ p[i].fork <= reorgs
    BY <1>3, <1>9, <2>1 DEF Stale, Block
  <2>3. p[i].fork <= reorgs' /\ p[i].fork < reorgs'
    BY <1>2, <1>3, <2>2
  <2>4. ASSUME Agree(p, chain', i) PROVE Agree(p, chain, i)
    <3>1. i <= n
      BY <1>5, <2>4 DEF Agree
    <3>2. Agree(chain', chain, i)
      BY <1>3, <1>5, <2>1, <3>1, AgreeLess
    <3>3. QED
      BY <2>4, <3>2, AgreeTrans
  <2>5. QED
    BY <2>3, <2>4
<1>10. QED
  BY <1>2, <1>5, <1>6, <1>7, <1>8, <1>9, ChainMoves

-----------------------------------------------------------------------------
(* The process is started and receives blocks.                             *)

\* The process starts.
LEMMA RunInv == ASSUME FInv, Run PROVE FInv'
<1>1. /\ phase = "down" /\ config' = config /\ chain' = chain /\ lib' = lib /\ reorgs' = reorgs
      /\ holding' = holding /\ lastApplied' = lastApplied /\ tables' = tables /\ cursor' = cursor
      /\ faults' = faults
  BY DEF Run, streamVars, dbVars
<1>2. /\ StoredPath' = StoredPath /\ Driver' = Driver /\ UseConstraints' = UseConstraints
      /\ BatchSize' = BatchSize
  BY <1>1 DEF StoredPath, Driver, UseConstraints, BatchSize
<1>3. /\ Typed /\ PathsPlace /\ PhasePlace /\ StmtsPlace /\ BatchPlace /\ KeptPlace
      /\ PostgresPlace /\ ClickhousePlace /\ CleanPlace /\ ForksNeverMix
  BY DEF FInv
<1>4. /\ Removed' = Removed /\ (NothingHeldAtUndo' <=> NothingHeldAtUndo)
      /\ (TombstonesFit' <=> TombstonesFit) /\ Represented' = Represented
  BY <1>1, <1>2, ConfigKept DEF Removed, InBlocks, NothingHeldAtUndo
<1>5. pos = <<>> /\ holding = <<>> /\ lastApplied = 0 /\ Len(holding) = 0 /\ DOMAIN holding = 1 .. 0
  BY <1>1, <1>3, PathsKnown DEF PhasePlace
<1>6. /\ StoredPath \in Blocks /\ Len(StoredPath) \in Nat /\ Len(StoredPath) <= StopBlock
      /\ Len(<<>>) = 0 /\ <<>> \in Blocks /\ chain \in Blocks /\ Len(chain) \in Nat /\ StopBlock \in Nat
      /\ config \in Config /\ tables \subseteq Row
  BY <1>3, PathsKnown, ConfigType DEF Typed, Blocks
<1>7. \/ /\ cursor = NoCursor /\ StoredPath = <<>>
         /\ phase' = "idle" /\ pos' = <<>> /\ stmts' = <<>>
      \/ /\ cursor # NoCursor /\ StoredPath = cursor
         /\ phase' = "cleaning" /\ pos' = cursor /\ stmts' \in UndoStatements(Len(cursor))
  BY <1>1 DEF Run, StoredPath
<1>8. pos' = StoredPath
  BY <1>7
<1>9. /\ stmts' \in Seq(SUBSET Row)
      /\ \A r \in All(stmts') : r.num > Len(pos')
      /\ Driver = "postgres" => Len(stmts') <= 1
      /\ phase' = "cleaning" => \A r \in Removed : r.num > Len(pos') => r \in All(stmts')
  <2>1. CASE phase' = "idle"
    BY <1>7, <2>1, FewStatements
  <2>2. CASE phase' # "idle"
    BY <1>6, <1>7, <2>2, UndoRemoves
  <2>3. QED
    BY <2>1, <2>2
<1>10. Typed'
  BY <1>1, <1>2, <1>3, <1>6, <1>7, <1>8, <1>9 DEF Typed
<1>11. PathsPlace'
  BY <1>1, <1>2, <1>3, <1>8 DEF PathsPlace, Stale
<1>12. PhasePlace'
  BY <1>1, <1>2, <1>5, <1>7 DEF PhasePlace
<1>13. StmtsPlace'
  BY <1>1, <1>2, <1>7, <1>9 DEF StmtsPlace
<1>14. Agree(StoredPath, StoredPath, Len(StoredPath))
  BY <1>6 DEF Agree
<1>15. BatchPlace'
  BY <1>1, <1>2, <1>5, <1>6, <1>7, <1>8, <1>14 DEF BatchPlace
<1>16. KeptPlace'
  BY <1>1, <1>2, <1>3, <1>4, <1>7 DEF KeptPlace, Kept
<1>17. PostgresPlace'
  <2>1. \A m : StoredTo(m) => StoredTo(m)'
    BY <1>1, <1>2, <1>7 DEF StoredTo
  <2>2. QED
    BY <1>1, <1>2, <1>3, <1>4, <2>1 DEF PostgresPlace
<1>18. ClickhousePlace'
  <2>1. Driver = "clickhouse" /\ faults = 0 /\ TombstonesFit => cursor = NoCursor /\ tables = {}
    BY <1>1, <1>3 DEF ClickhousePlace
  <2>2. QED
    BY <1>1, <1>2, <1>4, <1>7, <2>1 DEF ClickhousePlace
<1>19. CleanPlace'
  <2>1. \A r \in Removed : r.num \in Nat
    BY <1>6, FromProtoAssumption DEF Removed, InBlocks, Row
  <2>2. Len(pos') \in Nat
    BY <1>6, <1>8
  <2>3. phase' = "cleaning" => \A r \in Removed : r.num <= Len(pos') \/ r \in All(stmts')
    BY <1>9, <2>1, <2>2
  <2>4. reorgs = 0 => tables \subseteq RowsTo(chain, Len(chain))
    BY <1>3 DEF CleanPlace
  <2>5. QED
    BY <1>1, <1>4, <1>7, <2>3, <2>4 DEF CleanPlace
<1>20. ForksNeverMix'
  BY <1>1, <1>2, <1>3 DEF ForksNeverMix, InBlocks
<1>21. QED
  BY <1>10, <1>11, <1>12, <1>13, <1>15, <1>16, <1>17, <1>18, <1>19, <1>20 DEF FInv

\* A process on the chain: its cursor is, too.
LEMMA StoredOnChain ==
    ASSUME Typed, BatchPlace, NothingHeldAtUndo, phase = "idle", IsPrefix(pos, chain)
    PROVE  /\ Len(StoredPath) = Len(pos) - Len(holding) /\ Agree(StoredPath, pos, Len(StoredPath))
           /\ Agree(StoredPath, chain, Len(StoredPath))
<1>1. /\ pos \in Blocks /\ chain \in Blocks /\ Len(pos) \in Nat /\ Len(holding) \in Nat
      /\ Len(StoredPath) \in Nat
  BY PathsKnown
<1>2. Len(StoredPath) = Len(pos) - Len(holding) /\ Agree(StoredPath, pos, Len(StoredPath))
  BY DEF BatchPlace
<1>3. Agree(pos, chain, Len(pos))
  BY <1>1, PrefixAgrees
<1>4. Agree(pos, chain, Len(StoredPath))
  <2>1. Len(StoredPath) <= Len(pos)
    BY <1>1, <1>2
  <2>2. QED
    BY <1>1, <1>3, <2>1, AgreeLess
<1>5. QED
  BY <1>2, <1>4, AgreeTrans

\* A block is received.
LEMMA HandleBlockInv ==
    ASSUME FInv, NEW live \in BOOLEAN, NEW slow \in BOOLEAN, HandleBlock(live, slow)
    PROVE  FInv'
<1>1. /\ phase = "idle" /\ IsPrefix(pos, chain) /\ Len(pos) < Len(chain)
      /\ config' = config /\ chain' = chain /\ lib' = lib /\ reorgs' = reorgs
      /\ lastApplied' = lastApplied /\ tables' = tables /\ cursor' = cursor /\ faults' = faults
  BY DEF HandleBlock, streamVars, dbVars
<1>2. /\ StoredPath' = StoredPath /\ Driver' = Driver /\ UseConstraints' = UseConstraints
      /\ BatchSize' = BatchSize
  BY <1>1 DEF StoredPath, Driver, UseConstraints, BatchSize
<1>3. /\ Typed /\ PathsPlace /\ PhasePlace /\ StmtsPlace /\ BatchPlace /\ KeptPlace
      /\ PostgresPlace /\ ClickhousePlace /\ CleanPlace /\ ForksNeverMix
  BY DEF FInv
<1>4. /\ Removed' = Removed /\ (NothingHeldAtUndo' <=> NothingHeldAtUndo)
      /\ (TombstonesFit' <=> TombstonesFit) /\ Represented' = Represented
  BY <1>1, <1>2, ConfigKept DEF Removed, InBlocks, NothingHeldAtUndo
<1>5. /\ pos \in Blocks /\ chain \in Blocks /\ StoredPath \in Blocks
      /\ Len(pos) \in Nat /\ Len(chain) \in Nat /\ Len(StoredPath) \in Nat
      /\ Len(holding) \in Nat /\ DOMAIN holding = 1 .. Len(holding)
      /\ StopBlock \in Nat /\ Len(chain) <= StopBlock /\ config \in Config /\ BatchSize \in Nat
  BY <1>3, PathsKnown, ConfigType DEF Typed
<1>6. PICK n : n = Len(pos) + 1
  OBVIOUS
<1>7. n \in Nat /\ n \in 1 .. Len(chain) /\ chain[n] \in Block /\ Held(chain, n) \in Holder
  <2>1. n \in 1 .. Len(chain)
    BY <1>1, <1>5, <1>6
  <2>2. QED
    BY <1>5, <1>6, <2>1, HeldType, ElementOfSeq DEF Blocks
<1>8. /\ pos' = Append(pos, chain[n])
      /\ holding' = Append(holding, Held(chain, n))
      /\ slow => config.slow
      /\ IF FlushDue(n, live, slow)
         THEN phase' = "flushing" /\ stmts' \in Statements(Append(holding, Held(chain, n)))
         ELSE phase' = phase /\ stmts' = stmts
  BY <1>6 DEF HandleBlock
<1>9. /\ pos' \in Blocks /\ Len(pos') = Len(pos) + 1
      /\ Agree(pos, pos', Len(pos)) /\ pos'[n] = chain[n]
  BY <1>5, <1>6, <1>7, <1>8, PathAppend
<1>10. /\ holding' \in Seq(Holder) /\ Len(holding') = Len(holding) + 1
       /\ \A i \in 1 .. Len(holding) : holding'[i] = holding[i]
       /\ holding'[Len(holding) + 1] = Held(chain, n) /\ holding' # <<>>
  <2>1. holding \in Seq(Holder)
    BY <1>3 DEF Typed
  <2>2. /\ Append(holding, Held(chain, n)) \in Seq(Holder)
        /\ Len(Append(holding, Held(chain, n))) = Len(holding) + 1
        /\ \A i \in 1 .. Len(holding) : Append(holding, Held(chain, n))[i] = holding[i]
        /\ Append(holding, Held(chain, n))[Len(holding) + 1] = Held(chain, n)
    BY <1>7, <2>1, AppendProperties
  <2>3. Len(holding') # 0
    BY <1>5, <1>8, <2>2
  <2>4. QED
    BY <1>8, <2>2, <2>3
<1>11. \/ /\ phase' = "flushing" /\ stmts' \in Seq(SUBSET Row) /\ All(stmts') = RowsOfAll(holding')
          /\ Driver = "postgres" => Len(stmts') <= 1
       \/ phase' = "idle" /\ stmts' = <<>> /\ ~ (BatchSize = 1 /\ ~ config.slow)
  <2>1. CASE FlushDue(n, live, slow)
    <3>1. phase' = "flushing" /\ stmts' \in Statements(holding')
      BY <1>8, <2>1
    <3>2. QED
      BY <1>5, <1>10, <3>1, StatementsInsert
  <2>2. CASE ~ FlushDue(n, live, slow)
    <3>1. phase' = "idle" /\ stmts' = <<>>
      BY <1>1, <1>3, <1>8, <2>2 DEF PhasePlace
    <3>2. BatchSize = 1 => live /\ slow
      BY <2>2 DEF FlushDue
    <3>3. QED
      BY <1>8, <3>1, <3>2
  <2>3. QED
    BY <2>1, <2>2
<1>12. Agree(pos, chain, Len(pos)) /\ Agree(pos', chain, Len(pos'))
  <2>1. Agree(pos, chain, Len(pos))
    BY <1>1, <1>5, PrefixAgrees
  <2>2. ASSUME NEW i \in 1 .. Len(pos') PROVE pos'[i] = chain[i]
    <3>1. i = n \/ i \in 1 .. Len(pos)
      BY <1>5, <1>6, <1>9
    <3>2. QED
      BY <1>9, <2>1, <3>1 DEF Agree
  <2>3. Len(pos') <= Len(pos') /\ Len(pos') <= Len(chain)
    BY <1>1, <1>5, <1>9
  <2>4. QED
    BY <2>1, <2>2, <2>3 DEF Agree
<1>13. Typed'
  <2>1. stmts' \in Seq(SUBSET Row)
    BY <1>11, FewStatements
  <2>2. Len(pos') <= StopBlock
    BY <1>1, <1>5, <1>9
  <2>3. phase' \in {"idle", "flushing"}
    BY <1>11
  <2>4. QED
    BY <1>1, <1>2, <1>3, <1>9, <1>10, <2>1, <2>2, <2>3 DEF Typed
<1>14. PathsPlace'
  <2>1. ASSUME NEW i \in 1 .. Len(pos')
        PROVE  pos'[i].fork <= reorgs /\ (i > Len(chain) => pos'[i].fork < reorgs)
    <3>1. i \in 1 .. Len(chain) /\ pos'[i] = chain[i] /\ ~ (i > Len(chain))
      BY <1>1, <1>5, <1>9, <1>12 DEF Agree
    <3>2. QED
      BY <1>3, <3>1 DEF PathsPlace
  <2>2. QED
    BY <1>1, <1>2, <1>3, <1>12, <2>1 DEF PathsPlace, Stale
<1>15. PhasePlace'
  <2>1. Len(pos') > 0
    BY <1>5, <1>9
  <2>2. QED
    BY <1>11, <2>1 DEF PhasePlace
<1>16. StmtsPlace'
  BY <1>2, <1>11 DEF StmtsPlace
<1>17. BatchPlace'
  <2>1. ASSUME NothingHeldAtUndo
        PROVE  /\ Len(holding') <= Len(pos')
               /\ \A i \in 1 .. Len(holding') :
                    holding'[i] = Held(pos', (Len(pos') - Len(holding')) + i)
               /\ Len(StoredPath) = Len(pos') - Len(holding')
               /\ Agree(StoredPath, pos', Len(StoredPath))
    <3>1. /\ Len(holding) <= Len(pos)
          /\ \A i \in 1 .. Len(holding) : holding[i] = Held(pos, (Len(pos) - Len(holding)) + i)
          /\ Len(StoredPath) = Len(pos) - Len(holding)
          /\ Agree(StoredPath, pos, Len(StoredPath))
      BY <1>1, <1>3, <2>1 DEF BatchPlace
    <3>2. Len(pos') - Len(holding') = Len(pos) - Len(holding)
      BY <1>5, <1>9, <1>10
    <3>3. ASSUME NEW i \in 1 .. Len(holding')
          PROVE  holding'[i] = Held(pos', (Len(pos) - Len(holding)) + i)
      <4>1. CASE i = Len(holding) + 1
        <5>1. (Len(pos) - Len(holding)) + i = n
          BY <1>5, <1>6, <4>1
        <5>2. Held(chain, n) = Held(pos', n)
          BY <1>9 DEF Held
        <5>3. QED
          BY <1>10, <4>1, <5>1, <5>2
      <4>2. CASE i # Len(holding) + 1
        <5>1. i \in 1 .. Len(holding) /\ (Len(pos) - Len(holding)) + i \in 1 .. Len(pos)
          BY <1>5, <1>10, <3>1, <4>2
        <5>2. PICK k : k = (Len(pos) - Len(holding)) + i
          OBVIOUS
        <5>3. pos'[k] = pos[k]
          BY <1>9, <5>1, <5>2 DEF Agree
        <5>4. Held(pos, k) = Held(pos', k)
          BY <5>3 DEF Held
        <5>5. QED
          BY <1>10, <3>1, <5>1, <5>2, <5>4
      <4>3. QED
        BY <4>1, <4>2
    <3>4. Agree(StoredPath, pos', Len(StoredPath))
      <4>1. Len(StoredPath) <= Len(pos)
        BY <1>5, <3>1
      <4>2. Agree(pos, pos', Len(StoredPath))
        BY <1>5, <1>9, <4>1, AgreeLess
      <4>3. QED
        BY <3>1, <4>2, AgreeTrans
    <3>5. Len(holding') <= Len(pos')
      BY <1>5, <1>9, <1>10, <3>1
    <3>6. QED
      BY <3>1, <3>2, <3>3, <3>4, <3>5
  <2>2. phase' \in {"idle", "flushing"}
    BY <1>11
  <2>3. BatchSize = 1 /\ ~ config.slow => phase' # "idle"
    BY <1>11
  <2>4. QED
    BY <1>1, <1>2, <1>4, <2>1, <2>2, <2>3 DEF BatchPlace
<1>18. KeptPlace'
  BY <1>1, <1>2, <1>3, <1>4, <1>11 DEF KeptPlace, Kept
<1>19. PostgresPlace'
  <2>1. ASSUME Driver = "postgres", UseConstraints, NothingHeldAtUndo
        PROVE  \E m \in 0 .. Len(StoredPath) : StoredTo(m)'
    <3>1. PICK m \in 0 .. Len(StoredPath) : StoredTo(m)
      BY <1>3, <2>1 DEF PostgresPlace
    <3>2. m = Len(StoredPath)
      <4>1. Agree(StoredPath, chain, Len(StoredPath))
        BY <1>1, <1>3, <2>1, StoredOnChain
      <4>2. Len(StoredPath) \in 1 .. Len(StoredPath) => Len(StoredPath) <= m
        BY <3>1, <4>1 DEF StoredTo
      <4>3. QED
        BY <1>5, <4>2
    <3>3. StoredTo(m)'
      BY <1>1, <1>2, <1>11, <3>1, <3>2 DEF StoredTo
    <3>4. QED
      BY <3>3
  <2>2. QED
    BY <1>1, <1>2, <1>4, <2>1 DEF PostgresPlace
<1>20. ClickhousePlace'
  <2>1. RowsTo(pos, Len(pos)) \subseteq RowsTo(pos', Len(pos'))
    <3>1. RowsTo(pos, Len(pos)) = RowsTo(pos', Len(pos))
      BY <1>5, <1>9, RowsAgree
    <3>2. RowsTo(pos', Len(pos)) \subseteq RowsTo(pos', Len(pos'))
      BY <1>5, <1>9, RowsToMore
    <3>3. QED
      BY <3>1, <3>2
  <2>2. QED
    BY <1>1, <1>2, <1>3, <1>4, <1>11, <2>1 DEF ClickhousePlace
<1>21. CleanPlace'
  BY <1>1, <1>3, <1>4, <1>10, <1>11 DEF CleanPlace
<1>22. ForksNeverMix'
  BY <1>1, <1>2, <1>3 DEF ForksNeverMix, InBlocks
<1>23. QED
  BY <1>13, <1>14, <1>15, <1>16, <1>17, <1>18, <1>19, <1>20, <1>21, <1>22 DEF FInv

\* The range is complete.
LEMMA RangeCompletionInv == ASSUME FInv, RangeCompletion PROVE FInv'
<1>1. /\ phase = "idle" /\ pos = chain /\ Len(pos) = StopBlock /\ phase' = "flushing"
      /\ config' = config /\ chain' = chain /\ lib' = lib /\ reorgs' = reorgs
      /\ pos' = pos /\ holding' = holding
      /\ lastApplied' = lastApplied /\ tables' = tables /\ cursor' = cursor /\ faults' = faults
      /\ IF holding = <<>> THEN stmts' = <<>> ELSE stmts' \in Statements(holding)
  BY DEF RangeCompletion, streamVars, dbVars
<1>2. /\ StoredPath' = StoredPath /\ Driver' = Driver /\ UseConstraints' = UseConstraints
      /\ BatchSize' = BatchSize
  BY <1>1 DEF StoredPath, Driver, UseConstraints, BatchSize
<1>3. /\ Typed /\ PathsPlace /\ PhasePlace /\ StmtsPlace /\ BatchPlace /\ KeptPlace
      /\ PostgresPlace /\ ClickhousePlace /\ CleanPlace /\ ForksNeverMix
  BY DEF FInv
<1>4. /\ Removed' = Removed /\ (NothingHeldAtUndo' <=> NothingHeldAtUndo)
      /\ (TombstonesFit' <=> TombstonesFit) /\ Represented' = Represented
  BY <1>1, <1>2, ConfigKept DEF Removed, InBlocks, NothingHeldAtUndo
<1>5. /\ pos \in Blocks /\ chain \in Blocks /\ StoredPath \in Blocks
      /\ Len(pos) \in Nat /\ Len(StoredPath) \in Nat /\ StopBlock \in Nat
      /\ holding \in Seq(Holder) /\ config \in Config /\ tables \subseteq Row
  BY <1>3, PathsKnown, ConfigType DEF Typed
<1>6. IsPrefix(pos, chain)
  <2>1. Agree(pos, chain, Len(pos))
    BY <1>1, <1>5 DEF Agree
  <2>2. QED
    BY <1>5, <2>1, PrefixAgrees
<1>7. /\ stmts' \in Seq(SUBSET Row) /\ All(stmts') = RowsOfAll(holding)
      /\ Driver = "postgres" => Len(stmts') <= 1
  <2>1. CASE holding = <<>>
    <3>1. stmts' = <<>> /\ Len(<<>>) <= 1 /\ RowsOfAll(holding) = {}
      BY <1>1, <2>1, NoRowsHeld
    <3>2. QED
      BY <3>1, FewStatements
  <2>2. CASE holding # <<>>
    BY <1>1, <1>5, <2>2, StatementsInsert
  <2>3. QED
    BY <2>1, <2>2
<1>8. holding # <<>> => Len(pos) > 0
  <2>1. ASSUME holding # <<>> PROVE StopBlock > 0
    <3>1. 1 \in 1 .. Len(holding)
      BY <1>3, <2>1, PathsKnown
    <3>2. holding[1] \in Holder
      BY <1>5, <3>1, ElementOfSeq
    <3>3. holding[1].num \in 1 .. StopBlock
      BY <3>2 DEF Holder
    <3>4. QED
      BY <1>5, <3>3
  <2>2. QED
    BY <1>1, <2>1
<1>9. Typed'
  BY <1>1, <1>2, <1>3, <1>7 DEF Typed
<1>10. PathsPlace'
  BY <1>1, <1>2, <1>3 DEF PathsPlace, Stale
<1>11. PhasePlace'
  BY <1>1, <1>8 DEF PhasePlace
<1>12. StmtsPlace'
  BY <1>1, <1>2, <1>7 DEF StmtsPlace
<1>13. BatchPlace'
  BY <1>1, <1>2, <1>3, <1>4 DEF BatchPlace
<1>14. KeptPlace'
  BY <1>1, <1>2, <1>3, <1>4 DEF KeptPlace, Kept
<1>15. PostgresPlace'
  <2>1. ASSUME Driver = "postgres", UseConstraints, NothingHeldAtUndo
        PROVE  \E m \in 0 .. Len(StoredPath) : StoredTo(m)'
    <3>1. PICK m \in 0 .. Len(StoredPath) : StoredTo(m)
      BY <1>3, <2>1 DEF PostgresPlace
    <3>2. m = Len(StoredPath)
      <4>1. Agree(StoredPath, chain, Len(StoredPath))
        BY <1>1, <1>3, <1>6, <2>1, StoredOnChain
      <4>2. Len(StoredPath) \in 1 .. Len(StoredPath) => Len(StoredPath) <= m
        BY <3>1, <4>1 DEF StoredTo
      <4>3. QED
        BY <1>5, <4>2
    <3>3. StoredTo(m)'
      BY <1>1, <1>2, <3>1, <3>2 DEF StoredTo
    <3>4. QED
      BY <3>3
  <2>2. QED
    BY <1>1, <1>2, <1>4, <2>1 DEF PostgresPlace
<1>16. ClickhousePlace'
  BY <1>1, <1>2, <1>3, <1>4 DEF ClickhousePlace
<1>17. CleanPlace'
  <2>1. \A r \in Removed : r.num <= Len(pos)
    BY <1>1, <1>5 DEF Removed, InBlocks, Row
  <2>2. reorgs = 0 => tables \subseteq RowsTo(chain, Len(chain))
    BY <1>3 DEF CleanPlace
  <2>3. QED
    BY <1>1, <1>4, <2>1, <2>2 DEF CleanPlace
<1>18. ForksNeverMix'
  BY <1>1, <1>2, <1>3 DEF ForksNeverMix, InBlocks
<1>19. QED
  BY <1>9, <1>10, <1>11, <1>12, <1>13, <1>14, <1>15, <1>16, <1>17, <1>18 DEF FInv

-----------------------------------------------------------------------------
(* A flush.                                                                *)

\* A statement of a flush outside a transaction.
LEMMA ExecStatementInv == ASSUME FInv, ExecStatement PROVE FInv'
<1>1. /\ phase = "flushing" /\ Driver # "postgres" /\ stmts # <<>>
      /\ tables' = WithInserted(Head(stmts)) /\ stmts' = Tail(stmts)
      /\ config' = config /\ chain' = chain /\ lib' = lib /\ reorgs' = reorgs
      /\ phase' = phase /\ pos' = pos /\ holding' = holding
      /\ lastApplied' = lastApplied /\ cursor' = cursor /\ faults' = faults
  BY DEF ExecStatement, streamVars
<1>2. /\ StoredPath' = StoredPath /\ Driver' = Driver /\ UseConstraints' = UseConstraints
      /\ BatchSize' = BatchSize
  BY <1>1 DEF StoredPath, Driver, UseConstraints, BatchSize
<1>3. /\ Typed /\ PathsPlace /\ PhasePlace /\ StmtsPlace /\ BatchPlace /\ KeptPlace
      /\ PostgresPlace /\ ClickhousePlace /\ CleanPlace /\ ForksNeverMix
  BY DEF FInv
<1>4. (NothingHeldAtUndo' <=> NothingHeldAtUndo) /\ (TombstonesFit' <=> TombstonesFit)
  BY <1>1, <1>2, ConfigKept DEF NothingHeldAtUndo
<1>5. /\ Head(stmts) \subseteq Row /\ Tail(stmts) \in Seq(SUBSET Row)
      /\ All(stmts) = Head(stmts) \union All(stmts')
  BY <1>1, <1>3, NextStatement DEF Typed
<1>6. /\ All(stmts) \subseteq RowsOfAll(holding)
      /\ NothingHeldAtUndo => RowsOfAll(holding) \subseteq Represented \union All(stmts)
  BY <1>1, <1>3 DEF StmtsPlace
<1>7. NothingHeldAtUndo => Head(stmts) \subseteq RowsTo(pos, Len(pos))
  BY <1>3, <1>5, <1>6, HeldRows
<1>8. /\ tables' \subseteq tables \union Head(stmts)
      /\ holding = <<>> => tables' \subseteq tables
  <2>1. holding = <<>> => Head(stmts) = {}
    BY <1>5, <1>6, NoRowsHeld
  <2>2. tables' \subseteq tables \union Head(stmts)
    BY <1>1, <1>5, InsertAdds
  <2>3. QED
    BY <2>1, <2>2
<1>9. Typed'
  BY <1>1, <1>2, <1>3, <1>5, <1>8 DEF Typed
<1>10. PathsPlace'
  BY <1>1, <1>2, <1>3 DEF PathsPlace, Stale
<1>11. PhasePlace'
  BY <1>1, <1>2, <1>3 DEF PhasePlace
<1>12. ASSUME NothingHeldAtUndo, NEW r \in RowsTo(pos, Len(pos)),
              r \in Represented \/ r \in Head(stmts)
       PROVE  r \in Represented'
  <2>1. Len(pos) \in Nat
    BY <1>3, PathsKnown
  <2>2. ASSUME NEW q \in RowsTo(pos, Len(pos)), q.num = r.num PROVE q.fork = r.fork
    <3>1. q \in RowsAt(pos, q.num) /\ r \in RowsAt(pos, r.num)
      BY <2>1, RowsToByNumber
    <3>2. QED
      BY <2>2, <3>1, RowsAtShape
  <2>3. \A q \in Head(stmts) : q.num = r.num => q.fork = r.fork
    BY <1>7, <1>12, <2>2
  <2>4. r \in Row
    BY <1>5, <1>12 DEF Represented
  <2>5. QED
    BY <1>1, <1>5, <1>12, <2>3, <2>4, InsertRepresents
<1>13. StmtsPlace'
  <2>1. ASSUME NothingHeldAtUndo
        PROVE  RowsOfAll(holding) \subseteq Represented' \union All(stmts')
    <3>1. RowsOfAll(holding) \subseteq RowsTo(pos, Len(pos))
      BY <1>3, <2>1, HeldRows
    <3>2. QED
      BY <1>5, <1>6, <1>12, <2>1, <3>1
  <2>2. QED
    BY <1>1, <1>2, <1>4, <1>5, <1>6, <2>1 DEF StmtsPlace
<1>14. BatchPlace'
  BY <1>1, <1>2, <1>3, <1>4 DEF BatchPlace
<1>15. KeptPlace'
  <2>1. ASSUME NothingHeldAtUndo, TombstonesFit,
               NEW n \in 1 .. Len(StoredPath), Agree(StoredPath, chain, n)
        PROVE  RowsAt(StoredPath, n) \subseteq Represented'
    <3>1. RowsAt(StoredPath, n) \subseteq Represented
      BY <1>3, <2>1 DEF KeptPlace, Kept
    <3>2. Agree(StoredPath, pos, Len(StoredPath)) /\ Len(pos) \in Nat /\ Len(StoredPath) \in Nat
      BY <1>1, <1>3, <2>1, PathsKnown DEF BatchPlace
    <3>3. n \in 1 .. Len(pos) /\ RowsAt(StoredPath, n) = RowsAt(pos, n)
      <4>1. n \in 1 .. Len(pos)
        BY <2>1, <3>2 DEF Agree
      <4>2. \A i \in 1 .. Len(StoredPath) : RowsAt(StoredPath, i) = RowsAt(pos, i)
        BY <3>2, RowsAgree
      <4>3. QED
        BY <2>1, <4>1, <4>2
    <3>4. RowsAt(StoredPath, n) \subseteq RowsTo(pos, Len(pos))
      BY <3>3, RowsToIs
    <3>5. QED
      BY <1>12, <2>1, <3>1, <3>4
  <2>2. QED
    BY <1>1, <1>2, <1>4, <2>1 DEF KeptPlace, Kept
<1>16. PostgresPlace'
  BY <1>1, <1>2 DEF PostgresPlace
<1>17. ClickhousePlace'
  <2>1. ASSUME Driver = "clickhouse", faults = 0, TombstonesFit, NothingHeldAtUndo, NEW r \in tables'
        PROVE  r \in RowsTo(pos, Len(pos))
    <3>1. r \in tables => r \in RowsTo(pos, Len(pos))
      BY <1>1, <1>3, <2>1 DEF ClickhousePlace
    <3>2. QED
      BY <1>7, <1>8, <2>1, <3>1
  <2>2. QED
    BY <1>1, <1>2, <1>4, <2>1 DEF ClickhousePlace
<1>18. CleanPlace'
  <2>1. holding = <<>> => Removed' \subseteq Removed
    BY <1>1, <1>2, <1>8 DEF Removed, InBlocks
  <2>2. TombstonesFit /\ lastApplied = 0 /\ holding = <<>> => \A r \in Removed : r.num <= Len(pos)
    BY <1>1, <1>3 DEF CleanPlace
  <2>3. ASSUME reorgs = 0 PROVE tables' \subseteq RowsTo(chain, Len(chain))
    <3>1. Agree(pos, chain, Len(pos)) /\ tables \subseteq RowsTo(chain, Len(chain))
      BY <1>3, <2>3 DEF PathsPlace, CleanPlace
    <3>2. /\ Len(pos) \in Nat /\ Len(chain) \in Nat /\ Len(pos) <= Len(chain)
      BY <1>3, <3>1, PathsKnown DEF Agree
    <3>3. RowsTo(pos, Len(pos)) \subseteq RowsTo(chain, Len(chain))
      BY <3>1, <3>2, RowsAgree, RowsToMore
    <3>4. NothingHeldAtUndo
      BY <2>3 DEF NothingHeldAtUndo
    <3>5. QED
      BY <1>7, <1>8, <3>1, <3>3, <3>4
  <2>4. QED
    BY <1>1, <1>4, <2>1, <2>2, <2>3 DEF CleanPlace
<1>19. ForksNeverMix'
  BY <1>1, <1>2 DEF ForksNeverMix
<1>20. QED
  BY <1>9, <1>10, <1>11, <1>13, <1>14, <1>15, <1>16, <1>17, <1>18, <1>19 DEF FInv

\* The last steps of a flush keep the invariant, if they leave all rows of the batch in
\* the tables; what is about PostgreSQL remains to be shown.
LEMMA FlushDoneInv ==
    ASSUME FInv, FlushDone, phase \in {"flushing", "flushed"},
           \/ tables' = tables
           \/ phase = "flushing" /\ Driver = "postgres" /\ tables' = tables \union RowsOfAll(holding),
           phase = "flushing" /\ NothingHeldAtUndo => RowsOfAll(holding) \subseteq Represented',
           PostgresPlace', ForksNeverMix'
    PROVE  FInv'
<1>1. /\ cursor' = pos /\ holding' = <<>> /\ stmts' = <<>> /\ phase' = "idle"
      /\ lastApplied' = (IF holding = <<>> THEN lastApplied ELSE Len(pos))
      /\ config' = config /\ chain' = chain /\ lib' = lib /\ reorgs' = reorgs
      /\ pos' = pos /\ faults' = faults
  BY DEF FlushDone, streamVars
<1>2. /\ Driver' = Driver /\ UseConstraints' = UseConstraints /\ BatchSize' = BatchSize
  BY <1>1 DEF Driver, UseConstraints, BatchSize
<1>3. /\ Typed /\ PathsPlace /\ PhasePlace /\ StmtsPlace /\ BatchPlace /\ KeptPlace
      /\ PostgresPlace /\ ClickhousePlace /\ CleanPlace /\ ForksNeverMix
  BY DEF FInv
<1>4. (NothingHeldAtUndo' <=> NothingHeldAtUndo) /\ (TombstonesFit' <=> TombstonesFit)
  BY <1>1, <1>2, ConfigKept DEF NothingHeldAtUndo
<1>5. /\ pos \in Blocks /\ chain \in Blocks /\ StoredPath \in Blocks
      /\ Len(pos) \in Nat /\ Len(chain) \in Nat /\ Len(pos) <= StopBlock /\ StopBlock \in Nat
      /\ RowsOfAll(holding) \subseteq Row
  BY <1>3, PathsKnown, ConfigType, RowsOfAllType DEF Typed
<1>6. StoredPath' = pos
  BY <1>1, <1>5, StoredIsPath DEF StoredPath
<1>7. tables' \subseteq Row /\ tables \subseteq tables' /\ Represented \subseteq Represented'
  <2>1. tables' \subseteq Row /\ tables \subseteq tables'
    BY <1>3, <1>5 DEF Typed
  <2>2. QED
    BY <1>1, <2>1, ConfigKept
<1>8. <<>> \in Seq(Holder) /\ <<>> \in Seq(SUBSET Row) /\ Len(<<>>) = 0
  OBVIOUS
<1>9. Typed'
  <2>1. lastApplied' \in 0 .. StopBlock
    BY <1>1, <1>3, <1>5 DEF Typed
  <2>2. QED
    BY <1>1, <1>3, <1>5, <1>6, <1>7, <1>8, <2>1 DEF Typed
<1>10. PathsPlace'
  BY <1>1, <1>3, <1>6 DEF PathsPlace, Stale
<1>11. PhasePlace'
  BY <1>1 DEF PhasePlace
<1>12. StmtsPlace'
  BY <1>1 DEF StmtsPlace
<1>13. BatchPlace'
  <2>1. Agree(pos, pos, Len(pos))
    BY <1>5 DEF Agree
  <2>2. QED
    BY <1>1, <1>5, <1>6, <1>8, <2>1 DEF BatchPlace
<1>14. KeptPlace'
  <2>1. ASSUME NothingHeldAtUndo, TombstonesFit, NEW n \in 1 .. Len(pos), Agree(pos, chain, n)
        PROVE  RowsAt(pos, n) \subseteq Represented'
    <3>1. CASE phase = "flushing"
      <4>1. RowsAt(pos, n) \subseteq Represented \union RowsOfAll(holding)
        BY <1>3, <2>1, <3>1, FlushedKept
      <4>2. QED
        BY <1>7, <2>1, <3>1, <4>1
    <3>2. CASE phase = "flushed"
      BY <1>3, <1>7, <2>1, <3>2 DEF KeptPlace, Kept
    <3>3. QED
      BY <3>1, <3>2
  <2>2. QED
    BY <1>1, <1>4, <1>6, <2>1 DEF KeptPlace, Kept
<1>15. ClickhousePlace'
  <2>1. ASSUME Driver = "clickhouse", faults = 0, TombstonesFit, NothingHeldAtUndo, NEW r \in tables'
        PROVE  r \in RowsTo(pos, Len(pos))
    <3>1. tables' = tables
      BY <2>1
    <3>2. QED
      BY <1>3, <2>1, <3>1 DEF ClickhousePlace
  <2>2. QED
    BY <1>1, <1>2, <1>4, <2>1 DEF ClickhousePlace
<1>16. CleanPlace'
  <2>1. ASSUME TombstonesFit, lastApplied' = 0 PROVE \A r \in Removed' : r.num <= Len(pos)
    <3>1. holding = <<>> /\ lastApplied = 0
      BY <1>1, <1>3, <1>5, <2>1 DEF PhasePlace
    <3>2. \A r \in Removed : r.num <= Len(pos)
      BY <1>3, <2>1, <3>1 DEF CleanPlace
    <3>3. tables' = tables
      BY <3>1, NoRowsHeld
    <3>4. Removed' = Removed
      BY <1>2, <3>3 DEF Removed, InBlocks
    <3>5. QED
      BY <3>2, <3>4
  <2>2. ASSUME reorgs = 0 PROVE tables' \subseteq RowsTo(chain, Len(chain))
    <3>1. Agree(pos, chain, Len(pos)) /\ tables \subseteq RowsTo(chain, Len(chain))
      BY <1>3, <2>2 DEF PathsPlace, CleanPlace
    <3>2. Len(pos) <= Len(chain)
      BY <3>1 DEF Agree
    <3>3. RowsTo(pos, Len(pos)) \subseteq RowsTo(chain, Len(chain))
      BY <1>5, <3>1, <3>2, RowsAgree, RowsToMore
    <3>4. NothingHeldAtUndo
      BY <2>2 DEF NothingHeldAtUndo
    <3>5. RowsOfAll(holding) \subseteq RowsTo(pos, Len(pos))
      BY <1>3, <3>4, HeldRows
    <3>6. QED
      BY <3>1, <3>3, <3>5
  <2>3. QED
    BY <1>1, <1>4, <2>1, <2>2 DEF CleanPlace
<1>17. QED
  BY <1>9, <1>10, <1>11, <1>12, <1>13, <1>14, <1>15, <1>16 DEF FInv

\* A flush outside a transaction ends with the cursor.
LEMMA FlushEndsInv == ASSUME FInv, FlushEnds PROVE FInv'
<1>1. /\ phase = "flushing" /\ Driver = "risingwave" /\ stmts = <<>>
      /\ FlushDone /\ tables' = tables /\ config' = config
  BY DEF FlushEnds, FlushDone, streamVars
<1>2. Driver' = Driver
  BY <1>1 DEF Driver
<1>3. NothingHeldAtUndo => RowsOfAll(holding) \subseteq Represented'
  <2>1. StmtsPlace
    BY DEF FInv
  <2>2. NothingHeldAtUndo => RowsOfAll(holding) \subseteq Represented
    BY <1>1, <2>1, FewStatements DEF StmtsPlace
  <2>3. QED
    BY <1>1, <2>2, ConfigKept
<1>4. PostgresPlace' /\ ForksNeverMix'
  BY <1>1, <1>2 DEF PostgresPlace, ForksNeverMix
<1>5. QED
  BY <1>1, <1>3, <1>4, FlushDoneInv

\* The cursor file of ClickHouse is written.
LEMMA WriteCursorInv == ASSUME FInv, WriteCursor PROVE FInv'
<1>1. phase = "flushed" /\ FlushDone /\ tables' = tables /\ config' = config
  BY DEF WriteCursor, FlushDone, streamVars
<1>2. Driver = "clickhouse" /\ Driver' = Driver
  BY <1>1 DEF FInv, PhasePlace, Driver
<1>3. PostgresPlace' /\ ForksNeverMix'
  BY <1>1, <1>2 DEF PostgresPlace, ForksNeverMix
<1>4. QED
  BY <1>1, <1>3, FlushDoneInv

\* The transaction of PostgreSQL leaves the rows of the blocks up to the cursor.
LEMMA CommitFlushInv == ASSUME FInv, CommitFlush PROVE FInv'
<1>1. /\ phase = "flushing" /\ Driver = "postgres" /\ ~ Conflict(holding) /\ FlushDone
      /\ tables' = tables \union (IF stmts = <<>> THEN {} ELSE Head(stmts))
      /\ cursor' = pos /\ config' = config /\ reorgs' = reorgs /\ chain' = chain /\ phase' = "idle"
  BY DEF CommitFlush, FlushDone, streamVars
<1>2. Driver' = Driver /\ UseConstraints' = UseConstraints /\ BatchSize' = BatchSize
  BY <1>1 DEF Driver, UseConstraints, BatchSize
<1>3. /\ Typed /\ PathsPlace /\ PhasePlace /\ StmtsPlace /\ BatchPlace /\ KeptPlace
      /\ PostgresPlace /\ ClickhousePlace /\ CleanPlace /\ ForksNeverMix
  BY DEF FInv
<1>4. (NothingHeldAtUndo' <=> NothingHeldAtUndo) /\ (TombstonesFit' <=> TombstonesFit)
  BY <1>1, <1>2, ConfigKept DEF NothingHeldAtUndo
<1>5. /\ pos \in Blocks /\ chain \in Blocks /\ StoredPath \in Blocks
      /\ Len(pos) \in Nat /\ Len(StoredPath) \in Nat /\ Len(holding) \in Nat
      /\ DOMAIN holding = 1 .. Len(holding)
  BY <1>3, PathsKnown
<1>6. StoredPath' = pos
  BY <1>1, <1>5, StoredIsPath DEF StoredPath
<1>7. tables' = tables \union RowsOfAll(holding)
  <2>1. /\ All(stmts) \subseteq RowsOfAll(holding)
        /\ RowsOfAll(holding) \subseteq tables \union All(stmts) /\ Len(stmts) <= 1
    <3>1. Represented = tables
      BY <1>1, <1>3, TablesRepresented DEF Typed
    <3>2. QED
      BY <1>1, <1>3, <3>1 DEF StmtsPlace
  <2>2. CASE stmts = <<>>
    <3>1. All(stmts) = {}
      BY <2>2, FewStatements
    <3>2. QED
      BY <1>1, <2>1, <2>2, <3>1
  <2>3. CASE stmts # <<>>
    <3>1. All(stmts) = Head(stmts) \union All(Tail(stmts)) /\ Tail(stmts) = <<>>
      BY <1>3, <2>1, <2>3, NextStatement DEF Typed
    <3>2. All(stmts) = Head(stmts)
      BY <3>1, FewStatements
    <3>3. QED
      BY <1>1, <2>1, <2>3, <3>2
  <2>4. QED
    BY <2>2, <2>3
<1>8. PostgresPlace'
  <2>1. ASSUME UseConstraints, NothingHeldAtUndo
        PROVE  tables' = RowsTo(pos, Len(pos))
    <3>1. tables = RowsTo(StoredPath, Len(StoredPath))
      BY <1>1, <1>3, <2>1 DEF PostgresPlace, StoredTo
    <3>2. Len(StoredPath) = Len(pos) - Len(holding) /\ Agree(StoredPath, pos, Len(StoredPath))
          /\ Len(holding) <= Len(pos)
      BY <1>1, <1>3, <2>1 DEF BatchPlace
    <3>3. tables = RowsTo(pos, Len(StoredPath))
      BY <1>5, <3>1, <3>2, RowsAgree
    <3>4. tables \subseteq RowsTo(pos, Len(pos))
      BY <1>5, <3>2, <3>3, RowsToMore
    <3>5. RowsOfAll(holding) \subseteq RowsTo(pos, Len(pos))
      BY <1>3, <2>1, HeldRows
    <3>6. ASSUME NEW r \in RowsTo(pos, Len(pos)) PROVE r \in tables \/ r \in RowsOfAll(holding)
      <4>1. PICK i \in 1 .. Len(pos) : r \in RowsAt(pos, i)
        BY <3>6, RowsToIs
      <4>2. CASE i > Len(pos) - Len(holding)
        BY <1>3, <2>1, <4>1, <4>2, HeldRows
      <4>3. CASE ~ (i > Len(pos) - Len(holding))
        <5>1. i \in 1 .. Len(StoredPath)
          BY <1>5, <3>2, <4>3
        <5>2. QED
          BY <3>3, <4>1, <5>1, RowsToIs
      <4>4. QED
        BY <4>2, <4>3
    <3>7. QED
      BY <1>7, <3>4, <3>5, <3>6
  <2>2. PICK k : k = Len(pos)
    OBVIOUS
  <2>3. ASSUME UseConstraints, NothingHeldAtUndo PROVE StoredTo(k)'
    <3>1. \A n \in 1 .. Len(pos) : n <= k
      BY <1>5, <2>2
    <3>2. QED
      BY <1>1, <1>6, <2>1, <2>2, <2>3, <3>1 DEF StoredTo
  <2>4. k \in 0 .. Len(StoredPath')
    BY <1>5, <1>6, <2>2
  <2>5. QED
    BY <1>2, <1>4, <2>3, <2>4 DEF PostgresPlace
<1>9. ForksNeverMix'
  <2>1. ASSUME UseConstraints
        PROVE  /\ \A r, q \in tables' : r.num = q.num => r.fork = q.fork
               /\ \A r \in tables' : \E b \in InBlocks(tables') : b.num = r.num
    <3>1. /\ \A r, q \in tables : r.num = q.num => r.fork = q.fork
          /\ \A r \in tables : \E b \in InBlocks(tables) : b.num = r.num
      BY <1>1, <1>3, <2>1 DEF ForksNeverMix
    <3>2. ASSUME NEW q \in RowsOfAll(holding)
          PROVE  \E i \in DOMAIN holding : /\ q \in RowsOf(holding[i]) /\ holding[i].rows # {}
                                           /\ q.num = holding[i].num /\ q.fork = holding[i].fork
      <4>1. PICK i \in DOMAIN holding : q \in RowsOf(holding[i])
        BY <3>2 DEF RowsOfAll
      <4>2. QED
        BY <4>1, RowsOfShape
    <3>3. ASSUME NEW r \in tables, NEW q \in RowsOfAll(holding), r.num = q.num PROVE FALSE
      <4>1. PICK i \in DOMAIN holding : holding[i].rows # {} /\ q.num = holding[i].num
        BY <3>2
      <4>2. PICK b \in InBlocks(tables) : b.num = r.num
        BY <3>1
      <4>3. QED
        BY <1>1, <2>1, <3>3, <4>1, <4>2 DEF Conflict
    <3>4. ASSUME NEW r \in RowsOfAll(holding), NEW q \in RowsOfAll(holding), r.num = q.num
          PROVE  r.fork = q.fork
      <4>1. PICK i \in DOMAIN holding : /\ holding[i].rows # {}
                                        /\ r.num = holding[i].num /\ r.fork = holding[i].fork
        BY <3>2
      <4>2. PICK j \in DOMAIN holding : /\ holding[j].rows # {}
                                        /\ q.num = holding[j].num /\ q.fork = holding[j].fork
        BY <3>2
      <4>3. i = j \/ i < j \/ j < i
        BY <1>5
      <4>4. ~ (i < j) /\ ~ (j < i)
        BY <1>1, <2>1, <3>4, <4>1, <4>2 DEF Conflict
      <4>5. QED
        BY <4>1, <4>2, <4>3, <4>4
    <3>5. \A r, q \in tables' : r.num = q.num => r.fork = q.fork
      <4>1. ASSUME NEW r \in tables', NEW q \in tables', r.num = q.num PROVE r.fork = q.fork
        <5>1. (r \in tables \/ r \in RowsOfAll(holding)) /\ (q \in tables \/ q \in RowsOfAll(holding))
          BY <1>7
        <5>2. QED
          BY <3>1, <3>3, <3>4, <4>1, <5>1
      <4>2. QED
        BY <4>1
    <3>6. ASSUME NEW r \in tables' PROVE \E b \in InBlocks(tables') : b.num = r.num
      <4>1. CASE r \in tables
        <5>1. InBlocks(tables) \subseteq InBlocks(tables')
          BY <1>7 DEF InBlocks
        <5>2. QED
          BY <3>1, <4>1, <5>1
      <4>2. CASE r \in RowsOfAll(holding)
        <5>1. PICK i \in DOMAIN holding : r \in RowsOf(holding[i]) /\ r.num = holding[i].num
          BY <3>2, <4>2
        <5>2. PICK b \in RowsOf(holding[i]) : b.key = BlockRow /\ b.num = holding[i].num
          BY <5>1, RowsOfShape
        <5>3. b \in RowsOfAll(holding)
          BY <5>1, <5>2 DEF RowsOfAll
        <5>4. b \in InBlocks(tables')
          BY <1>7, <5>2, <5>3 DEF InBlocks
        <5>5. QED
          BY <5>1, <5>2, <5>4
      <4>3. QED
        BY <1>7, <4>1, <4>2
    <3>7. QED
      BY <3>5, <3>6
  <2>2. QED
    BY <1>2, <2>1 DEF ForksNeverMix, InBlocks
<1>10. RowsOfAll(holding) \subseteq Represented'
  <2>1. tables' \subseteq Row
    BY <1>3, <1>7, RowsOfAllType DEF Typed
  <2>2. tables' \subseteq Represented'
    BY <2>1, TablesGrownRepresented
  <2>3. QED
    BY <1>7, <2>2
<1>11. QED
  BY <1>1, <1>7, <1>8, <1>9, <1>10, FlushDoneInv

-----------------------------------------------------------------------------
(* The process ends.                                                       *)

\* The process goes down; what it was told and what it held is lost.
LEMMA GoDownInv ==
    ASSUME FInv, GoDown, UNCHANGED <<streamVars, dbVars>>, phase # "down",
           faults' \in 0 .. config.faults,
           Driver = "clickhouse" /\ TombstonesFit => faults' # 0
    PROVE  FInv'
<1>1. /\ phase' = "down" /\ pos' = <<>> /\ holding' = <<>> /\ lastApplied' = 0 /\ stmts' = <<>>
      /\ config' = config /\ chain' = chain /\ lib' = lib /\ reorgs' = reorgs
      /\ tables' = tables /\ cursor' = cursor
  BY DEF GoDown, streamVars, dbVars
<1>2. /\ StoredPath' = StoredPath /\ Driver' = Driver /\ UseConstraints' = UseConstraints
      /\ BatchSize' = BatchSize
  BY <1>1 DEF StoredPath, Driver, UseConstraints, BatchSize
<1>3. /\ Typed /\ PathsPlace /\ KeptPlace /\ PostgresPlace /\ CleanPlace /\ ForksNeverMix
  BY DEF FInv
<1>4. /\ NothingHeldAtUndo' <=> NothingHeldAtUndo
      /\ (TombstonesFit' <=> TombstonesFit) /\ Represented' = Represented
  BY <1>1, <1>2, ConfigKept DEF NothingHeldAtUndo
<1>5. /\ <<>> \in Blocks /\ <<>> \in Seq(Holder) /\ <<>> \in Seq(SUBSET Row) /\ Len(<<>>) = 0
      /\ StopBlock \in Nat
  BY <1>3, ConfigType DEF Blocks
<1>6. Typed'
  BY <1>1, <1>2, <1>3, <1>5 DEF Typed
<1>7. PathsPlace'
  <2>1. chain \in Blocks /\ Len(chain) \in Nat
    BY <1>3, PathsKnown
  <2>2. Agree(<<>>, chain, 0)
    BY <1>5, <2>1 DEF Agree
  <2>3. QED
    BY <1>1, <1>2, <1>3, <1>5, <2>2 DEF PathsPlace, Stale
<1>8. PhasePlace'
  BY <1>1 DEF PhasePlace
<1>9. StmtsPlace'
  BY <1>1 DEF StmtsPlace
<1>10. BatchPlace'
  BY <1>1, <1>5 DEF BatchPlace
<1>11. KeptPlace'
  BY <1>1, <1>2, <1>3, <1>4 DEF KeptPlace, Kept
<1>12. PostgresPlace'
  <2>1. \A m : StoredTo(m) => StoredTo(m)'
    BY <1>1, <1>2 DEF StoredTo
  <2>2. QED
    BY <1>1, <1>2, <1>3, <1>4, <2>1 DEF PostgresPlace
<1>13. ClickhousePlace'
  BY <1>1, <1>2, <1>4 DEF ClickhousePlace
<1>14. CleanPlace'
  BY <1>1, <1>3 DEF CleanPlace
<1>15. ForksNeverMix'
  BY <1>1, <1>2, <1>3 DEF ForksNeverMix, InBlocks
<1>16. QED
  BY <1>6, <1>7, <1>8, <1>9, <1>10, <1>11, <1>12, <1>13, <1>14, <1>15 DEF FInv

\* The database refuses the batch.
LEMMA RefuseFlushInv == ASSUME FInv, RefuseFlush PROVE FInv'
<1>1. /\ phase = "flushing" /\ Driver = "postgres" /\ GoDown
      /\ UNCHANGED <<streamVars, dbVars>> /\ faults' = faults
  BY DEF RefuseFlush, Conflict
<1>2. faults \in 0 .. config.faults
  BY DEF FInv, Typed
<1>3. phase # "down" /\ (Driver = "clickhouse" => faults' # 0) /\ faults' \in 0 .. config.faults
  BY <1>1, <1>2
<1>4. QED
  BY <1>1, <1>3, GoDownInv

\* ClickHouse refuses a tombstone.
LEMMA RefuseUndoInv == ASSUME FInv, RefuseUndo PROVE FInv'
<1>1. /\ phase # "down" /\ ~ TombstonesFit /\ GoDown
      /\ UNCHANGED <<streamVars, dbVars>> /\ faults' = faults
  BY DEF RefuseUndo
<1>2. faults' \in 0 .. config.faults
  BY <1>1 DEF FInv, Typed
<1>3. QED
  BY <1>1, <1>2, GoDownInv

\* A crash.
LEMMA CrashInv == ASSUME FInv, Crash PROVE FInv'
<1>1. /\ phase # "down" /\ faults < config.faults /\ faults' = faults + 1 /\ GoDown
      /\ UNCHANGED <<streamVars, dbVars>>
  BY DEF Crash
<1>2. faults \in 0 .. config.faults /\ config.faults \in Nat
  BY ConfigType DEF FInv, Typed
<1>3. faults' # 0 /\ faults' \in 0 .. config.faults
  BY <1>1, <1>2
<1>4. QED
  BY <1>1, <1>3, GoDownInv

-----------------------------------------------------------------------------
(* The cursor file of ClickHouse, and the undo.                            *)

\* The cursor file is truncated.
LEMMA TruncateCursorInv == ASSUME FInv, TruncateCursor PROVE FInv'
<1>1. /\ phase \in {"flushing", "undoing"} /\ Driver = "clickhouse" /\ stmts = <<>>
      /\ cursor' = <<>>
      /\ phase' = (IF phase = "flushing" THEN "flushed" ELSE "undone")
      /\ config' = config /\ chain' = chain /\ lib' = lib /\ reorgs' = reorgs
      /\ pos' = pos /\ holding' = holding
      /\ lastApplied' = lastApplied /\ stmts' = stmts /\ tables' = tables /\ faults' = faults
  BY DEF TruncateCursor, streamVars
<1>2. /\ Driver' = Driver /\ UseConstraints' = UseConstraints /\ BatchSize' = BatchSize
  BY <1>1 DEF Driver, UseConstraints, BatchSize
<1>3. /\ Typed /\ PathsPlace /\ PhasePlace /\ StmtsPlace /\ BatchPlace /\ KeptPlace
      /\ PostgresPlace /\ ClickhousePlace /\ CleanPlace /\ ForksNeverMix
  BY DEF FInv
<1>4. /\ Removed' = Removed /\ (NothingHeldAtUndo' <=> NothingHeldAtUndo)
      /\ (TombstonesFit' <=> TombstonesFit) /\ Represented' = Represented
  BY <1>1, <1>2, ConfigKept DEF Removed, InBlocks, NothingHeldAtUndo
<1>5. <<>> \in Blocks /\ Len(<<>>) = 0 /\ StopBlock \in Nat /\ All(<<>>) = {}
      /\ chain \in Blocks /\ Len(chain) \in Nat
  BY <1>3, ConfigType, FewStatements, PathsKnown DEF Blocks
<1>6. StoredPath' = <<>>
  BY <1>1 DEF StoredPath
<1>7. Typed'
  BY <1>1, <1>2, <1>3, <1>5, <1>6 DEF Typed
<1>8. PathsPlace'
  <2>1. Agree(<<>>, chain, 0)
    BY <1>5 DEF Agree
  <2>2. QED
    BY <1>1, <1>3, <1>5, <1>6, <2>1 DEF PathsPlace, Stale
<1>9. PhasePlace'
  BY <1>1, <1>2, <1>3 DEF PhasePlace
<1>10. StmtsPlace'
  BY <1>1 DEF StmtsPlace
<1>11. BatchPlace'
  BY <1>1, <1>2, <1>3, <1>4 DEF BatchPlace
<1>12. KeptPlace'
  <2>1. ASSUME NothingHeldAtUndo, TombstonesFit, NEW n \in 1 .. Len(pos), Agree(pos, chain, n)
        PROVE  RowsAt(pos, n) \subseteq Represented
    <3>1. CASE phase = "flushing"
      <4>1. RowsOfAll(holding) \subseteq Represented
        BY <1>1, <1>3, <1>5, <2>1, <3>1 DEF StmtsPlace
      <4>2. RowsAt(pos, n) \subseteq Represented \union RowsOfAll(holding)
        BY <1>3, <2>1, <3>1, FlushedKept
      <4>3. QED
        BY <4>1, <4>2
    <3>2. CASE phase = "undoing"
      BY <1>3, <2>1, <3>2, UndoneKept
    <3>3. QED
      BY <1>1, <3>1, <3>2
  <2>2. QED
    BY <1>1, <1>4, <1>5, <1>6, <2>1 DEF KeptPlace, Kept
<1>13. PostgresPlace'
  BY <1>1, <1>2 DEF PostgresPlace
<1>14. ClickhousePlace'
  BY <1>1, <1>2, <1>3, <1>4, <1>5 DEF ClickhousePlace
<1>15. CleanPlace'
  <2>1. TombstonesFit /\ lastApplied = 0 /\ holding = <<>> => \A r \in Removed : r.num <= Len(pos)
    <3>1. phase # "down" /\ phase # "idle"
      BY <1>1
    <3>2. \A r : r \notin All(stmts)
      BY <1>1, <1>5
    <3>3. QED
      BY <1>3, <3>1, <3>2 DEF CleanPlace
  <2>2. phase' \notin {"cleaning", "undoing"}
    BY <1>1
  <2>3. reorgs = 0 => tables \subseteq RowsTo(chain, Len(chain))
    BY <1>3 DEF CleanPlace
  <2>4. QED
    BY <1>1, <1>4, <2>1, <2>2, <2>3 DEF CleanPlace
<1>16. ForksNeverMix'
  BY <1>1, <1>2 DEF ForksNeverMix
<1>17. QED
  BY <1>7, <1>8, <1>9, <1>10, <1>11, <1>12, <1>13, <1>14, <1>15, <1>16 DEF FInv

\* The process is told that blocks left the chain.
LEMMA UndoInv == ASSUME FInv, Undo PROVE FInv'
<1>1. PICK n : n = Common(pos, chain)
  OBVIOUS
<1>2. /\ phase = "idle" /\ ~ IsPrefix(pos, chain) /\ pos' = SubSeq(pos, 1, n)
      /\ stmts' \in UndoStatements(n) /\ phase' = "undoing"
      /\ config' = config /\ chain' = chain /\ lib' = lib /\ reorgs' = reorgs
      /\ holding' = holding /\ lastApplied' = lastApplied /\ tables' = tables /\ cursor' = cursor
      /\ faults' = faults
  BY <1>1 DEF Undo, streamVars, dbVars
<1>3. /\ StoredPath' = StoredPath /\ Driver' = Driver /\ UseConstraints' = UseConstraints
      /\ BatchSize' = BatchSize
  BY <1>2 DEF StoredPath, Driver, UseConstraints, BatchSize
<1>4. /\ Typed /\ PathsPlace /\ PhasePlace /\ StmtsPlace /\ BatchPlace /\ KeptPlace
      /\ PostgresPlace /\ ClickhousePlace /\ CleanPlace /\ ForksNeverMix
  BY DEF FInv
<1>5. /\ Removed' = Removed /\ (NothingHeldAtUndo' <=> NothingHeldAtUndo)
      /\ (TombstonesFit' <=> TombstonesFit) /\ Represented' = Represented
  BY <1>2, <1>3, ConfigKept DEF Removed, InBlocks, NothingHeldAtUndo
<1>6. /\ pos \in Blocks /\ chain \in Blocks /\ StoredPath \in Blocks
      /\ Len(pos) \in Nat /\ Len(chain) \in Nat /\ Len(StoredPath) \in Nat
      /\ StopBlock \in Nat /\ Len(pos) <= StopBlock /\ config \in Config /\ tables \subseteq Row
      /\ Len(holding) \in Nat /\ (holding = <<>> <=> Len(holding) = 0)
  BY <1>4, PathsKnown, ConfigType DEF Typed
<1>7. /\ n \in Nat /\ Agree(pos, chain, n)
      /\ \A m \in Nat : Agree(pos, chain, m) => m <= n
  BY <1>1, <1>6, CommonIsLongest
<1>8. n <= Len(pos) /\ pos' \in Blocks /\ Len(pos') = n /\ Agree(pos', pos, n)
  BY <1>2, <1>6, <1>7, PrefixOf DEF Agree
<1>9. /\ stmts' \in Seq(SUBSET Row)
      /\ \A r \in All(stmts') : r \in tables /\ r.num > n
      /\ \A r \in Removed : r.num > n => r \in All(stmts')
      /\ Driver = "postgres" => Len(stmts') <= 1
  BY <1>2, <1>6, UndoRemoves
<1>10. \A r \in tables : r.num \in Nat
  BY <1>6 DEF Row
<1>11. Removed \subseteq tables
  BY DEF Removed, InBlocks
<1>12. reorgs # 0
  <2>1. reorgs = 0 => Agree(pos, chain, Len(pos))
    BY <1>4 DEF PathsPlace
  <2>2. QED
    BY <1>2, <1>6, <2>1, PrefixAgrees
<1>13. NothingHeldAtUndo =>
         holding = <<>> /\ Len(StoredPath) = Len(pos) /\ Agree(StoredPath, pos, Len(pos))
  BY <1>2, <1>4, <1>6, <1>12 DEF NothingHeldAtUndo, BatchPlace
<1>14. Typed'
  <2>1. Len(pos') <= StopBlock
    BY <1>6, <1>7, <1>8
  <2>2. QED
    BY <1>2, <1>3, <1>4, <1>8, <1>9, <2>1 DEF Typed
<1>15. PathsPlace'
  <2>1. ASSUME NEW i \in 1 .. Len(pos')
        PROVE  pos'[i].fork <= reorgs /\ (i > Len(chain) => pos'[i].fork < reorgs)
    <3>1. i \in 1 .. Len(pos) /\ pos'[i] = pos[i]
      BY <1>6, <1>7, <1>8 DEF Agree
    <3>2. QED
      BY <1>4, <3>1 DEF PathsPlace, Stale
  <2>2. QED
    BY <1>2, <1>3, <1>4, <1>12, <2>1 DEF PathsPlace, Stale
<1>16. PhasePlace'
  BY <1>2, <1>12 DEF PhasePlace
<1>17. StmtsPlace'
  BY <1>2, <1>3, <1>8, <1>9 DEF StmtsPlace
<1>18. BatchPlace'
  <2>1. ASSUME NothingHeldAtUndo
        PROVE  /\ Agree(pos', StoredPath, Len(pos'))
               /\ \A m \in 1 .. Len(StoredPath) : Agree(StoredPath, chain, m) => m <= Len(pos')
    <3>1. Len(StoredPath) = Len(pos) /\ Agree(StoredPath, pos, Len(pos))
      BY <1>13, <2>1
    <3>2. Agree(pos, StoredPath, n)
      BY <1>6, <1>7, <1>8, <3>1, AgreeLess
    <3>3. Agree(pos', StoredPath, n)
      BY <1>8, <3>2, AgreeTrans
    <3>4. ASSUME NEW m \in 1 .. Len(StoredPath), Agree(StoredPath, chain, m) PROVE m <= n
      <4>1. m \in Nat /\ m <= Len(pos)
        BY <1>6, <3>1
      <4>2. Agree(pos, StoredPath, m)
        BY <1>6, <3>1, <4>1, AgreeLess
      <4>3. Agree(pos, chain, m)
        BY <3>4, <4>2, AgreeTrans
      <4>4. QED
        BY <1>7, <4>1, <4>3
    <3>5. QED
      BY <1>8, <3>3, <3>4
  <2>2. NothingHeldAtUndo =>
          /\ holding' = <<>> /\ Len(holding') <= Len(pos')
          /\ \A i \in 1 .. Len(holding') : FALSE
    BY <1>2, <1>6, <1>7, <1>8, <1>13
  <2>3. phase' \notin {"idle", "flushing"}
    BY <1>2
  <2>4. ASSUME NothingHeldAtUndo'
        PROVE  /\ Len(holding') <= Len(pos')
               /\ \A i \in 1 .. Len(holding') :
                    holding'[i] = Held(pos', (Len(pos') - Len(holding')) + i)
               /\ holding' = <<>>
               /\ Agree(pos', StoredPath', Len(pos'))
               /\ \A m \in 1 .. Len(StoredPath') :
                    Agree(StoredPath', chain', m) => m <= Len(pos')
    BY <1>2, <1>3, <1>5, <2>1, <2>2, <2>4
  <2>5. QED
    BY <2>3, <2>4 DEF BatchPlace
<1>19. KeptPlace'
  BY <1>2, <1>3, <1>4, <1>5 DEF KeptPlace, Kept
<1>20. PostgresPlace'
  <2>1. ASSUME Driver = "postgres", UseConstraints, NothingHeldAtUndo
        PROVE  \E m \in 0 .. Len(StoredPath) : StoredTo(m)'
    <3>1. PICK m \in 0 .. Len(StoredPath) : StoredTo(m)
      BY <1>4, <2>1 DEF PostgresPlace
    <3>2. n <= m
      <4>1. CASE n = 0
        BY <4>1
      <4>2. CASE n # 0
        <5>1. Len(StoredPath) = Len(pos) /\ Agree(StoredPath, pos, Len(pos))
          BY <1>13, <2>1
        <5>2. Agree(StoredPath, pos, n)
          BY <1>6, <1>7, <1>8, <5>1, AgreeLess
        <5>3. Agree(StoredPath, chain, n)
          BY <1>7, <5>2, AgreeTrans
        <5>4. n \in 1 .. Len(StoredPath)
          BY <1>6, <1>7, <1>8, <4>2, <5>1
        <5>5. QED
          BY <3>1, <5>3, <5>4 DEF StoredTo
      <4>3. QED
        BY <4>1, <4>2
    <3>3. StoredTo(m)'
      BY <1>2, <1>3, <1>8, <3>1, <3>2 DEF StoredTo
    <3>4. QED
      BY <3>3
  <2>2. QED
    BY <1>2, <1>3, <1>5, <2>1 DEF PostgresPlace
<1>21. ClickhousePlace'
  <2>1. ASSUME Driver = "clickhouse", faults = 0, TombstonesFit, NothingHeldAtUndo, NEW r \in tables
        PROVE  r \in RowsTo(pos', Len(pos')) \/ r \in All(stmts')
    <3>1. r \in RowsTo(pos, Len(pos))
      BY <1>2, <1>4, <2>1 DEF ClickhousePlace
    <3>2. r.num \in Nat
      BY <1>10
    <3>3. CASE r.num <= n
      <4>1. r \in RowsTo(pos, n)
        BY <1>6, <1>7, <3>1, <3>3, RowsToByNumber
      <4>2. RowsTo(pos', n) = RowsTo(pos, n)
        BY <1>7, <1>8, RowsAgree
      <4>3. QED
        BY <1>8, <4>1, <4>2
    <3>4. CASE ~ (r.num <= n)
      <4>1. r.num > n
        BY <1>7, <3>2, <3>4
      <4>2. Removed = tables
        BY <2>1 DEF Removed
      <4>3. QED
        BY <1>9, <4>1, <4>2
    <3>5. QED
      BY <3>3, <3>4
  <2>2. QED
    BY <1>2, <1>3, <1>5, <2>1 DEF ClickhousePlace
<1>22. CleanPlace'
  <2>1. ASSUME NEW r \in Removed PROVE r.num <= Len(pos') \/ r \in All(stmts')
    <3>1. r.num \in Nat
      BY <1>10, <1>11
    <3>2. r.num <= n \/ r.num > n
      BY <1>7, <3>1
    <3>3. QED
      BY <1>8, <1>9, <3>2
  <2>2. QED
    BY <1>2, <1>4, <1>5, <1>12, <2>1 DEF CleanPlace
<1>23. ForksNeverMix'
  BY <1>2, <1>3, <1>4 DEF ForksNeverMix, InBlocks
<1>24. QED
  BY <1>14, <1>15, <1>16, <1>17, <1>18, <1>19, <1>20, <1>21, <1>22, <1>23 DEF FInv

\* A statement of an undo, or of the cleaning when the process starts.
LEMMA ExecUndoInv == ASSUME FInv, ExecUndo PROVE FInv'
<1>1. /\ phase \in {"undoing", "cleaning"} /\ stmts # <<>>
      /\ stmts' = Tail(stmts)
      /\ phase' = (IF phase = "cleaning" /\ Len(stmts) = 1 THEN "idle" ELSE phase)
      /\ config' = config /\ chain' = chain /\ lib' = lib /\ reorgs' = reorgs
      /\ pos' = pos /\ holding' = holding
      /\ lastApplied' = lastApplied /\ cursor' = cursor /\ faults' = faults
  BY DEF ExecUndo, streamVars
<1>2. /\ StoredPath' = StoredPath /\ Driver' = Driver /\ UseConstraints' = UseConstraints
      /\ BatchSize' = BatchSize
  BY <1>1 DEF StoredPath, Driver, UseConstraints, BatchSize
<1>3. /\ Typed /\ PathsPlace /\ PhasePlace /\ StmtsPlace /\ BatchPlace /\ KeptPlace
      /\ PostgresPlace /\ ClickhousePlace /\ CleanPlace /\ ForksNeverMix
  BY DEF FInv
<1>4. (NothingHeldAtUndo' <=> NothingHeldAtUndo) /\ (TombstonesFit' <=> TombstonesFit)
  BY <1>1, <1>2, ConfigKept DEF NothingHeldAtUndo
<1>5. /\ pos \in Blocks /\ chain \in Blocks /\ StoredPath \in Blocks
      /\ Len(pos) \in Nat /\ Len(chain) \in Nat /\ Len(StoredPath) \in Nat
      /\ Len(holding) \in Nat /\ (holding = <<>> <=> Len(holding) = 0)
      /\ tables \subseteq Row
  BY <1>3, PathsKnown DEF Typed
<1>6. /\ stmts' \in Seq(SUBSET Row) /\ Len(stmts') = Len(stmts) - 1 /\ Len(stmts) \in Nat
      /\ All(stmts) = Head(stmts) \union All(stmts')
      /\ Len(stmts) <= 1 => stmts' = <<>>
  BY <1>1, <1>3, NextStatement DEF Typed
<1>7. /\ \A r \in All(stmts) : r.num > Len(pos)
      /\ Driver = "postgres" => Len(stmts) <= 1
  BY <1>1, <1>3 DEF StmtsPlace
<1>8. TombstonesFit => \A r \in Removed : r.num <= Len(pos) \/ r \in All(stmts)
  BY <1>1, <1>3 DEF CleanPlace
<1>9. /\ tables' \subseteq tables
      /\ TombstonesFit => \A r : r \in tables' <=> r \in tables /\ r \notin Head(stmts)
      /\ Driver = "postgres" => TombstonesFit
  <2>1. PICK gone \in Hidden(Head(stmts)) : tables' = tables \ gone
    BY DEF ExecUndo
  <2>2. TombstonesFit => gone = Head(stmts)
    <3>1. config \in Config /\ Head(stmts) \in SUBSET Row
      BY <1>1, <1>3, ConfigType, NextStatement DEF Typed
    <3>2. QED
      BY <3>1, HiddenFits
  <2>3. Driver = "postgres" => TombstonesFit
    BY DEF TombstonesFit
  <2>4. QED
    BY <2>1, <2>2, <2>3
<1>10. Removed' \subseteq Removed /\ Removed' \subseteq tables'
  BY <1>2, <1>9 DEF Removed, InBlocks
<1>11. TombstonesFit => \A r \in Removed' : r.num <= Len(pos) \/ r \in All(stmts')
  <2>1. ASSUME TombstonesFit, NEW r \in Removed' PROVE r.num <= Len(pos) \/ r \in All(stmts')
    <3>1. r \in Removed /\ r \notin Head(stmts)
      BY <1>10, <1>9, <2>1
    <3>2. QED
      BY <1>6, <1>8, <2>1, <3>1
  <2>2. QED
    BY <2>1
<1>12. phase = "cleaning" =>
         /\ pos = cursor /\ StoredPath = pos /\ holding = <<>> /\ lastApplied = 0
         /\ cursor # NoCursor
  <2>1. phase = "cleaning" => cursor # NoCursor /\ pos = cursor /\ holding = <<>> /\ lastApplied = 0
    BY <1>3 DEF PhasePlace
  <2>2. QED
    BY <2>1 DEF StoredPath
<1>13. phase' \in {"undoing", "cleaning", "idle"} /\ (phase' = "idle" => phase = "cleaning" /\ stmts' = <<>>)
       /\ (phase' = "undoing" <=> phase = "undoing") /\ (phase' = "cleaning" => phase = "cleaning")
  BY <1>1, <1>6
<1>14. Typed'
  BY <1>1, <1>2, <1>3, <1>6, <1>9, <1>13 DEF Typed
<1>15. PathsPlace'
  BY <1>1, <1>2, <1>3 DEF PathsPlace, Stale
<1>16. PhasePlace'
  BY <1>1, <1>2, <1>3, <1>12, <1>13 DEF PhasePlace
<1>17. StmtsPlace'
  <2>1. Driver = "postgres" => Len(stmts') <= 1
    BY <1>6, <1>7
  <2>2. QED
    BY <1>1, <1>2, <1>6, <1>7, <1>13, <2>1 DEF StmtsPlace
<1>18. BatchPlace'
  <2>1. ASSUME NothingHeldAtUndo, phase = "cleaning"
        PROVE  /\ Len(StoredPath) = Len(pos) - Len(holding)
               /\ Agree(StoredPath, pos, Len(StoredPath))
    BY <1>5, <1>12, <2>1 DEF Agree
  <2>2. ASSUME NothingHeldAtUndo
        PROVE  /\ Len(holding) <= Len(pos)
               /\ \A i \in 1 .. Len(holding) :
                    holding[i] = Held(pos, (Len(pos) - Len(holding)) + i)
               /\ phase \in {"undoing", "undone"} => holding = <<>>
               /\ phase = "undoing" =>
                    /\ Agree(pos, StoredPath, Len(pos))
                    /\ \A n \in 1 .. Len(StoredPath) : Agree(StoredPath, chain, n) => n <= Len(pos)
    BY <1>3, <2>2 DEF BatchPlace
  <2>3. QED
    BY <1>1, <1>2, <1>4, <1>12, <1>13, <2>1, <2>2 DEF BatchPlace
<1>19. KeptPlace'
  <2>1. ASSUME NothingHeldAtUndo, TombstonesFit,
               NEW n \in 1 .. Len(StoredPath), Agree(StoredPath, chain, n)
        PROVE  RowsAt(StoredPath, n) \subseteq Represented'
    <3>1. n <= Len(pos)
      BY <1>1, <1>3, <1>5, <1>12, <2>1 DEF BatchPlace
    <3>2. RowsAt(StoredPath, n) \subseteq Represented
      BY <1>3, <2>1 DEF KeptPlace, Kept
    <3>3. ASSUME NEW r \in RowsAt(StoredPath, n) PROVE r \in Represented'
      <4>1. r.num = n
        BY RowsAtShape
      <4>2. ~ (n > Len(pos))
        BY <1>5, <3>1
      <4>3. \A q \in tables : q.num = r.num => q \in tables'
        BY <1>6, <1>7, <1>9, <2>1, <4>1, <4>2
      <4>4. QED
        BY <1>1, <3>2, <4>3, StillRepresented
    <3>4. QED
      BY <3>3
  <2>2. phase' \notin {"flushed", "undone"}
    BY <1>13
  <2>3. QED
    BY <1>1, <1>2, <1>4, <2>1, <2>2 DEF KeptPlace, Kept
<1>20. ASSUME Driver = "postgres", UseConstraints, NEW r
       PROVE  r \in tables' <=> r \in tables /\ r.num <= Len(pos)
  <2>1. Removed = tables
    BY <1>20 DEF Removed
  <2>2. All(stmts) = Head(stmts)
    <3>1. stmts' = <<>>
      BY <1>6, <1>7, <1>20
    <3>2. QED
      BY <1>6, <3>1, FewStatements
  <2>3. r \in tables => r.num \in Nat
    BY <1>5 DEF Row
  <2>4. r \in Head(stmts) /\ r \in tables => ~ (r.num <= Len(pos))
    BY <1>5, <1>7, <2>2, <2>3
  <2>5. QED
    <3>1. TombstonesFit
      BY <1>9, <1>20
    <3>2. r \in tables' <=> r \in tables /\ r \notin Head(stmts)
      BY <1>9, <3>1
    <3>3. r \in tables => r.num <= Len(pos) \/ r \in Head(stmts)
      BY <1>8, <2>1, <2>2, <3>1
    <3>4. QED
      BY <2>4, <3>2, <3>3
<1>21. PostgresPlace'
  <2>1. ASSUME Driver = "postgres", UseConstraints, NothingHeldAtUndo
        PROVE  \E m \in 0 .. Len(StoredPath) : StoredTo(m)'
    <3>1. PICK m \in 0 .. Len(StoredPath) : StoredTo(m)
      BY <1>3, <2>1 DEF PostgresPlace
    <3>2. tables = RowsTo(StoredPath, m) /\ m \in Nat
      BY <3>1 DEF StoredTo
    <3>3. CASE phase = "cleaning"
      <4>1. ASSUME NEW r \in tables PROVE r \in tables'
        <5>1. r.num \in 1 .. m
          BY <3>2, RowsToByNumber
        <5>2. r.num <= Len(pos)
          BY <1>5, <1>12, <3>1, <3>3, <5>1
        <5>3. QED
          BY <1>20, <2>1, <5>2
      <4>2. tables' = tables
        BY <1>9, <4>1
      <4>3. phase' \in {"cleaning", "idle"}
        BY <1>13, <3>3
      <4>4. StoredTo(m)'
        BY <1>1, <1>2, <3>1, <4>2, <4>3 DEF StoredTo
      <4>5. QED
        BY <4>4
    <3>4. CASE phase = "undoing"
      <4>1. /\ Len(pos) <= m /\ Len(pos) \in 0 .. Len(StoredPath)
            /\ \A n \in 1 .. Len(StoredPath) : Agree(StoredPath, chain, n) => n <= Len(pos)
        BY <1>3, <1>5, <2>1, <3>1, <3>4 DEF StoredTo, BatchPlace
      <4>2. ASSUME NEW r \in tables' PROVE r \in RowsTo(StoredPath, Len(pos))
        <5>1. r \in RowsTo(StoredPath, m) /\ r.num <= Len(pos)
          BY <1>20, <2>1, <3>2
        <5>2. QED
          BY <1>5, <3>2, <5>1, RowsToByNumber
      <4>3. ASSUME NEW r \in RowsTo(StoredPath, Len(pos)) PROVE r \in tables'
        <5>1. r.num \in 1 .. Len(pos)
          BY <1>5, RowsToByNumber
        <5>2. r \in tables
          BY <1>5, <3>2, <4>1, RowsToMore
        <5>3. r.num <= Len(pos)
          BY <1>5, <5>1
        <5>4. QED
          BY <1>20, <2>1, <5>2, <5>3
      <4>4. PICK k : k = Len(pos)
        OBVIOUS
      <4>5. tables' = RowsTo(StoredPath, k)
        BY <4>2, <4>3, <4>4
      <4>6. phase' = "undoing" /\ Len(pos) <= k
        BY <1>5, <1>13, <3>4, <4>4
      <4>7. StoredTo(k)'
        BY <1>1, <1>2, <4>1, <4>4, <4>5, <4>6 DEF StoredTo
      <4>8. QED
        BY <4>1, <4>4, <4>7
    <3>5. QED
      BY <1>1, <3>3, <3>4
  <2>2. QED
    BY <1>1, <1>2, <1>4, <2>1 DEF PostgresPlace
<1>22. ClickhousePlace'
  <2>1. ASSUME Driver = "clickhouse", faults = 0, TombstonesFit PROVE phase = "undoing"
    BY <1>1, <1>3, <2>1 DEF ClickhousePlace
  <2>2. ASSUME Driver = "clickhouse", faults = 0, TombstonesFit, NothingHeldAtUndo, NEW r \in tables'
        PROVE  r \in RowsTo(pos, Len(pos)) \/ r \in All(stmts')
    <3>1. r \in tables /\ r \notin Head(stmts)
      BY <1>9, <2>2
    <3>2. r \in RowsTo(pos, Len(pos)) \/ r \in All(stmts)
      BY <1>3, <2>2, <3>1 DEF ClickhousePlace
    <3>3. QED
      BY <1>6, <3>1, <3>2
  <2>3. QED
    BY <1>1, <1>2, <1>4, <1>13, <2>1, <2>2 DEF ClickhousePlace
<1>23. CleanPlace'
  <2>1. TombstonesFit /\ phase' = "idle" => \A r \in Removed' : r.num <= Len(pos)
    BY <1>11, <1>13, FewStatements
  <2>2. reorgs = 0 => tables' \subseteq RowsTo(chain, Len(chain))
    BY <1>3, <1>9 DEF CleanPlace
  <2>3. QED
    BY <1>1, <1>4, <1>11, <1>13, <2>1, <2>2 DEF CleanPlace
<1>24. ForksNeverMix'
  <2>1. ASSUME Driver = "postgres", UseConstraints
        PROVE  /\ \A r, q \in tables' : r.num = q.num => r.fork = q.fork
               /\ \A r \in tables' : \E b \in InBlocks(tables') : b.num = r.num
    <3>1. /\ \A r, q \in tables : r.num = q.num => r.fork = q.fork
          /\ \A r \in tables : \E b \in InBlocks(tables) : b.num = r.num
      BY <1>3, <2>1 DEF ForksNeverMix
    <3>2. ASSUME NEW r \in tables' PROVE \E b \in InBlocks(tables') : b.num = r.num
      <4>1. r \in tables /\ r.num <= Len(pos)
        BY <1>20, <2>1
      <4>2. PICK b \in InBlocks(tables) : b.num = r.num
        BY <3>1, <4>1
      <4>3. b \in tables /\ b.key = BlockRow
        BY <4>2 DEF InBlocks
      <4>4. b \in tables'
        BY <1>20, <2>1, <4>1, <4>2, <4>3
      <4>5. QED
        BY <4>2, <4>3, <4>4 DEF InBlocks
    <3>3. QED
      BY <1>9, <3>1, <3>2
  <2>2. QED
    BY <1>2, <2>1 DEF ForksNeverMix, InBlocks
<1>25. QED
  BY <1>14, <1>15, <1>16, <1>17, <1>18, <1>19, <1>21, <1>22, <1>23, <1>24 DEF FInv

\* An undo ends with the cursor.
LEMMA UndoEndsInv == ASSUME FInv, UndoEnds PROVE FInv'
<1>1. /\ phase = "undone" \/ (phase = "undoing" /\ stmts = <<>> /\ Driver # "clickhouse")
      /\ cursor' = pos /\ phase' = "idle"
      /\ config' = config /\ chain' = chain /\ lib' = lib /\ reorgs' = reorgs
      /\ pos' = pos /\ holding' = holding
      /\ lastApplied' = lastApplied /\ stmts' = stmts /\ tables' = tables /\ faults' = faults
  BY DEF UndoEnds, streamVars
<1>2. /\ Driver' = Driver /\ UseConstraints' = UseConstraints /\ BatchSize' = BatchSize
  BY <1>1 DEF Driver, UseConstraints, BatchSize
<1>3. /\ Typed /\ PathsPlace /\ PhasePlace /\ StmtsPlace /\ BatchPlace /\ KeptPlace
      /\ PostgresPlace /\ ClickhousePlace /\ CleanPlace /\ ForksNeverMix
  BY DEF FInv
<1>4. /\ Removed' = Removed /\ (NothingHeldAtUndo' <=> NothingHeldAtUndo)
      /\ (TombstonesFit' <=> TombstonesFit) /\ Represented' = Represented
  BY <1>1, <1>2, ConfigKept DEF Removed, InBlocks, NothingHeldAtUndo
<1>5. /\ pos \in Blocks /\ chain \in Blocks /\ StoredPath \in Blocks
      /\ Len(pos) \in Nat /\ Len(chain) \in Nat /\ Len(StoredPath) \in Nat
      /\ Len(holding) \in Nat /\ (holding = <<>> <=> Len(holding) = 0)
      /\ Len(pos) <= StopBlock /\ StopBlock \in Nat
  BY <1>3, PathsKnown, ConfigType DEF Typed
<1>6. StoredPath' = pos
  BY <1>1, <1>5, StoredIsPath DEF StoredPath
<1>7. stmts = <<>> /\ (phase = "undone" => Driver = "clickhouse")
  BY <1>1, <1>3 DEF PhasePlace
<1>8. reorgs # 0
  BY <1>1, <1>3 DEF PhasePlace
<1>9. NothingHeldAtUndo => holding = <<>>
  BY <1>1, <1>3 DEF BatchPlace
<1>10. \A r : r \notin All(stmts)
  BY <1>7, FewStatements
<1>11. Typed'
  BY <1>1, <1>3, <1>5, <1>6 DEF Typed
<1>12. PathsPlace'
  BY <1>1, <1>3, <1>6, <1>8 DEF PathsPlace, Stale
<1>13. PhasePlace'
  BY <1>1, <1>7 DEF PhasePlace
<1>14. StmtsPlace'
  BY <1>1 DEF StmtsPlace
<1>15. BatchPlace'
  <2>1. ASSUME NothingHeldAtUndo
        PROVE  /\ Len(holding) <= Len(pos) /\ \A i \in 1 .. Len(holding) : FALSE
               /\ Len(pos) = Len(pos) - Len(holding) /\ Agree(pos, pos, Len(pos))
               /\ holding = <<>>
    BY <1>5, <1>9, <2>1 DEF Agree
  <2>2. QED
    BY <1>1, <1>4, <1>6, <2>1 DEF BatchPlace
<1>16. KeptPlace'
  <2>1. ASSUME NothingHeldAtUndo, TombstonesFit, NEW n \in 1 .. Len(pos), Agree(pos, chain, n)
        PROVE  RowsAt(pos, n) \subseteq Represented
    <3>1. CASE phase = "undone"
      BY <1>3, <2>1, <3>1 DEF KeptPlace, Kept
    <3>2. CASE phase = "undoing"
      BY <1>3, <2>1, <3>2, UndoneKept
    <3>3. QED
      BY <1>1, <3>1, <3>2
  <2>2. QED
    BY <1>1, <1>4, <1>6, <2>1 DEF KeptPlace, Kept
<1>17. PostgresPlace'
  <2>1. PICK k : k = Len(pos)
    OBVIOUS
  <2>2. ASSUME Driver = "postgres", UseConstraints, NothingHeldAtUndo PROVE StoredTo(k)'
    <3>1. phase = "undoing"
      BY <1>1, <1>7, <2>2
    <3>2. PICK m \in 0 .. Len(StoredPath) : StoredTo(m)
      BY <1>3, <2>2 DEF PostgresPlace
    <3>3. tables = RowsTo(StoredPath, m) /\ Len(pos) <= m /\ m \in Nat
      BY <3>1, <3>2 DEF StoredTo
    <3>4. Agree(pos, StoredPath, Len(pos))
      BY <1>3, <2>2, <3>1 DEF BatchPlace
    <3>5. RowsTo(pos, Len(pos)) = RowsTo(StoredPath, Len(pos))
      BY <1>5, <3>4, RowsAgree
    <3>6. \A r \in tables : r.num <= Len(pos)
      <4>1. Removed = tables
        BY <2>2 DEF Removed
      <4>2. TombstonesFit
        BY <2>2 DEF TombstonesFit
      <4>3. QED
        BY <1>3, <1>10, <3>1, <4>1, <4>2 DEF CleanPlace
    <3>7. tables \subseteq RowsTo(StoredPath, Len(pos))
      BY <1>5, <3>3, <3>6, RowsToByNumber
    <3>8. RowsTo(StoredPath, Len(pos)) \subseteq tables
      BY <1>5, <3>3, RowsToMore
    <3>9. tables = RowsTo(pos, k)
      BY <2>1, <3>5, <3>7, <3>8
    <3>10. \A n \in 1 .. Len(pos) : n <= k
      BY <1>5, <2>1
    <3>11. QED
      BY <1>1, <1>6, <2>1, <3>9, <3>10 DEF StoredTo
  <2>3. k \in 0 .. Len(StoredPath')
    BY <1>5, <1>6, <2>1
  <2>4. QED
    BY <1>2, <1>4, <2>2, <2>3 DEF PostgresPlace
<1>18. ClickhousePlace'
  BY <1>1, <1>2, <1>3, <1>4, <1>10 DEF ClickhousePlace
<1>19. CleanPlace'
  <2>1. TombstonesFit /\ lastApplied = 0 /\ holding = <<>> => \A r \in Removed : r.num <= Len(pos)
    <3>1. phase # "down" /\ phase # "idle"
      BY <1>1
    <3>2. QED
      BY <1>3, <1>10, <3>1 DEF CleanPlace
  <2>2. QED
    BY <1>1, <1>4, <1>8, <2>1 DEF CleanPlace
<1>20. ForksNeverMix'
  BY <1>1, <1>2, <1>3 DEF ForksNeverMix, InBlocks
<1>21. QED
  BY <1>11, <1>12, <1>13, <1>14, <1>15, <1>16, <1>17, <1>18, <1>19, <1>20 DEF FInv

-----------------------------------------------------------------------------
(* The theorems.                                                           *)

\* Every step keeps the invariant.
LEMMA NextInv == ASSUME FInv, [Next]_vars PROVE FInv'
<1>1. CASE UNCHANGED vars
  <2>1. /\ UNCHANGED <<config, chain, lib, reorgs>> /\ UNCHANGED <<tables, cursor>>
        /\ UNCHANGED <<phase, pos, holding, lastApplied, stmts>> /\ faults' = faults
    BY <1>1 DEF vars, streamVars, processVars, dbVars
  <2>2. /\ Typed /\ PathsPlace /\ PhasePlace /\ StmtsPlace /\ BatchPlace /\ KeptPlace
        /\ PostgresPlace /\ ClickhousePlace /\ CleanPlace /\ ForksNeverMix
    BY DEF FInv
  <2>3. /\ StoredPath' = StoredPath /\ Driver' = Driver /\ UseConstraints' = UseConstraints
        /\ BatchSize' = BatchSize
    BY <2>1 DEF StoredPath, Driver, UseConstraints, BatchSize
  <2>4. /\ Removed' = Removed /\ (NothingHeldAtUndo' <=> NothingHeldAtUndo)
        /\ (TombstonesFit' <=> TombstonesFit) /\ Represented' = Represented
    BY <2>1, <2>3, ConfigKept DEF Removed, InBlocks, NothingHeldAtUndo
  <2>5. Typed' /\ PathsPlace' /\ PhasePlace' /\ StmtsPlace'
    BY <2>1, <2>2, <2>3, <2>4 DEF Typed, PathsPlace, Stale, PhasePlace, StmtsPlace
  <2>6. BatchPlace' /\ KeptPlace'
    BY <2>1, <2>2, <2>3, <2>4 DEF BatchPlace, KeptPlace, Kept
  <2>7. PostgresPlace'
    <3>1. \A m : StoredTo(m) => StoredTo(m)'
      BY <2>1, <2>3 DEF StoredTo
    <3>2. QED
      BY <2>1, <2>2, <2>3, <2>4, <3>1 DEF PostgresPlace
  <2>8. ClickhousePlace' /\ CleanPlace' /\ ForksNeverMix'
    BY <2>1, <2>2, <2>3, <2>4 DEF ClickhousePlace, CleanPlace, ForksNeverMix, InBlocks
  <2>9. QED
    BY <2>5, <2>6, <2>7, <2>8 DEF FInv
<1>2. CASE Next
  <2>1. ASSUME NEW rows \in SUBSET Entity, NEW h \in 0 .. StopBlock, Extend(rows, h) PROVE FInv'
    BY <2>1, ExtendInv
  <2>2. ASSUME NEW n \in 0 .. StopBlock, Reorg(n) PROVE FInv'
    BY <2>2, ReorgInv, FromProtoAssumption
  <2>3. CASE Run
    BY <2>3, RunInv
  <2>4. ASSUME NEW live \in BOOLEAN, NEW slow \in BOOLEAN, HandleBlock(live, slow) PROVE FInv'
    BY <2>4, HandleBlockInv
  <2>5. CASE RangeCompletion
    BY <2>5, RangeCompletionInv
  <2>6. CASE ExecStatement \/ FlushEnds \/ CommitFlush \/ RefuseFlush
    BY <2>6, ExecStatementInv, FlushEndsInv, CommitFlushInv, RefuseFlushInv
  <2>7. CASE TruncateCursor \/ WriteCursor
    BY <2>7, TruncateCursorInv, WriteCursorInv
  <2>8. CASE Undo \/ ExecUndo \/ RefuseUndo \/ UndoEnds
    BY <2>8, UndoInv, ExecUndoInv, RefuseUndoInv, UndoEndsInv
  <2>9. CASE Crash
    BY <2>9, CrashInv
  <2>10. CASE Finished
    BY <1>1, <2>10 DEF Finished
  <2>11. QED
    BY <1>2, <2>1, <2>2, <2>3, <2>4, <2>5, <2>6, <2>7, <2>8, <2>9, <2>10 DEF Next, Progress
<1>3. QED
  BY <1>1, <1>2

\* The invariant holds in every state of every behaviour.
THEOREM FromProtoInvariance == Spec => []FInv
<1>1. Init => FInv
  BY InitInv
<1>2. FInv /\ [Next]_vars => FInv'
  BY NextInv
<1>3. QED
  BY <1>1, <1>2, PTL DEF Spec

\* As long as the chain still has the block of the cursor, every row of the blocks up to it
\* is in the tables, or was replaced by a row of the same block and key, whatever a flush, a
\* crash or an undo left behind; on ClickHouse with tombstones that fit their tables.
THEOREM NothingIsMissing == Spec => []NothingMissing
<1>1. ASSUME FInv PROVE NothingMissing
  <2>1. Typed /\ KeptPlace
    BY <1>1 DEF FInv
  <2>2. StoredPath \in Blocks /\ chain \in Blocks /\ Len(StoredPath) \in Nat
    BY <2>1, PathsKnown
  <2>3. ASSUME NothingHeldAtUndo, TombstonesFit, IsPrefix(StoredPath, chain),
               NEW r \in Content(StoredPath)
        PROVE  r \in Represented
    <3>1. PICK n \in 1 .. Len(StoredPath) : r \in RowsAt(StoredPath, n)
      BY <2>2, <2>3, ContentRowsTo, RowsToIs
    <3>2. Agree(StoredPath, chain, Len(StoredPath)) /\ n \in Nat /\ n <= Len(StoredPath)
      BY <2>2, <2>3, PrefixAgrees
    <3>3. Agree(StoredPath, chain, n)
      BY <2>2, <3>2, AgreeLess
    <3>4. QED
      BY <2>1, <2>3, <3>1, <3>3 DEF KeptPlace, Kept
  <2>4. QED
    BY <2>3 DEF NothingMissing
<1>2. QED
  BY <1>1, FromProtoInvariance, PTL

\* While the sinker waits for a message, the tables hold rows only of blocks it was sent and
\* has not been told to undo; on ClickHouse without faults and with tombstones that fit.
THEOREM OnlyBlocksSent == Spec => []OnlyValidBlocks
<1>1. ASSUME FInv PROVE OnlyValidBlocks
  <2>1. Typed /\ BatchPlace /\ PostgresPlace /\ ClickhousePlace
    BY <1>1 DEF FInv
  <2>2. /\ StoredPath \in Blocks /\ pos \in Blocks /\ Len(StoredPath) \in Nat /\ Len(pos) \in Nat
        /\ Content(pos) = RowsTo(pos, Len(pos)) /\ Len(holding) \in Nat
    BY <2>1, PathsKnown, ContentRowsTo
  <2>3. ASSUME NothingHeldAtUndo, UndoDeletesAll, phase = "idle" PROVE tables \subseteq Content(pos)
    <3>1. CASE Driver = "postgres" /\ UseConstraints
      <4>1. PICK m \in 0 .. Len(StoredPath) : tables = RowsTo(StoredPath, m)
        BY <2>1, <2>3, <3>1 DEF PostgresPlace, StoredTo
      <4>2. Agree(StoredPath, pos, Len(StoredPath)) /\ Len(StoredPath) <= Len(pos)
        BY <2>1, <2>3 DEF BatchPlace, Agree
      <4>3. m \in Nat /\ m <= Len(StoredPath) /\ m <= Len(pos)
        BY <2>2, <4>2
      <4>4. RowsTo(StoredPath, m) = RowsTo(pos, m)
        BY <2>2, <4>2, <4>3, AgreeLess, RowsAgree
      <4>5. RowsTo(pos, m) \subseteq RowsTo(pos, Len(pos))
        BY <2>2, <4>3, RowsToMore
      <4>6. QED
        BY <2>2, <4>1, <4>4, <4>5
    <3>2. CASE Driver = "clickhouse" /\ faults = 0 /\ TombstonesFit
      BY <2>1, <2>2, <2>3, <3>2 DEF ClickhousePlace
    <3>3. QED
      BY <2>3, <3>1, <3>2 DEF UndoDeletesAll
  <2>4. QED
    BY <2>3 DEF OnlyValidBlocks
<1>2. QED
  BY <1>1, FromProtoInvariance, PTL

\* What from-proto's transactions guarantee on PostgreSQL with constraints: the tables are
\* those of the stream, and rows of two forks of a block number never stand side by side.
THEOREM TransactionsFollowStream == Spec => []StreamInTables
<1>1. ASSUME FInv PROVE StreamInTables
  <2>1. Typed /\ BatchPlace /\ PostgresPlace /\ ForksNeverMix
    BY <1>1 DEF FInv
  <2>2. /\ StoredPath \in Blocks /\ pos \in Blocks /\ chain \in Blocks
        /\ Len(StoredPath) \in Nat /\ Len(pos) \in Nat /\ Len(holding) \in Nat /\ Len(chain) \in Nat
        /\ DOMAIN holding = 1 .. Len(holding) /\ DOMAIN chain = 1 .. Len(chain)
        /\ StopBlock \in Nat /\ config.reorgs \in Nat
    BY <2>1, PathsKnown, PathLength, ConfigType
  <2>3. TypeOK
    <3>1. ASSUME NEW p \in Blocks PROVE Path(p)
      BY <3>1, PathLength, ElementOfSeq DEF Path, Blocks
    <3>2. \A i \in DOMAIN holding : holding[i] \in Holder
      BY <2>1, <2>2, ElementOfSeq DEF Typed
    <3>3. \A i \in DOMAIN stmts : stmts[i] \subseteq Row
      <4>1. ASSUME NEW i \in DOMAIN stmts PROVE stmts[i] \in SUBSET Row
        <5>1. stmts \in Seq(SUBSET Row) /\ DOMAIN stmts = 1 .. Len(stmts)
          BY <2>1, LenProperties DEF Typed
        <5>2. QED
          BY <5>1, ElementOfSeq
      <4>2. QED
        BY <4>1
    <3>4. lib \in 0 .. StopBlock /\ reorgs \in 0 .. config.reorgs
      BY <2>1, <2>2 DEF Typed
    <3>5. QED
      BY <2>1, <3>1, <3>2, <3>3, <3>4 DEF Typed, TypeOK
  <2>4. TablesMatchStream
    <3>1. ASSUME Driver = "postgres", UseConstraints, NothingHeldAtUndo, phase = "idle"
          PROVE  \/ tables = Content(SubSeq(pos, 1, Len(pos) - Len(holding)))
                 \/ /\ ~ IsPrefix(pos, chain)
                    /\ \E n \in 0 .. Len(pos) : tables = Content(SubSeq(pos, 1, n))
      <4>1. PICK m \in 0 .. Len(StoredPath) : StoredTo(m)
        BY <2>1, <3>1 DEF PostgresPlace
      <4>2. /\ Len(StoredPath) = Len(pos) - Len(holding) /\ Agree(StoredPath, pos, Len(StoredPath))
            /\ Len(StoredPath) <= Len(pos)
        BY <2>1, <3>1 DEF BatchPlace, Agree
      <4>3. m \in Nat /\ m <= Len(StoredPath) /\ m <= Len(pos) /\ m \in 0 .. Len(pos)
        BY <2>2, <4>2
      <4>4. Content(SubSeq(pos, 1, m)) = tables
        <5>1. PICK q : q = SubSeq(pos, 1, m)
          OBVIOUS
        <5>2. q \in Blocks /\ Len(q) = m /\ Agree(q, pos, m)
          BY <2>2, <4>3, <5>1, PrefixOf
        <5>3. Content(q) = RowsTo(pos, m)
          BY <4>3, <5>2, ContentRowsTo, RowsAgree
        <5>4. Agree(StoredPath, pos, m)
          BY <2>2, <4>2, <4>3, AgreeLess
        <5>5. tables = RowsTo(pos, m)
          BY <4>1, <4>3, <5>4, RowsAgree DEF StoredTo
        <5>6. QED
          BY <5>1, <5>3, <5>5
      <4>5. CASE IsPrefix(pos, chain)
        <5>1. Agree(StoredPath, chain, Len(StoredPath))
          BY <2>1, <3>1, <4>5, StoredOnChain
        <5>2. Len(StoredPath) \in 1 .. Len(StoredPath) => Len(StoredPath) <= m
          BY <4>1, <5>1 DEF StoredTo
        <5>3. m = Len(pos) - Len(holding)
          BY <2>2, <4>2, <4>3, <5>2
        <5>4. QED
          BY <4>4, <5>3
      <4>6. QED
        BY <4>3, <4>4, <4>5
    <3>2. QED
      BY <3>1 DEF TablesMatchStream
  <2>5. QED
    BY <2>1, <2>3, <2>4 DEF StreamInTables
<1>2. QED
  BY <1>1, FromProtoInvariance, PTL

\* A process that found a cursor and has not written yet has nothing beyond the cursor, and
\* nothing of replaced blocks where the tables are those of the blocks of the chain; on
\* ClickHouse with tombstones that fit.
THEOREM CleanedAtStart == Spec => []CleanAtStart
<1>1. ASSUME FInv PROVE CleanAtStart
  <2>1. Typed /\ PathsPlace /\ PostgresPlace /\ CleanPlace
    BY <1>1 DEF FInv
  <2>2. /\ StoredPath \in Blocks /\ chain \in Blocks /\ Len(StoredPath) \in Nat /\ Len(chain) \in Nat
        /\ tables \subseteq Row
    BY <2>1, PathsKnown DEF Typed
  <2>3. ASSUME TombstonesFit, phase = "idle", lastApplied = 0, holding = <<>>, cursor # NoCursor, pos = cursor
        PROVE  /\ \A r \in Removed : r.num <= Len(cursor)
               /\ NothingHeldAtUndo /\ (reorgs = 0 \/ (Driver = "postgres" /\ UseConstraints)) =>
                    Removed \subseteq Content(cursor)
    <3>1. StoredPath = cursor
      BY <2>3 DEF StoredPath
    <3>2. \A r \in Removed : r.num <= Len(cursor)
      BY <2>1, <2>3 DEF CleanPlace
    <3>3. Content(cursor) = RowsTo(cursor, Len(cursor)) /\ Len(cursor) \in Nat
      BY <2>2, <3>1, ContentRowsTo
    <3>4. Removed \subseteq tables
      BY DEF Removed, InBlocks
    <3>5. CASE reorgs = 0
      <4>1. Agree(cursor, chain, Len(cursor)) /\ tables \subseteq RowsTo(chain, Len(chain))
        BY <2>1, <3>1, <3>5 DEF PathsPlace, CleanPlace
      <4>2. ASSUME NEW r \in Removed PROVE r \in RowsTo(cursor, Len(cursor))
        <5>1. r \in RowsTo(chain, Len(chain)) /\ r.num <= Len(cursor)
          BY <3>2, <3>4, <4>1
        <5>2. r \in RowsTo(chain, Len(cursor))
          BY <2>2, <3>3, <5>1, RowsToByNumber
        <5>3. QED
          BY <3>3, <4>1, <5>2, RowsAgree
      <4>3. QED
        BY <3>2, <3>3, <4>2
    <3>6. CASE Driver = "postgres" /\ UseConstraints
      <4>1. NothingHeldAtUndo => \E m \in 0 .. Len(cursor) : tables = RowsTo(cursor, m)
        BY <2>1, <3>1, <3>6 DEF PostgresPlace, StoredTo
      <4>2. \A m \in 0 .. Len(cursor) : RowsTo(cursor, m) \subseteq RowsTo(cursor, Len(cursor))
        BY <3>3, RowsToMore
      <4>3. QED
        BY <3>2, <3>3, <3>4, <4>1, <4>2
    <3>7. QED
      BY <3>2, <3>5, <3>6
  <2>4. QED
    BY <2>3 DEF CleanAtStart
<1>2. QED
  BY <1>1, FromProtoInvariance, PTL

=============================================================================
