----------------------------- MODULE LoaderProofs -----------------------------
(***************************************************************************)
(* What the loaders of DocumentLoading are built from: the sections, the   *)
(* outline and the text of a document of any size, and what the operators  *)
(* on lines, trees, tables, sheets and pages give.                         *)
(***************************************************************************)
EXTENDS DocumentLoading, FiniteSetTheorems, SequenceTheorems, WellFoundedInduction, TLAPS

-----------------------------------------------------------------------------
(* The addresses of the sections of a document.                             *)

\* Of two sections with one base, the later one has the higher copy number.
LEMMA CopiesGrow ==
    ASSUME NEW bases, NEW i \in Nat \ {0}, NEW j \in Nat \ {0}, i < j,
           bases[i] = bases[j]
    PROVE  Copy(bases, i) # Copy(bases, j)
<1> DEFINE Earlier(k) == {m \in 1 .. k - 1 : bases[m] = bases[k]}
<1>1. IsFiniteSet(1 .. j - 1)
    BY FS_Interval
<1>2. IsFiniteSet(Earlier(j))
    BY <1>1, FS_Subset
<1>3. Earlier(i) \subseteq Earlier(j) /\ i \in Earlier(j) /\ i \notin Earlier(i)
    OBVIOUS
<1>4. Cardinality(Earlier(i)) # Cardinality(Earlier(j))
    <2>1. Earlier(i) # Earlier(j)
        BY <1>3
    <2> QED
        BY <1>2, <1>3, <2>1, FS_Subset
<1> QED
    BY <1>4 DEF Copy

\* Address of segmentation.py: two sections never share one.  The bases may
\* repeat, and may be anything.
THEOREM AddressesUnique ==
    ASSUME NEW bases, NEW i \in Nat \ {0}, NEW j \in Nat \ {0},
           Address(bases, i) = Address(bases, j)
    PROVE  i = j
<1>1. bases[i] = bases[j] /\ Copy(bases, i) = Copy(bases, j)
    BY DEF Address
<1> QED
    BY <1>1, CopiesGrow

\* SegmentationResult never refuses the sections of CanonicalHeadingProfile.
THEOREM HeadingSectionsUnique ==
    ASSUME NEW blocks, NEW i \in DOMAIN HeadingSections(blocks),
           NEW j \in DOMAIN HeadingSections(blocks),
           HeadingSections(blocks)[i].section = HeadingSections(blocks)[j].section
    PROVE  i = j
<1> DEFINE starts == Starts(blocks)
           bases == [k \in DOMAIN starts |-> Base(blocks[starts[k]], k - 1)]
<1>1. i \in 1 .. Len(starts) /\ j \in 1 .. Len(starts)
    BY DEF HeadingSections
<1>2. i \in Nat \ {0} /\ j \in Nat \ {0}
    BY <1>1
<1>3. Address(bases, i) = Address(bases, j)
    BY <1>1 DEF HeadingSections
<1> HIDE DEF starts, bases
<1> QED
    BY <1>2, <1>3, AddressesUnique

\* Nor those of XlsxControlMatrixProfile.
THEOREM MatrixSectionsUnique ==
    ASSUME NEW blocks, NEW i \in DOMAIN MatrixSections(blocks),
           NEW j \in DOMAIN MatrixSections(blocks),
           MatrixSections(blocks)[i].section = MatrixSections(blocks)[j].section
    PROVE  i = j
<1> DEFINE bases == [k \in DOMAIN blocks |-> RowBase(blocks[k])]
<1>1. i \in 1 .. Len(blocks) /\ j \in 1 .. Len(blocks)
    BY DEF MatrixSections
<1>2. i \in Nat \ {0} /\ j \in Nat \ {0}
    BY <1>1
<1>3. Address(bases, i) = Address(bases, j)
    BY <1>1 DEF MatrixSections
<1> HIDE DEF bases
<1> QED
    BY <1>2, <1>3, AddressesUnique

-----------------------------------------------------------------------------
(* Least and greatest numbers, and induction over them.                     *)

\* A set of natural numbers has a least one.
LEMMA LeastNumber ==
    ASSUME NEW S \in SUBSET Nat, S # {}
    PROVE  \E n \in S : \A m \in S : n <= m
<1> DEFINE R == OpToRel(<, Nat)
<1>1. IsWellFoundedOn(R, Nat)
    BY NatLessThanWellFounded
<1>2. \A i, j \in Nat : i < j => <<i, j>> \in R
    BY DEF OpToRel
<1> HIDE DEF R
<1>3. PICK n \in S : \A m \in S : ~(<<m, n>> \in R)
    BY <1>1, WFMin
<1>4. ASSUME NEW m \in S PROVE n <= m
    <2>1. m \in Nat /\ n \in Nat
        OBVIOUS
    <2>2. ~(m < n)
        BY <2>1, <1>2, <1>3
    <2> QED
        BY <2>1, <2>2
<1> QED
    BY <1>4

\* Min of a set of natural numbers is its least one.
LEMMA MinIsLeast ==
    ASSUME NEW S \in SUBSET Nat, S # {}
    PROVE  Min(S) \in S /\ \A m \in S : Min(S) <= m
BY LeastNumber DEF Min

\* Max of a bounded set of natural numbers is its greatest one.
LEMMA MaxIsGreatest ==
    ASSUME NEW n \in Nat, NEW S \in SUBSET (0 .. n), S # {}
    PROVE  Max(S) \in S /\ \A m \in S : Max(S) >= m
<1> DEFINE T == {n - m : m \in S}
<1>1. T \in SUBSET Nat /\ T # {}
    <2>1. \A m \in S : n - m \in Nat
        OBVIOUS
    <2> QED
        BY <2>1
<1>2. PICK t \in T : \A u \in T : t <= u
    BY <1>1, LeastNumber
<1>3. PICK s \in S : t = n - s
    OBVIOUS
<1>4. ASSUME NEW m \in S PROVE s >= m
    <2>1. n - m \in T
        OBVIOUS
    <2>2. n - s <= n - m
        BY <1>2, <1>3, <2>1
    <2> QED
        BY <2>2
<1> QED
    BY <1>4 DEF Max

\* What holds of 0 and passes from each number to the next holds of all up to n.
LEMMA Upwards ==
    ASSUME NEW n \in Nat, NEW T, 0 \in T, \A k \in 0 .. n - 1 : k \in T => k + 1 \in T
    PROVE  0 .. n \subseteq T
<1> SUFFICES ASSUME (0 .. n) \ T # {} PROVE FALSE
    OBVIOUS
<1>1. (0 .. n) \ T \in SUBSET Nat
    OBVIOUS
<1>2. PICK k \in (0 .. n) \ T : \A m \in (0 .. n) \ T : k <= m
    BY <1>1, LeastNumber
<1>3. k # 0 /\ k - 1 \in 0 .. n - 1 /\ ~(k <= k - 1)
    BY <1>2
<1>4. k - 1 \in T
    BY <1>2, <1>3
<1>5. (k - 1) + 1 \in T
    BY <1>3, <1>4
<1> QED
    BY <1>2, <1>5

-----------------------------------------------------------------------------
(* Sequences one after the other.                                           *)

\* Sequences over a set are sequences over a larger one.
LEMMA SeqGrows ==
    ASSUME NEW S, NEW T, NEW s \in Seq(S), S \subseteq T
    PROVE  s \in Seq(T)
<1>1. s \in [1 .. Len(s) -> S] /\ Len(s) \in Nat
    BY LenProperties, ElementOfSeq
<1>2. s \in [1 .. Len(s) -> T]
    BY <1>1
<1> QED
    BY <1>1, <1>2, SeqDef

\* What FlattenSeq has put together after each of the sequences.
IsFlat(f, ss) ==
    f = [i \in 1 .. Len(ss) |-> IF i = 1 THEN ss[i] ELSE f[i - 1] \o ss[i]]

\* There is such a function for any number of sequences.
LEMMA FlatExists ==
    ASSUME NEW S, NEW ss \in Seq(Seq(S))
    PROVE  \E f : IsFlat(f, ss)
<1> DEFINE n == Len(ss)
           Flat(k, f) ==
               /\ f \in [1 .. k -> Seq(S)]
               /\ \A i \in 1 .. k : f[i] = IF i = 1 THEN ss[i] ELSE f[i - 1] \o ss[i]
           T == {k \in 0 .. n : \E f : Flat(k, f)}
<1>1. n \in Nat /\ \A i \in 1 .. n : ss[i] \in Seq(S)
    BY LenProperties, ElementOfSeq
<1> HIDE DEF n
<1>2. 0 \in T
    <2>1. Flat(0, <<>>)
        OBVIOUS
    <2> HIDE DEF Flat
    <2> QED
        BY <1>1, <2>1
<1>3. ASSUME NEW k \in 0 .. n - 1, k \in T PROVE k + 1 \in T
    <2>1. PICK f : Flat(k, f)
        BY <1>3
    <2>2. k \in Nat /\ k + 1 \in 1 .. n /\ k + 1 \in 0 .. n /\ ss[k + 1] \in Seq(S)
        BY <1>1
    <2> DEFINE last == IF k = 0 THEN ss[k + 1] ELSE f[k] \o ss[k + 1]
               g == [i \in 1 .. k + 1 |-> IF i = k + 1 THEN last ELSE f[i]]
    <2>3. last \in Seq(S)
        <3>1. CASE k = 0
            BY <2>2, <3>1
        <3>2. CASE k # 0
            <4>1. k \in 1 .. k
                BY <2>2, <3>2
            <4>2. f[k] \in Seq(S)
                BY <2>1, <4>1
            <4> QED
                BY <2>2, <3>2, <4>2, ConcatProperties
        <3> QED
            BY <3>1, <3>2
    <2>4. g \in [1 .. k + 1 -> Seq(S)]
        <3>1. \A i \in 1 .. k + 1 : i # k + 1 => i \in 1 .. k
            BY <2>2
        <3> HIDE DEF last
        <3> QED
            BY <2>1, <2>3, <3>1
    <2>5. ASSUME NEW i \in 1 .. k + 1
          PROVE  g[i] = IF i = 1 THEN ss[i] ELSE g[i - 1] \o ss[i]
        <3>1. CASE i = k + 1
            <4>1. g[i] = last
                BY <3>1
            <4>2. i # 1 => k # 0 /\ i - 1 = k /\ k \in 1 .. k + 1 /\ k # k + 1
                BY <2>2, <3>1
            <4>3. i # 1 => g[i - 1] = f[k]
                BY <4>2
            <4> QED
                BY <2>2, <3>1, <4>1, <4>2, <4>3
        <3>2. CASE i # k + 1
            <4>1. i \in 1 .. k /\ (i # 1 => i - 1 \in 1 .. k /\ i - 1 \in 1 .. k + 1 /\ i - 1 # k + 1)
                BY <2>2, <3>2
            <4>2. g[i] = f[i] /\ (i # 1 => g[i - 1] = f[i - 1])
                BY <3>2, <4>1
            <4> QED
                BY <2>1, <4>1, <4>2
        <3> QED
            BY <3>1, <3>2
    <2>6. Flat(k + 1, g)
        <3> HIDE DEF g
        <3> QED
            BY <2>4, <2>5
    <2> HIDE DEF Flat
    <2> QED
        BY <2>2, <2>6
<1> HIDE DEF T
<1>4. 0 .. n \subseteq T
    BY <1>1, <1>2, <1>3, Upwards
<1>5. n \in T
    BY <1>1, <1>4
<1>6. PICK f : Flat(n, f)
    BY <1>5 DEF T
<1>7. IsFlat(f, ss)
    BY <1>6 DEF IsFlat, n
<1> QED
    BY <1>7

\* FlattenSeq of sequences over a set is a sequence over it.
LEMMA FlattenedIsSeq ==
    ASSUME NEW S, NEW ss \in Seq(Seq(S))
    PROVE  FlattenSeq(ss) \in Seq(S)
<1> DEFINE n == Len(ss)
           chosen == CHOOSE f : IsFlat(f, ss)
<1>1. n \in Nat /\ \A i \in 1 .. n : ss[i] \in Seq(S)
    BY LenProperties, ElementOfSeq
<1>2. IsFlat(chosen, ss)
    BY FlatExists
<1> HIDE DEF n, chosen
<1> DEFINE U == {k \in 0 .. n : k > 0 => chosen[k] \in Seq(S)}
<1>3. 0 .. n \subseteq U
    <2>1. 0 \in U
        BY <1>1
    <2>2. ASSUME NEW k \in 0 .. n - 1, k \in U PROVE k + 1 \in U
        <3>1. k \in Nat /\ k + 1 \in 1 .. n /\ k + 1 \in 0 .. n /\ ss[k + 1] \in Seq(S)
            BY <1>1
        <3>2. chosen[k + 1] = IF k = 0 THEN ss[k + 1] ELSE chosen[k] \o ss[k + 1]
            <4>1. chosen[k + 1] =
                      IF k + 1 = 1 THEN ss[k + 1] ELSE chosen[(k + 1) - 1] \o ss[k + 1]
                BY <1>2, <3>1 DEF IsFlat, n
            <4>2. (k + 1) - 1 = k /\ (k + 1 = 1 <=> k = 0)
                BY <3>1
            <4> QED
                BY <4>1, <4>2
        <3>3. k # 0 => chosen[k] \in Seq(S)
            BY <2>2, <3>1
        <3>4. chosen[k + 1] \in Seq(S)
            BY <3>1, <3>2, <3>3, ConcatProperties
        <3> QED
            BY <3>1, <3>4
    <2> HIDE DEF U
    <2> QED
        BY <1>1, <2>1, <2>2, Upwards
<1>4. CASE n = 0
    BY <1>4, EmptySeq DEF FlattenSeq, n
<1>5. CASE n # 0
    <2>1. n > 0 /\ n \in 0 .. n
        BY <1>1, <1>5
    <2>2. chosen[n] \in Seq(S)
        BY <1>3, <2>1
    <2>3. FlattenSeq(ss) = chosen[n]
        BY <1>5 DEF FlattenSeq, IsFlat, n, chosen
    <2> QED
        BY <2>2, <2>3
<1> QED
    BY <1>4, <1>5

\* One more sequence is put behind the others.
LEMMA FlattenedGrows ==
    ASSUME NEW S, NEW ss \in Seq(Seq(S)), NEW s \in Seq(S)
    PROVE  FlattenSeq(Append(ss, s)) = FlattenSeq(ss) \o s
<1> DEFINE n == Len(ss)
           more == Append(ss, s)
           f == CHOOSE h : IsFlat(h, ss)
           g == CHOOSE h : IsFlat(h, more)
<1>1. n \in Nat /\ Len(more) = n + 1 /\ more \in Seq(Seq(S))
    BY LenProperties, AppendProperties
<1>2. (\A i \in 1 .. n : more[i] = ss[i]) /\ more[n + 1] = s
    BY AppendProperties
<1> HIDE DEF more
<1>3. IsFlat(f, ss) /\ IsFlat(g, more)
    BY <1>1, FlatExists
<1>4. FlattenSeq(more) = g[n + 1]
    BY <1>1 DEF FlattenSeq, IsFlat
<1>5. n # 0 => FlattenSeq(ss) = f[n]
    BY DEF FlattenSeq, IsFlat
<1>6. n = 0 => FlattenSeq(ss) = <<>>
    BY EmptySeq DEF FlattenSeq
<1> HIDE DEF f, g, n
<1>7. ASSUME NEW i \in 1 .. n
      PROVE  /\ f[i] = IF i = 1 THEN ss[i] ELSE f[i - 1] \o ss[i]
             /\ g[i] = IF i = 1 THEN ss[i] ELSE g[i - 1] \o ss[i]
    <2>1. i \in 1 .. n + 1
        BY <1>1
    <2>2. f[i] = IF i = 1 THEN ss[i] ELSE f[i - 1] \o ss[i]
        BY <1>3 DEF IsFlat, n
    <2>3. g[i] = IF i = 1 THEN more[i] ELSE g[i - 1] \o more[i]
        BY <1>1, <1>3, <2>1 DEF IsFlat
    <2> QED
        BY <1>2, <2>2, <2>3
<1>8. g[n + 1] = IF n = 0 THEN s ELSE g[n] \o s
    <2>1. n + 1 \in 1 .. n + 1 /\ (n + 1) - 1 = n /\ (n + 1 = 1 <=> n = 0)
        BY <1>1
    <2>2. g[n + 1] = IF n + 1 = 1 THEN more[n + 1] ELSE g[(n + 1) - 1] \o more[n + 1]
        BY <1>1, <1>3, <2>1 DEF IsFlat
    <2> QED
        BY <1>2, <2>1, <2>2
<1> DEFINE U == {k \in 0 .. n : k > 0 => f[k] = g[k]}
<1>9. 0 .. n \subseteq U
    <2>1. 0 \in U
        BY <1>1
    <2>2. ASSUME NEW k \in 0 .. n - 1, k \in U PROVE k + 1 \in U
        <3>1. k \in Nat /\ k + 1 \in 1 .. n /\ k + 1 \in 0 .. n /\ (k + 1) - 1 = k
            BY <1>1
        <3>2. k # 0 => f[k] = g[k]
            BY <2>2, <3>1
        <3>3. f[k + 1] = g[k + 1]
            BY <1>7, <3>1, <3>2
        <3> QED
            BY <3>1, <3>3
    <2> HIDE DEF U
    <2> QED
        BY <1>1, <2>1, <2>2, Upwards
<1>10. n # 0 => f[n] = g[n]
    <2>1. n \in 0 .. n /\ (n # 0 => n > 0)
        BY <1>1
    <2> QED
        BY <1>9, <2>1
<1>11. <<>> \o s = s
    OBVIOUS
<1>12. FlattenSeq(more) = FlattenSeq(ss) \o s
    BY <1>4, <1>5, <1>6, <1>8, <1>10, <1>11
<1> QED
    BY <1>12 DEF more

-----------------------------------------------------------------------------
(* What is appended to a document.                                          *)

\* A sequence goes on where another one ends.
Begins(part, whole) ==
    /\ DOMAIN part \subseteq DOMAIN whole
    /\ \A k \in DOMAIN part : whole[k] = part[k]

\* The blocks go on, and with them the places of the headings.
Continues(blocks, more) ==
    /\ Begins(blocks, more)
    /\ Begins(Starts(blocks), Starts(more))

\* A section starts at a block.
LEMMA StartsAreBlocks ==
    ASSUME NEW B, NEW blocks \in Seq(B)
    PROVE  Starts(blocks) \in Seq(DOMAIN blocks)
<1> DEFINE parts == [i \in DOMAIN blocks |-> IF IsHeading(blocks[i]) THEN <<i>> ELSE <<>>]
           n == Len(blocks)
           P == DOMAIN blocks
<1>1. n \in Nat /\ P = 1 .. n
    BY LenProperties
<1>2. \A i \in 1 .. n : parts[i] \in Seq(P)
    <2>1. ASSUME NEW i \in P PROVE <<i>> \in Seq(P) /\ <<>> \in Seq(P)
        BY EmptySeq
    <2> HIDE DEF P
    <2> QED
        BY <1>1, <2>1 DEF P
<1>3. parts \in [1 .. n -> Seq(P)]
    <2>1. DOMAIN parts = 1 .. n /\ parts = [i \in 1 .. n |-> parts[i]]
        BY <1>1
    <2> HIDE DEF parts, n, P
    <2> QED
        BY <1>2, <2>1
<1> HIDE DEF parts, n
<1>4. parts \in Seq(Seq(P))
    BY <1>1, <1>3, SeqDef
<1>5. FlattenSeq(parts) \in Seq(P)
    <2> HIDE DEF P
    <2> QED
        BY <1>4, FlattenedIsSeq
<1> QED
    BY <1>5 DEF Starts, parts

\* A heading is one more start, another block is none.
LEMMA StartsGrow ==
    ASSUME NEW B, NEW blocks \in Seq(B), NEW block \in B
    PROVE  Starts(Append(blocks, block)) =
               Starts(blocks) \o (IF IsHeading(block) THEN <<Len(blocks) + 1>> ELSE <<>>)
<1> DEFINE more == Append(blocks, block)
           n == Len(blocks)
           parts == [i \in DOMAIN blocks |-> IF IsHeading(blocks[i]) THEN <<i>> ELSE <<>>]
           all == [i \in DOMAIN more |-> IF IsHeading(more[i]) THEN <<i>> ELSE <<>>]
           last == IF IsHeading(block) THEN <<n + 1>> ELSE <<>>
<1>1. /\ n \in Nat /\ DOMAIN blocks = 1 .. n /\ DOMAIN more = 1 .. n + 1
      /\ (\A i \in 1 .. n : more[i] = blocks[i]) /\ more[n + 1] = block
    BY LenProperties, AppendProperties
<1>2. last \in Seq(Nat)
    <2>1. n + 1 \in Nat
        BY <1>1
    <2> HIDE DEF n
    <2> QED
        BY <2>1, EmptySeq
<1>3. \A i \in 1 .. n : parts[i] \in Seq(Nat)
    <2>1. ASSUME NEW i \in Nat PROVE <<i>> \in Seq(Nat) /\ <<>> \in Seq(Nat)
        BY EmptySeq
    <2> QED
        BY <1>1, <2>1
<1>4. DOMAIN parts = 1 .. n /\ parts = [i \in 1 .. n |-> parts[i]]
    BY <1>1
<1>5. \A i \in 1 .. n : all[i] = parts[i]
    BY <1>1
<1>6. all[n + 1] = last /\ DOMAIN all = 1 .. n + 1 /\ all = [i \in 1 .. n + 1 |-> all[i]]
    BY <1>1
<1>7. Starts(more) = FlattenSeq(all) /\ Starts(blocks) = FlattenSeq(parts)
    BY DEF Starts
<1> HIDE DEF more, n, parts, all, last
<1>8. parts \in Seq(Seq(Nat)) /\ Len(parts) = n
    <2>1. parts \in [1 .. n -> Seq(Nat)]
        BY <1>3, <1>4
    <2>2. parts \in Seq(Seq(Nat))
        BY <1>1, <2>1, SeqDef
    <2> QED
        BY <1>1, <1>4, <2>2, LenProperties
<1>9. all = Append(parts, last)
    <2> DEFINE put == Append(parts, last)
    <2>1. /\ DOMAIN put = 1 .. n + 1 /\ put = [i \in 1 .. n + 1 |-> put[i]]
          /\ (\A i \in 1 .. n : put[i] = parts[i]) /\ put[n + 1] = last
        <3>1. put \in Seq(Seq(Nat)) /\ Len(put) = n + 1
            BY <1>2, <1>8, AppendProperties
        <3>2. put \in [1 .. n + 1 -> Seq(Nat)]
            BY <3>1, LenProperties
        <3>3. (\A i \in 1 .. n : put[i] = parts[i]) /\ put[n + 1] = last
            BY <1>2, <1>8, AppendProperties
        <3> HIDE DEF put
        <3> QED
            BY <3>2, <3>3
    <2> HIDE DEF put
    <2>2. \A i \in 1 .. n + 1 : i \in 1 .. n \/ i = n + 1
        BY <1>1
    <2>3. \A i \in 1 .. n + 1 : all[i] = put[i]
        BY <1>5, <1>6, <2>1, <2>2
    <2>4. all = put
        BY <1>6, <2>1, <2>3
    <2> QED
        BY <2>4 DEF put
<1>10. FlattenSeq(all) = FlattenSeq(parts) \o last
    BY <1>2, <1>8, <1>9, FlattenedGrows
<1>11. Starts(more) = Starts(blocks) \o last
    BY <1>7, <1>10
<1> QED
    BY <1>11 DEF more, last, n

\* One more block goes on from the blocks before it.
LEMMA AppendedContinues ==
    ASSUME NEW B, NEW blocks \in Seq(B), NEW block
    PROVE  Continues(blocks, Append(blocks, block))
<1> DEFINE C == B \cup {block}
           starts == Starts(blocks)
           last == IF IsHeading(block) THEN <<Len(blocks) + 1>> ELSE <<>>
<1>1. blocks \in Seq(C) /\ block \in C
    BY SeqGrows
<1>2. Begins(blocks, Append(blocks, block))
    BY LenProperties, AppendProperties DEF Begins
<1>3. Starts(Append(blocks, block)) = starts \o last
    <2> HIDE DEF C
    <2> QED
        BY <1>1, StartsGrow
<1>4. starts \in Seq(Nat) /\ last \in Seq(Nat)
    <2>1. Len(blocks) \in Nat /\ DOMAIN blocks = 1 .. Len(blocks)
        BY LenProperties
    <2>2. starts \in Seq(DOMAIN blocks) /\ DOMAIN blocks \subseteq Nat
        BY <2>1, StartsAreBlocks
    <2>3. starts \in Seq(Nat)
        <3> HIDE DEF starts
        <3> QED
            BY <2>2, SeqGrows
    <2>4. Len(blocks) + 1 \in Nat
        BY <2>1
    <2>5. <<Len(blocks) + 1>> \in Seq(Nat) /\ <<>> \in Seq(Nat)
        BY <2>4, EmptySeq
    <2> QED
        BY <2>3, <2>5
<1> HIDE DEF starts, last
<1>5. Begins(starts, starts \o last)
    <2>1. /\ Len(starts) \in Nat /\ Len(last) \in Nat /\ DOMAIN starts = 1 .. Len(starts)
          /\ Len(starts \o last) = Len(starts) + Len(last) /\ starts \o last \in Seq(Nat)
          /\ \A k \in 1 .. Len(starts) + Len(last) :
                 k <= Len(starts) => (starts \o last)[k] = starts[k]
        BY <1>4, LenProperties, ConcatProperties
    <2>2. DOMAIN (starts \o last) = 1 .. Len(starts) + Len(last)
        BY <2>1, LenProperties
    <2>3. \A k \in 1 .. Len(starts) : k \in 1 .. Len(starts) + Len(last) /\ k <= Len(starts)
        BY <2>1
    <2> QED
        BY <2>1, <2>2, <2>3 DEF Begins
<1> QED
    BY <1>2, <1>3, <1>5 DEF Continues, starts

\* What goes on can go on again.
LEMMA ContinuesOn ==
    ASSUME NEW a, NEW b, NEW c, Continues(a, b), Continues(b, c)
    PROVE  Continues(a, c)
BY DEF Continues, Begins

\* In a document that goes on, every section keeps its address, and all but the
\* last one keep their text.
LEMMA SectionsContinue ==
    ASSUME NEW B, NEW blocks \in Seq(B), NEW C, NEW more \in Seq(C), Continues(blocks, more),
           NEW k \in DOMAIN HeadingSections(blocks)
    PROVE  /\ HeadingSections(more)[k].section = HeadingSections(blocks)[k].section
           /\ k < Len(HeadingSections(blocks)) =>
                  HeadingSections(more)[k] = HeadingSections(blocks)[k]
<1> DEFINE starts == Starts(blocks)
           later == Starts(more)
           bases == [i \in DOMAIN starts |-> Base(blocks[starts[i]], i - 1)]
           laterBases == [i \in DOMAIN later |-> Base(more[later[i]], i - 1)]
           n == Len(starts)
<1>1. starts \in Seq(DOMAIN blocks) /\ later \in Seq(DOMAIN more)
    BY StartsAreBlocks
<1>2. /\ n \in Nat /\ DOMAIN starts = 1 .. n
      /\ Len(later) \in Nat /\ DOMAIN later = 1 .. Len(later)
      /\ \A i \in 1 .. n : starts[i] \in DOMAIN blocks
    <2> HIDE DEF starts, later
    <2> QED
        BY <1>1, LenProperties, ElementOfSeq
<1>3. /\ 1 .. n \subseteq 1 .. Len(later)
      /\ \A i \in 1 .. n : later[i] = starts[i]
      /\ DOMAIN blocks \subseteq DOMAIN more
      /\ \A i \in DOMAIN blocks : more[i] = blocks[i]
    BY <1>2 DEF Continues, Begins
<1>4. \A i \in 1 .. n : laterBases[i] = bases[i] /\ more[later[i]] = blocks[starts[i]]
    BY <1>2, <1>3
<1>5. /\ HeadingSections(blocks) =
             [i \in 1 .. n |->
                 [section |-> Address(bases, i),
                  content_hash |-> Render(SubSeq(blocks, starts[i], SectionEnd(blocks, starts, i))),
                  locator |-> blocks[starts[i]].locator]]
      /\ HeadingSections(more) =
             [i \in 1 .. Len(later) |->
                 [section |-> Address(laterBases, i),
                  content_hash |-> Render(SubSeq(more, later[i], SectionEnd(more, later, i))),
                  locator |-> more[later[i]].locator]]
    BY DEF HeadingSections
<1> HIDE DEF starts, later, bases, laterBases, n
<1>6. k \in 1 .. n /\ k \in 1 .. Len(later) /\ k \in Nat
    BY <1>2, <1>3, <1>5
<1>7. Address(laterBases, k) = Address(bases, k)
    <2>1. \A j \in 1 .. k - 1 : j \in 1 .. n
        BY <1>2, <1>6
    <2>2. {j \in 1 .. k - 1 : laterBases[j] = laterBases[k]}
              = {j \in 1 .. k - 1 : bases[j] = bases[k]}
        BY <1>4, <1>6, <2>1
    <2> QED
        BY <1>4, <1>6, <2>2 DEF Address, Copy
<1>8. ASSUME k < n
      PROVE  SubSeq(more, later[k], SectionEnd(more, later, k)) =
                 SubSeq(blocks, starts[k], SectionEnd(blocks, starts, k))
    <2>1. k + 1 \in 1 .. n /\ k + 1 \in 1 .. Len(later) /\ k < Len(later)
        BY <1>2, <1>3, <1>6, <1>8
    <2>2. /\ SectionEnd(more, later, k) = starts[k + 1] - 1
          /\ SectionEnd(blocks, starts, k) = starts[k + 1] - 1
        BY <1>3, <1>8, <2>1 DEF SectionEnd, n
    <2>3. /\ DOMAIN blocks = 1 .. Len(blocks) /\ Len(blocks) \in Nat
          /\ starts[k] \in 1 .. Len(blocks) /\ starts[k + 1] \in 1 .. Len(blocks)
        BY <1>2, <1>6, <2>1, LenProperties
    <2> DEFINE first == starts[k]
               end == starts[k + 1] - 1
    <2>4. first \in Nat \ {0} /\ end \in Nat /\ end <= Len(blocks)
        BY <2>3
    <2>5. later[k] = first
        BY <1>3, <1>6
    <2> HIDE DEF first, end
    <2>6. \A i \in first .. end : blocks[i] \in B /\ more[i] = blocks[i]
        <3>1. \A i \in first .. end : i \in 1 .. Len(blocks)
            BY <2>3, <2>4
        <3> QED
            BY <1>3, <2>3, <3>1, ElementOfSeq
    <2> DEFINE before == SubSeq(blocks, first, end)
               after == SubSeq(more, first, end)
               length == IF first <= end THEN end - first + 1 ELSE 0
    <2>7. /\ before \in Seq(B) /\ Len(before) = length
          /\ \A i \in 1 .. end - first + 1 : before[i] = blocks[first + i - 1]
        BY <2>4, <2>6, SubSeqProperties
    <2>8. /\ after \in Seq(B) /\ Len(after) = length
          /\ \A i \in 1 .. end - first + 1 : after[i] = more[first + i - 1]
        BY <2>4, <2>6, SubSeqProperties
    <2> HIDE DEF before, after
    <2>9. \A i \in 1 .. length : after[i] = before[i]
        <3>1. ASSUME NEW i \in 1 .. length
              PROVE  i \in 1 .. end - first + 1 /\ first + i - 1 \in first .. end
            BY <2>4
        <3> QED
            BY <2>6, <2>7, <2>8, <3>1
    <2>10. /\ before = [i \in 1 .. length |-> before[i]]
           /\ after = [i \in 1 .. length |-> after[i]]
        <3>1. before \in [1 .. length -> B] /\ after \in [1 .. length -> B]
            BY <2>7, <2>8, LenProperties
        <3> HIDE DEF length
        <3> QED
            BY <3>1
    <2>11. after = before
        <3> HIDE DEF length
        <3> QED
            BY <2>9, <2>10
    <2> QED
        BY <2>2, <2>5, <2>11 DEF first, end, before, after
<1>9. Len(HeadingSections(blocks)) = n
    BY <1>2, <1>5
<1>10. HeadingSections(more)[k].section = HeadingSections(blocks)[k].section
    BY <1>5, <1>6, <1>7
<1>11. ASSUME k < n PROVE HeadingSections(more)[k] = HeadingSections(blocks)[k]
    <2>1. HeadingSections(blocks)[k] =
              [section |-> Address(bases, k),
               content_hash |-> Render(SubSeq(blocks, starts[k], SectionEnd(blocks, starts, k))),
               locator |-> blocks[starts[k]].locator]
        BY <1>5, <1>6
    <2>2. HeadingSections(more)[k] =
              [section |-> Address(laterBases, k),
               content_hash |-> Render(SubSeq(more, later[k], SectionEnd(more, later, k))),
               locator |-> more[later[k]].locator]
        BY <1>5, <1>6
    <2>3. more[later[k]] = blocks[starts[k]]
        BY <1>4, <1>6
    <2> QED
        BY <1>7, <1>8, <1>11, <2>1, <2>2, <2>3
<1> QED
    BY <1>9, <1>10, <1>11

-----------------------------------------------------------------------------
(* The builder.                                                             *)

\* The headings on a path, and the builders with words, blocks and locators of
\* these sets.
PathEntries(W) == [level : Nat \ {0}, word : W]

Builders(W, B, L) == [path : Seq(PathEntries(W)), blocks : Seq(B), warnings : SUBSET L]

\* The path is made of the headings at these places: those that are open after
\* the last block.
Spells(path, blocks, at) ==
    /\ at \in [DOMAIN path -> DOMAIN blocks]
    /\ \A i, j \in DOMAIN path : i < j => at[i] < at[j] /\ path[i].level < path[j].level
    /\ \A i \in DOMAIN path : /\ IsHeading(blocks[at[i]])
                              /\ blocks[at[i]].level = path[i].level
                              /\ blocks[at[i]].text[1] = path[i].word
    /\ {at[i] : i \in DOMAIN path} = Ancestors(blocks, Len(blocks))

WellBuilt(b) ==
    /\ \E W, B, L : b \in Builders(W, B, L)
    /\ FollowsOutline(b.blocks)
    /\ \E at : Spells(b.path, b.blocks, at)

\* One more block changes no ancestors; a heading closes those that are not
\* above it.
LEMMA AncestorsOfNext ==
    ASSUME NEW B, NEW blocks \in Seq(B), NEW block \in B
    PROVE  LET more == Append(blocks, block)
               n == Len(blocks)
           IN  /\ \A k \in 1 .. n : Ancestors(more, k) = Ancestors(blocks, k)
               /\ ~IsHeading(block) => Ancestors(more, n + 1) = Ancestors(blocks, n)
               /\ IsHeading(block) =>
                      Ancestors(more, n + 1) =
                          {h \in Ancestors(blocks, n) : block.level > blocks[h].level}
                              \cup {n + 1}
<1> DEFINE more == Append(blocks, block)
           n == Len(blocks)
<1>1. /\ n \in Nat
      /\ \A i \in 1 .. n : more[i] = blocks[i]
      /\ more[n + 1] = block
    BY AppendProperties, LenProperties
<1> HIDE DEF more, n
<1>2. ASSUME NEW k \in 1 .. n PROVE Ancestors(more, k) = Ancestors(blocks, k)
    BY <1>1 DEF Ancestors
<1>3. ASSUME ~IsHeading(block) PROVE Ancestors(more, n + 1) = Ancestors(blocks, n)
    BY <1>1, <1>3 DEF Ancestors
<1>4. ASSUME IsHeading(block)
      PROVE  Ancestors(more, n + 1) =
                 {h \in Ancestors(blocks, n) : block.level > blocks[h].level} \cup {n + 1}
    BY <1>1, <1>4 DEF Ancestors
<1> QED
    BY <1>2, <1>3, <1>4 DEF more, n

\* The headings on the path are as many as there are ancestors, each in its
\* place.
LEMMA SpelledInOrder ==
    ASSUME NEW W, NEW path \in Seq(PathEntries(W)), NEW B, NEW blocks \in Seq(B), NEW at,
           Spells(path, blocks, at)
    PROVE  LET above == Ancestors(blocks, Len(blocks))
           IN  /\ Cardinality(above) = Len(path)
               /\ \A i \in DOMAIN path : Cardinality({a \in above : a <= at[i]}) = i
<1> DEFINE above == Ancestors(blocks, Len(blocks))
<1>1. /\ Len(path) \in Nat /\ DOMAIN path = 1 .. Len(path)
      /\ DOMAIN blocks \subseteq Nat
    BY LenProperties
<1>2. /\ at \in [DOMAIN path -> DOMAIN blocks]
      /\ \A i, j \in DOMAIN path : i < j => at[i] < at[j]
      /\ {at[i] : i \in DOMAIN path} = above
    BY DEF Spells
<1> HIDE DEF above
<1>3. ASSUME NEW m \in 0 .. Len(path)
      PROVE  Cardinality({at[i] : i \in 1 .. m}) = m
    <2> DEFINE T == {at[i] : i \in 1 .. m}
               f == [i \in 1 .. m |-> at[i]]
    <2>1. 1 .. m \subseteq DOMAIN path /\ m \in Nat
        BY <1>1
    <2>2. f \in Surjection(1 .. m, T)
        BY DEF Surjection
    <2>3. ASSUME NEW i \in 1 .. m, NEW j \in 1 .. m, i # j PROVE at[i] # at[j]
        <3>1. i < j \/ j < i
            BY <2>3
        <3>2. at[i] < at[j] \/ at[j] < at[i]
            BY <3>1, <2>1, <1>2
        <3>3. at[i] \in Nat /\ at[j] \in Nat
            BY <1>1, <1>2, <2>1
        <3> QED
            BY <3>2, <3>3
    <2>4. f \in Injection(1 .. m, T)
        BY <2>2, <2>3 DEF Injection, IsInjective, Surjection
    <2>5. ExistsBijection(1 .. m, T)
        BY <2>2, <2>4 DEF Bijection, ExistsBijection
    <2> QED
        BY <2>1, <2>5, FS_CountingElements
<1>4. Cardinality(above) = Len(path)
    <2>1. Cardinality({at[i] : i \in 1 .. Len(path)}) = Len(path)
        BY <1>1, <1>3
    <2>2. {at[i] : i \in 1 .. Len(path)} = above
        BY <1>1, <1>2
    <2> QED
        BY <2>1, <2>2
<1>5. ASSUME NEW i \in DOMAIN path PROVE Cardinality({a \in above : a <= at[i]}) = i
    <2>1. {a \in above : a <= at[i]} = {at[j] : j \in 1 .. i}
        <3>1. 1 .. i \subseteq DOMAIN path /\ i \in Nat
            BY <1>1
        <3>2. ASSUME NEW j \in DOMAIN path PROVE at[j] <= at[i] <=> j \in 1 .. i
            <4>1. at[i] \in Nat /\ at[j] \in Nat /\ i \in Nat /\ j \in Nat /\ j >= 1
                BY <1>1, <1>2
            <4>2. i < j => at[i] < at[j]
                BY <1>2
            <4>3. j < i => at[j] < at[i]
                BY <1>2
            <4> QED
                BY <4>1, <4>2, <4>3
        <3> QED
            BY <1>2, <3>1, <3>2
    <2>2. i \in 0 .. Len(path)
        BY <1>1
    <2> QED
        BY <2>1, <2>2, <1>3
<1> QED
    BY <1>4, <1>5 DEF above

\* A block that is given the path of the builder follows the outline.
LEMMA OutlineGrows ==
    ASSUME NEW B, NEW blocks \in Seq(B), NEW block \in B, FollowsOutline(blocks),
           NEW W, NEW path \in Seq(PathEntries(W)), block.heading_path = HeadingPath(path),
           NEW at, Spells(path, Append(blocks, block), at)
    PROVE  FollowsOutline(Append(blocks, block))
<1> DEFINE more == Append(blocks, block)
           n == Len(blocks)
<1>1. /\ n \in Nat /\ DOMAIN blocks = 1 .. n
      /\ more \in Seq(B) /\ Len(more) = n + 1 /\ DOMAIN more = 1 .. n + 1
      /\ \A i \in 1 .. n : more[i] = blocks[i]
      /\ more[n + 1] = block
    BY AppendProperties, LenProperties
<1>2. \A k \in 1 .. n : Ancestors(more, k) = Ancestors(blocks, k)
    BY AncestorsOfNext
<1> HIDE DEF more, n
<1> DEFINE Follows(k) ==
               LET above == Ancestors(more, k)
               IN  /\ Len(more[k].heading_path) = Cardinality(above)
                   /\ \A h \in above :
                         more[k].heading_path[Cardinality({a \in above : a <= h})] =
                             more[h].text[1]
<1>3. ASSUME NEW k \in 1 .. n PROVE Follows(k)
    <2>1. Ancestors(more, k) = Ancestors(blocks, k) /\ more[k] = blocks[k]
        BY <1>1, <1>2
    <2>2. \A h \in Ancestors(blocks, k) : more[h] = blocks[h]
        BY <1>1 DEF Ancestors
    <2> QED
        BY <1>1, <2>1, <2>2 DEF FollowsOutline
<1>4. Follows(n + 1)
    <2> DEFINE above == Ancestors(more, n + 1)
    <2>1. /\ Cardinality(above) = Len(path)
          /\ \A i \in DOMAIN path : Cardinality({a \in above : a <= at[i]}) = i
        <3>1. more \in Seq(B) /\ Spells(path, more, at) /\ above = Ancestors(more, Len(more))
            BY <1>1 DEF more
        <3> HIDE DEF above
        <3> QED
            BY <3>1, SpelledInOrder
    <2>2. /\ above = {at[i] : i \in DOMAIN path}
          /\ \A i \in DOMAIN path : more[at[i]].text[1] = path[i].word
        BY <1>1 DEF Spells, more
    <2>3. /\ more[n + 1].heading_path = [i \in DOMAIN path |-> path[i].word]
          /\ DOMAIN path = 1 .. Len(path) /\ Len(path) \in Nat
        BY <1>1, LenProperties DEF HeadingPath
    <2>4. Len(more[n + 1].heading_path) = Len(path)
        BY <2>3
    <2> HIDE DEF above
    <2>5. ASSUME NEW h \in above
          PROVE  more[n + 1].heading_path[Cardinality({a \in above : a <= h})] = more[h].text[1]
        <3>1. PICK i \in DOMAIN path : h = at[i]
            BY <2>2
        <3>2. Cardinality({a \in above : a <= h}) = i
            BY <2>1, <3>1
        <3>3. more[n + 1].heading_path[i] = path[i].word /\ more[h].text[1] = path[i].word
            BY <2>2, <2>3, <3>1
        <3> QED
            BY <3>2, <3>3
    <2> QED
        BY <2>1, <2>4, <2>5 DEF above
<1> HIDE DEF Follows
<1>5. \A k \in DOMAIN more : Follows(k)
    BY <1>1, <1>3, <1>4
<1> QED
    BY <1>5 DEF FollowsOutline, Follows, more

\* The path is cut behind its last heading above the level.
LEMMA CutPath ==
    ASSUME NEW W, NEW path \in Seq(PathEntries(W)), NEW level \in Nat,
           \A i, j \in DOMAIN path : i < j => path[i].level < path[j].level
    PROVE  \E c \in 0 .. Len(path) :
               /\ Cut(path, level) \in Seq(PathEntries(W))
               /\ Len(Cut(path, level)) = c
               /\ \A i \in 1 .. c : Cut(path, level)[i] = path[i]
               /\ \A i \in DOMAIN path : path[i].level < level <=> i <= c
<1> DEFINE S == {0} \cup {i \in DOMAIN path : path[i].level < level}
           c == Max(S)
<1>1. Len(path) \in Nat /\ DOMAIN path = 1 .. Len(path)
    BY LenProperties
<1>2. S \in SUBSET (0 .. Len(path)) /\ S # {}
    BY <1>1
<1>3. c \in S /\ \A i \in S : c >= i
    BY <1>1, <1>2, MaxIsGreatest
<1>4. c \in 0 .. Len(path)
    BY <1>2, <1>3
<1>5. \A i \in DOMAIN path : path[i] \in PathEntries(W) /\ path[i].level \in Nat
    <2>1. \A i \in DOMAIN path : path[i] \in PathEntries(W)
        BY <1>1
    <2> QED
        BY <2>1 DEF PathEntries
<1>6. ASSUME NEW i \in DOMAIN path PROVE path[i].level < level <=> i <= c
    <2>1. i \in Nat \ {0}
        BY <1>1
    <2>2. path[i].level < level => i <= c
        BY <1>3, <1>4, <2>1
    <2>3. ASSUME i <= c PROVE path[i].level < level
        <3>1. c \in DOMAIN path /\ path[c].level < level
            BY <1>3, <1>4, <2>1, <2>3
        <3>2. i = c \/ path[i].level < path[c].level
            BY <1>1, <1>4, <2>1, <2>3, <3>1
        <3> QED
            BY <3>1, <3>2, <1>5
    <2> QED
        BY <2>2, <2>3
<1>7. Cut(path, level) = SubSeq(path, 1, c)
    BY DEF Cut
<1>8. \A i \in 1 .. c : path[i] \in PathEntries(W)
    BY <1>1, <1>4, <1>5
<1> HIDE DEF c, S
<1>9. /\ SubSeq(path, 1, c) \in Seq(PathEntries(W))
      /\ Len(SubSeq(path, 1, c)) = c
      /\ \A i \in 1 .. c : SubSeq(path, 1, c)[i] = path[i]
    BY <1>4, <1>8, SubSeqProperties
<1> QED
    BY <1>4, <1>6, <1>7, <1>9

\* A heading is put on the path in the place of those it closes.
LEMMA HeadingOpens ==
    ASSUME NEW W, NEW path \in Seq(PathEntries(W)), NEW B, NEW blocks \in Seq(B),
           FollowsOutline(blocks), NEW at, Spells(path, blocks, at),
           NEW entry \in PathEntries(W), NEW block \in B, IsHeading(block),
           block.level = entry.level, block.text[1] = entry.word,
           block.heading_path = HeadingPath(Append(Cut(path, entry.level), entry))
    PROVE  LET next == Append(Cut(path, entry.level), entry)
               more == Append(blocks, block)
           IN  /\ next \in Seq(PathEntries(W))
               /\ FollowsOutline(more)
               /\ \E places : Spells(next, more, places)
<1> DEFINE level == entry.level
           next == Append(Cut(path, level), entry)
           more == Append(blocks, block)
           n == Len(blocks)
<1>1. \A i, j \in DOMAIN path : i < j => path[i].level < path[j].level
    BY DEF Spells
<1>2. level \in Nat
    BY DEF PathEntries
<1>3. PICK c \in 0 .. Len(path) :
          /\ Cut(path, level) \in Seq(PathEntries(W))
          /\ Len(Cut(path, level)) = c
          /\ \A i \in 1 .. c : Cut(path, level)[i] = path[i]
          /\ \A i \in DOMAIN path : path[i].level < level <=> i <= c
    <2> HIDE DEF level
    <2> QED
        BY <1>1, <1>2, CutPath
<1>4. /\ next \in Seq(PathEntries(W)) /\ Len(next) = c + 1 /\ DOMAIN next = 1 .. c + 1
      /\ \A i \in 1 .. c : next[i] = path[i]
      /\ next[c + 1] = entry
    <2> DEFINE cut == Cut(path, level)
    <2>1. cut \in Seq(PathEntries(W)) /\ Len(cut) = c /\ \A i \in 1 .. c : cut[i] = path[i]
        BY <1>3
    <2>2. next = Append(cut, entry) /\ c \in Nat
        BY <1>3, LenProperties
    <2> HIDE DEF cut, next
    <2> QED
        BY <2>1, <2>2, AppendProperties, LenProperties
<1>5. /\ n \in Nat /\ DOMAIN blocks = 1 .. n
      /\ more \in Seq(B) /\ Len(more) = n + 1 /\ DOMAIN more = 1 .. n + 1
      /\ \A i \in 1 .. n : more[i] = blocks[i]
      /\ more[n + 1] = block
    BY AppendProperties, LenProperties
<1>6. Ancestors(more, n + 1) = {h \in Ancestors(blocks, n) : level > blocks[h].level} \cup {n + 1}
    BY AncestorsOfNext
<1>7. block.heading_path = HeadingPath(next)
    OBVIOUS
<1> HIDE DEF next, more, n
<1> DEFINE places == [i \in 1 .. c + 1 |-> IF i <= c THEN at[i] ELSE n + 1]
<1>8. /\ c \in Nat /\ DOMAIN path = 1 .. Len(path) /\ Len(path) \in Nat
      /\ 1 .. c \subseteq DOMAIN path
    BY <1>3, LenProperties
<1>9. /\ \A i \in DOMAIN path : at[i] \in 1 .. n
      /\ \A i \in DOMAIN path : /\ IsHeading(blocks[at[i]])
                                /\ blocks[at[i]].level = path[i].level
                                /\ blocks[at[i]].text[1] = path[i].word
      /\ \A i, j \in DOMAIN path : i < j => at[i] < at[j]
      /\ {at[i] : i \in DOMAIN path} = Ancestors(blocks, n)
    BY <1>5 DEF Spells, n
<1>10. \A i \in DOMAIN path : path[i].level \in Nat
    <2>1. \A i \in DOMAIN path : path[i] \in PathEntries(W)
        BY <1>8
    <2> QED
        BY <2>1 DEF PathEntries
<1>11. Spells(next, more, places)
    <2>1. places \in [DOMAIN next -> DOMAIN more]
        <3>1. ASSUME NEW i \in 1 .. c + 1
              PROVE  (IF i <= c THEN at[i] ELSE n + 1) \in 1 .. n + 1
            <4>1. CASE i <= c
                <5>1. i \in DOMAIN path
                    BY <1>8, <4>1
                <5> QED
                    BY <1>5, <1>9, <4>1, <5>1
            <4>2. CASE ~(i <= c)
                BY <1>5, <4>2
            <4> QED
                BY <4>1, <4>2
        <3> QED
            BY <1>4, <1>5, <3>1
    <2>2. ASSUME NEW i \in DOMAIN next, NEW j \in DOMAIN next, i < j
          PROVE  places[i] < places[j] /\ next[i].level < next[j].level
        <3>1. i \in 1 .. c /\ (j \in 1 .. c \/ j = c + 1)
            BY <1>4, <1>8, <2>2
        <3>2. places[i] = at[i] /\ next[i] = path[i] /\ i \in DOMAIN path /\ i <= c
            BY <1>4, <1>8, <3>1
        <3>3. CASE j \in 1 .. c
            <4>1. places[j] = at[j] /\ next[j] = path[j] /\ j \in DOMAIN path
                BY <1>4, <1>8, <3>3
            <4> QED
                BY <1>1, <1>9, <2>2, <3>2, <4>1
        <3>4. CASE j = c + 1
            <4>1. places[j] = n + 1 /\ next[j].level = level
                BY <1>4, <1>8, <3>4
            <4>2. at[i] < n + 1
                BY <1>5, <1>9, <3>2
            <4> QED
                BY <1>3, <3>2, <4>1, <4>2
        <3> QED
            BY <3>1, <3>3, <3>4
    <2>3. ASSUME NEW i \in DOMAIN next
          PROVE  /\ IsHeading(more[places[i]])
                 /\ more[places[i]].level = next[i].level
                 /\ more[places[i]].text[1] = next[i].word
        <3>1. CASE i \in 1 .. c
            <4>1. places[i] = at[i] /\ next[i] = path[i] /\ at[i] \in 1 .. n /\ i \in DOMAIN path
                BY <1>4, <1>8, <1>9, <3>1
            <4> QED
                BY <1>5, <1>9, <4>1
        <3>2. CASE i = c + 1
            <4>1. places[i] = n + 1 /\ next[i] = entry
                BY <1>4, <1>8, <3>2
            <4> QED
                BY <1>5, <4>1
        <3> QED
            BY <1>4, <1>8, <3>1, <3>2
    <2>4. {places[i] : i \in DOMAIN next} = Ancestors(more, Len(more))
        <3>1. {h \in Ancestors(blocks, n) : level > blocks[h].level} = {at[i] : i \in 1 .. c}
            <4>1. ASSUME NEW i \in DOMAIN path
                  PROVE  level > blocks[at[i]].level <=> i \in 1 .. c
                <5>1. i \in Nat \ {0} /\ path[i].level \in Nat /\ blocks[at[i]].level = path[i].level
                    BY <1>8, <1>9, <1>10
                <5>2. path[i].level < level <=> i <= c
                    BY <1>3
                <5> HIDE DEF level
                <5> QED
                    BY <1>2, <1>8, <5>1, <5>2
            <4> QED
                BY <1>8, <1>9, <4>1
        <3>2. /\ DOMAIN next = 1 .. c \cup {c + 1}
              /\ \A i \in 1 .. c : places[i] = at[i]
              /\ places[c + 1] = n + 1
            BY <1>4, <1>8
        <3>3. {places[i] : i \in DOMAIN next} = {at[i] : i \in 1 .. c} \cup {n + 1}
            <4> HIDE DEF places
            <4> QED
                BY <3>2
        <3> QED
            BY <1>5, <1>6, <3>1, <3>3
    <2> HIDE DEF places
    <2> QED
        BY <2>1, <2>2, <2>3, <2>4 DEF Spells
<1>12. FollowsOutline(more)
    BY <1>4, <1>7, <1>11, OutlineGrows DEF more
<1> QED
    BY <1>4, <1>11, <1>12 DEF next, more

\* Any other block comes to stand under the headings that are open.
LEMMA BlockJoins ==
    ASSUME NEW W, NEW path \in Seq(PathEntries(W)), NEW B, NEW blocks \in Seq(B),
           FollowsOutline(blocks), NEW at, Spells(path, blocks, at),
           NEW block \in B, ~IsHeading(block), block.heading_path = HeadingPath(path)
    PROVE  FollowsOutline(Append(blocks, block)) /\ Spells(path, Append(blocks, block), at)
<1> DEFINE more == Append(blocks, block)
           n == Len(blocks)
<1>1. /\ n \in Nat /\ DOMAIN blocks = 1 .. n
      /\ Len(more) = n + 1 /\ DOMAIN more = 1 .. n + 1
      /\ \A i \in 1 .. n : more[i] = blocks[i]
    BY AppendProperties, LenProperties
<1>2. Ancestors(more, n + 1) = Ancestors(blocks, n)
    BY AncestorsOfNext
<1> HIDE DEF more, n
<1>3. Spells(path, more, at)
    <2>1. at \in [DOMAIN path -> 1 .. n]
        BY <1>1 DEF Spells
    <2>2. at \in [DOMAIN path -> DOMAIN more]
        BY <1>1, <2>1
    <2>3. \A i \in DOMAIN path : more[at[i]] = blocks[at[i]]
        BY <1>1, <2>1
    <2>4. Ancestors(more, Len(more)) = Ancestors(blocks, Len(blocks))
        BY <1>1, <1>2 DEF n
    <2> QED
        BY <2>2, <2>3, <2>4 DEF Spells
<1> QED
    BY <1>3, OutlineGrows DEF more

\* Nothing is open before the first block.
LEMMA OpenedIsWellBuilt == WellBuilt(Opened)
<1>1. Opened \in Builders({}, {}, {})
    BY EmptySeq DEF Opened, Builders
<1>2. FollowsOutline(Opened.blocks)
    BY DEF FollowsOutline, Opened
<1>3. Spells(Opened.path, Opened.blocks, <<>>)
    BY DEF Spells, Opened, Ancestors
<1> QED
    BY <1>1, <1>2, <1>3 DEF WellBuilt

\* CanonicalDocumentBuilder.heading keeps a builder well built and goes on from
\* its blocks.
LEMMA HeadingBuilt ==
    ASSUME NEW b, WellBuilt(b), NEW level \in Nat \ {0}, NEW text, NEW locator
    PROVE  /\ WellBuilt(AddHeading(b, level, text, locator))
           /\ Continues(b.blocks, AddHeading(b, level, text, locator).blocks)
<1> DEFINE title == Normalize(text)
           entry == [level |-> level, word |-> title[1]]
           path == Append(Cut(b.path, entry.level), entry)
           block == [type |-> "HEADING", text |-> title, level |-> level,
                     locator |-> locator, heading_path |-> HeadingPath(path)]
           more == Append(b.blocks, block)
<1>1. PICK W, B, L : b \in Builders(W, B, L)
    BY DEF WellBuilt
<1>2. PICK at : Spells(b.path, b.blocks, at)
    BY DEF WellBuilt
<1>3. /\ b.path \in Seq(PathEntries(W)) /\ b.blocks \in Seq(B) /\ b.warnings \in SUBSET L
      /\ b = [path |-> b.path, blocks |-> b.blocks, warnings |-> b.warnings]
    BY <1>1 DEF Builders
<1>4. CASE title = <<>>
    <2>1. AddHeading(b, level, text, locator) =
              [path |-> b.path, blocks |-> b.blocks, warnings |-> b.warnings \cup {locator}]
        BY <1>3, <1>4 DEF AddHeading
    <2>2. [path |-> b.path, blocks |-> b.blocks, warnings |-> b.warnings \cup {locator}]
              \in Builders(W, B, L \cup {locator})
        BY <1>3 DEF Builders
    <2>3. AddHeading(b, level, text, locator).blocks = b.blocks
        BY <2>1
    <2> QED
        BY <2>1, <2>2, <2>3 DEF WellBuilt, Continues, Begins
<1>5. CASE title # <<>>
    <2> DEFINE V == W \cup {title[1]}
               C == B \cup {block}
    <2>1. AddHeading(b, level, text, locator) =
              [path |-> path, blocks |-> more, warnings |-> b.warnings]
        BY <1>3, <1>5 DEF AddHeading
    <2>9. Continues(b.blocks, more)
        <3> HIDE DEF block
        <3> QED
            BY <1>3, AppendedContinues
    <2>2. b.blocks \in Seq(C) /\ block \in C
        BY <1>3, SeqGrows
    <2>3. b.path \in Seq(PathEntries(V)) /\ entry \in PathEntries(V)
        <3>1. PathEntries(W) \subseteq PathEntries(V)
            BY DEF PathEntries
        <3>2. entry \in PathEntries(V)
            BY DEF PathEntries
        <3> QED
            BY <1>3, <3>1, <3>2, SeqGrows
    <2>4. /\ IsHeading(block) /\ block.level = entry.level /\ block.text[1] = entry.word
          /\ block.heading_path = HeadingPath(path)
        BY DEF IsHeading
    <2>5. FollowsOutline(b.blocks)
        BY DEF WellBuilt
    <2> HIDE DEF title, entry, block, C, V
    <2>6. /\ path \in Seq(PathEntries(V)) /\ FollowsOutline(more)
          /\ \E places : Spells(path, more, places)
        BY <1>2, <2>2, <2>3, <2>4, <2>5, HeadingOpens
    <2>7. more \in Seq(C)
        BY <2>2, AppendProperties
    <2> HIDE DEF path, more
    <2>8. [path |-> path, blocks |-> more, warnings |-> b.warnings] \in Builders(V, C, L)
        BY <1>3, <2>6, <2>7 DEF Builders
    <2>10. AddHeading(b, level, text, locator).blocks = more
        BY <2>1
    <2> QED
        BY <2>1, <2>6, <2>8, <2>9, <2>10 DEF WellBuilt
<1> QED
    BY <1>4, <1>5

\* So does CanonicalDocumentBuilder.block.
LEMMA BlockBuilt ==
    ASSUME NEW b, WellBuilt(b), NEW type, type # "HEADING", NEW text, NEW locator
    PROVE  /\ WellBuilt(AddBlock(b, type, text, locator))
           /\ Continues(b.blocks, AddBlock(b, type, text, locator).blocks)
<1> DEFINE block == [type |-> type, text |-> Normalize(text), level |-> 0,
                     locator |-> locator, heading_path |-> HeadingPath(b.path)]
           more == Append(b.blocks, block)
<1>1. PICK W, B, L : b \in Builders(W, B, L)
    BY DEF WellBuilt
<1>2. PICK at : Spells(b.path, b.blocks, at)
    BY DEF WellBuilt
<1>3. /\ b.path \in Seq(PathEntries(W)) /\ b.blocks \in Seq(B) /\ b.warnings \in SUBSET L
      /\ b = [path |-> b.path, blocks |-> b.blocks, warnings |-> b.warnings]
    BY <1>1 DEF Builders
<1>4. CASE IsEmpty(text)
    BY <1>4 DEF AddBlock, Continues, Begins
<1>5. CASE ~IsEmpty(text)
    <2> DEFINE C == B \cup {block}
    <2>1. AddBlock(b, type, text, locator) =
              [path |-> b.path, blocks |-> more, warnings |-> b.warnings]
        BY <1>3, <1>5 DEF AddBlock
    <2>8. Continues(b.blocks, more)
        <3> HIDE DEF block
        <3> QED
            BY <1>3, AppendedContinues
    <2>2. b.blocks \in Seq(C) /\ block \in C
        BY <1>3, SeqGrows
    <2>3. ~IsHeading(block) /\ block.heading_path = HeadingPath(b.path)
        BY DEF IsHeading
    <2>4. FollowsOutline(b.blocks)
        BY DEF WellBuilt
    <2> HIDE DEF block, C
    <2>5. FollowsOutline(more) /\ Spells(b.path, more, at)
        BY <1>2, <1>3, <2>2, <2>3, <2>4, BlockJoins
    <2>6. more \in Seq(C)
        BY <2>2, AppendProperties
    <2> HIDE DEF more
    <2>7. [path |-> b.path, blocks |-> more, warnings |-> b.warnings] \in Builders(W, C, L)
        BY <1>3, <2>6 DEF Builders
    <2>9. AddBlock(b, type, text, locator).blocks = more
        BY <2>1
    <2> QED
        BY <2>1, <2>5, <2>7, <2>8, <2>9 DEF WellBuilt
<1> QED
    BY <1>4, <1>5

\* What holds of the empty sequence and of each with one element more holds of all.
LEMMA SeqUpwards ==
    ASSUME NEW S, NEW s \in Seq(S), NEW T, <<>> \in T,
           \A t \in Seq(S) : \A x \in S : t \in T => Append(t, x) \in T
    PROVE  s \in T
<1> DEFINE n == Len(s)
           P == {k \in 0 .. n : SubSeq(s, 1, k) \in T}
<1>1. n \in Nat /\ \A i \in 1 .. n : s[i] \in S
    BY LenProperties, ElementOfSeq
<1>2. 0 \in P
    <2>1. SubSeq(s, 1, 0) = <<>>
        BY SubSeqEmpty
    <2>2. SubSeq(s, 1, 0) \in T
        BY ONLY <2>1, <<>> \in T
    <2>3. 0 \in 0 .. n
        BY <1>1
    <2> HIDE DEF n
    <2> QED
        BY <2>2, <2>3
<1>3. ASSUME NEW k \in 0 .. n - 1, k \in P PROVE k + 1 \in P
    <2>1. /\ k + 1 \in 0 .. n /\ k + 1 \in 1 .. Len(s) /\ k + 1 \in k + 1 .. Len(s) /\ (k + 1) - 1 = k
          /\ 1 \in 1 .. Len(s) /\ k + 1 \in 1 .. Len(s) /\ s[k + 1] \in S
        BY <1>1
    <2>2. SubSeq(s, 1, k) \in Seq(S)
        <3>1. \A i \in 1 .. k : s[i] \in S
            BY <1>1
        <3> QED
            BY <3>1, SubSeqProperties
    <2>3. SubSeq(s, 1, k + 1) = SubSeq(s, 1, k) \o <<s[k + 1]>>
        BY <2>1, SubSeqRecursiveSecond
    <2>4. Append(SubSeq(s, 1, k), s[k + 1]) = SubSeq(s, 1, k) \o <<s[k + 1]>>
        BY <2>1, <2>2, AppendIsConcat
    <2>5. SubSeq(s, 1, k) \in T
        BY <1>3
    <2> QED
        BY <2>1, <2>2, <2>3, <2>4, <2>5
<1> HIDE DEF P
<1>4. 0 .. n \subseteq P
    BY <1>1, <1>2, <1>3, Upwards
<1>5. n \in P
    BY <1>1, <1>4
<1> QED
    BY <1>5, SubSeqFull DEF P

\* FlattenSeq of nothing, and of one sequence.
LEMMA FlattenedFew ==
    ASSUME NEW S, NEW s \in Seq(S)
    PROVE  FlattenSeq(<<>>) = <<>> /\ FlattenSeq(<<s>>) = s
<1>1. FlattenSeq(<<>>) = <<>>
    BY EmptySeq DEF FlattenSeq
<1> DEFINE none == <<>>
<1>2. none \in Seq(Seq(S)) /\ Append(none, s) = <<s>>
    BY EmptySeq, AppendIsConcat, ConcatEmptySeq
<1>3. FlattenSeq(Append(none, s)) = <<>> \o s
    BY <1>1, <1>2, FlattenedGrows
<1> QED
    BY <1>1, <1>2, <1>3, ConcatEmptySeq

\* Sequences of sequences one after the other.
LEMMA FlattenedJoined ==
    ASSUME NEW S, NEW ss \in Seq(Seq(S)), NEW tt \in Seq(Seq(S))
    PROVE  FlattenSeq(ss \o tt) = FlattenSeq(ss) \o FlattenSeq(tt)
<1> DEFINE T == {uu \in Seq(Seq(S)) : FlattenSeq(ss \o uu) = FlattenSeq(ss) \o FlattenSeq(uu)}
<1>1. <<>> \in T
    <2>1. ss \o <<>> = ss /\ FlattenSeq(ss) \o <<>> = FlattenSeq(ss) /\ <<>> \in Seq(Seq(S))
        BY ConcatEmptySeq, FlattenedIsSeq, EmptySeq
    <2> QED
        BY <2>1, FlattenedFew, EmptySeq
<1>2. ASSUME NEW uu \in Seq(Seq(S)), NEW x \in Seq(S), uu \in T PROVE Append(uu, x) \in T
    <2>1. /\ ss \o uu \in Seq(Seq(S)) /\ Append(uu, x) \in Seq(Seq(S))
          /\ FlattenSeq(ss) \in Seq(S) /\ FlattenSeq(uu) \in Seq(S)
        BY ConcatProperties, AppendProperties, FlattenedIsSeq
    <2>2. ss \o Append(uu, x) = Append(ss \o uu, x)
        <3>1. Append(uu, x) = uu \o <<x>> /\ Append(ss \o uu, x) = (ss \o uu) \o <<x>>
            BY <2>1, AppendIsConcat
        <3>2. <<x>> \in Seq(Seq(S))
            OBVIOUS
        <3> QED
            BY <3>1, <3>2, ConcatAssociative
    <2>3. FlattenSeq(Append(ss \o uu, x)) = FlattenSeq(ss \o uu) \o x
        BY <2>1, FlattenedGrows
    <2>4. FlattenSeq(Append(uu, x)) = FlattenSeq(uu) \o x
        BY FlattenedGrows
    <2>5. FlattenSeq(ss \o uu) = FlattenSeq(ss) \o FlattenSeq(uu)
        BY <1>2
    <2>6. (FlattenSeq(ss) \o FlattenSeq(uu)) \o x = FlattenSeq(ss) \o (FlattenSeq(uu) \o x)
        <3> DEFINE a == FlattenSeq(ss)
                   b == FlattenSeq(uu)
        <3>1. a \in Seq(S) /\ b \in Seq(S)
            BY <2>1
        <3> HIDE DEF a, b
        <3>2. \A p, q, r \in Seq(S) : (p \o q) \o r = p \o (q \o r)
            BY ONLY ConcatAssociative, SMTT(60)
        <3>3. (a \o b) \o x = a \o (b \o x)
            BY ONLY <3>1, x \in Seq(S), <3>2
        <3> QED
            BY ONLY <3>3 DEF a, b
    <2> QED
        BY <2>1, <2>2, <2>3, <2>4, <2>5, <2>6
<1> HIDE DEF T
<1>3. tt \in T
    BY <1>1, <1>2, SeqUpwards
<1> QED
    BY <1>3 DEF T

\* A function on 1 .. n with values in S is a sequence over S.
LEMMA FunctionIsSeq ==
    ASSUME NEW n \in Nat, NEW S, NEW s, s = [i \in 1 .. n |-> s[i]], \A i \in 1 .. n : s[i] \in S
    PROVE  s \in Seq(S) /\ Len(s) = n /\ DOMAIN s = 1 .. n
<1>1. s \in [1 .. n -> S]
    OBVIOUS
<1>2. s \in Seq(S)
    BY <1>1, SeqDef
<1> QED
    BY <1>1, <1>2, LenProperties

\* What is made of the elements of a sequence, one by one.
Mapped(f, s) == [k \in DOMAIN s |-> f[s[k]]]

LEMMA MappedIsSeq ==
    ASSUME NEW S, NEW s \in Seq(S), NEW R, NEW f, \A x \in S : f[x] \in R
    PROVE  Mapped(f, s) \in Seq(R)
<1> DEFINE n == Len(s)
           g == Mapped(f, s)
<1>1. n \in Nat /\ DOMAIN s = 1 .. n /\ \A k \in 1 .. n : s[k] \in S
    BY LenProperties, ElementOfSeq
<1> HIDE DEF n
<1>2. \A k \in 1 .. n : g[k] \in R
    BY <1>1 DEF Mapped
<1>3. g = [k \in 1 .. n |-> g[k]]
    BY <1>1 DEF Mapped
<1> HIDE DEF g
<1>4. g \in Seq(R)
    BY <1>1, <1>2, <1>3, FunctionIsSeq
<1> QED
    BY <1>4 DEF g

LEMMA MappedProperties ==
    ASSUME NEW S, NEW s \in Seq(S), NEW f
    PROVE  /\ Len(Mapped(f, s)) = Len(s)
           /\ DOMAIN Mapped(f, s) = 1 .. Len(s)
           /\ \A k \in 1 .. Len(s) : Mapped(f, s)[k] = f[s[k]]
<1> DEFINE n == Len(s)
           g == Mapped(f, s)
           R == {f[x] : x \in S}
<1>1. n \in Nat /\ DOMAIN s = 1 .. n /\ \A k \in 1 .. n : s[k] \in S
    BY LenProperties, ElementOfSeq
<1> HIDE DEF n
<1>2. \A k \in 1 .. n : g[k] = f[s[k]] /\ g[k] \in R
    BY <1>1 DEF Mapped
<1>3. g = [k \in 1 .. n |-> g[k]]
    BY <1>1 DEF Mapped
<1> HIDE DEF g, R
<1>4. Len(g) = n /\ DOMAIN g = 1 .. n
    BY <1>1, <1>2, <1>3, FunctionIsSeq
<1> QED
    BY <1>1, <1>2, <1>4 DEF g, n

\* Sequences one after the other are mapped one after the other.
LEMMA MappedJoined ==
    ASSUME NEW S, NEW s \in Seq(S), NEW t \in Seq(S), NEW f
    PROVE  Mapped(f, s \o t) = Mapped(f, s) \o Mapped(f, t)
<1> DEFINE n == Len(s)
           m == Len(t)
           R == {f[x] : x \in S}
           u == s \o t
           a == Mapped(f, s)
           b == Mapped(f, t)
           c == Mapped(f, u)
<1>1. /\ n \in Nat /\ m \in Nat
      /\ u \in Seq(S) /\ Len(u) = n + m
      /\ \A i \in 1 .. n + m : u[i] = IF i <= n THEN s[i] ELSE t[i - n]
    BY LenProperties, ConcatProperties
<1>2. Len(a) = n /\ (\A i \in 1 .. n : a[i] = f[s[i]])
    BY MappedProperties
<1>3. Len(b) = m /\ (\A i \in 1 .. m : b[i] = f[t[i]])
    BY MappedProperties
<1>4. Len(c) = n + m /\ (\A i \in 1 .. n + m : c[i] = f[u[i]])
    <2> HIDE DEF u, n, m
    <2>1. u \in Seq(S) /\ Len(u) = n + m
        BY <1>1
    <2>2. /\ Len(Mapped(f, u)) = Len(u)
          /\ \A k \in 1 .. Len(u) : Mapped(f, u)[k] = f[u[k]]
        BY ONLY <2>1, MappedProperties
    <2> QED
        BY <2>1, <2>2
<1>8. a \in Seq(R) /\ b \in Seq(R) /\ c \in Seq(R)
    <2>1. \A x \in S : f[x] \in R
        OBVIOUS
    <2> HIDE DEF R
    <2> QED
        BY <1>1, <2>1, MappedIsSeq
<1> HIDE DEF n, m, R, a, b, c, u
<1>5. /\ a \o b \in Seq(R) /\ Len(a \o b) = n + m
      /\ \A i \in 1 .. n + m : (a \o b)[i] = IF i <= n THEN a[i] ELSE b[i - n]
    <2>1. /\ a \o b \in Seq(R) /\ Len(a \o b) = Len(a) + Len(b)
          /\ \A i \in 1 .. Len(a) + Len(b) :
                (a \o b)[i] = IF i <= Len(a) THEN a[i] ELSE b[i - Len(a)]
        BY ONLY <1>8, ConcatProperties
    <2> QED
        BY ONLY <1>2, <1>3, <2>1
<1>6. ASSUME NEW i \in 1 .. n + m PROVE c[i] = (a \o b)[i]
    <2>1. (i <= n => i \in 1 .. n) /\ (~(i <= n) => i - n \in 1 .. m)
        BY <1>1
    <2>0. c[i] = f[u[i]]
        BY ONLY <1>4, <1>6
    <2>2. CASE i <= n
        <3>1. u[i] = s[i] /\ (a \o b)[i] = a[i]
            BY ONLY <1>1, <1>5, <1>6, <2>2
        <3>2. a[i] = f[s[i]]
            BY ONLY <1>2, <2>1, <2>2
        <3> QED
            BY ONLY <2>0, <3>1, <3>2
    <2>3. CASE ~(i <= n)
        <3>1. u[i] = t[i - n] /\ (a \o b)[i] = b[i - n]
            BY ONLY <1>1, <1>5, <1>6, <2>3
        <3>2. b[i - n] = f[t[i - n]]
            BY ONLY <1>3, <2>1, <2>3
        <3> QED
            BY ONLY <2>0, <3>1, <3>2
    <2> QED
        BY <2>2, <2>3
<1>7. c = a \o b
    BY <1>4, <1>5, <1>6, <1>8, SeqEqual
<1> QED
    BY <1>7 DEF a, b, c, u

\* One element more.
LEMMA MappedAppend ==
    ASSUME NEW S, NEW s \in Seq(S), NEW x \in S, NEW f
    PROVE  Mapped(f, Append(s, x)) = Append(Mapped(f, s), f[x])
<1>1. Mapped(f, <<x>>) = <<f[x]>>
    BY DEF Mapped
<1>2. Append(s, x) = s \o <<x>> /\ <<x>> \in Seq(S)
    BY AppendIsConcat
<1> DEFINE R == {f[y] : y \in S}
<1>3. f[x] \in R /\ \A y \in S : f[y] \in R
    OBVIOUS
<1> HIDE DEF R
<1>4. Append(Mapped(f, s), f[x]) = Mapped(f, s) \o <<f[x]>>
    BY <1>3, MappedIsSeq, AppendIsConcat
<1>5. Mapped(f, s \o <<x>>) = Mapped(f, s) \o Mapped(f, <<x>>)
    BY <1>2, MappedJoined
<1> QED
    BY <1>1, <1>2, <1>4, <1>5

-----------------------------------------------------------------------------
(* The words of a text and of the sections of a document.                   *)

\* The words of a text, one more line at a time.
LEMMA InkedGrows ==
    ASSUME NEW S, NEW t \in Seq(S), NEW x \in S
    PROVE  /\ Inked(<<>>) = <<>>
           /\ Inked(t) \in Seq(S)
           /\ Inked(Append(t, x)) =
                  IF x \in {Blank, EmptyCell} THEN Inked(t) ELSE Inked(t) \o <<x>>
<1> DEFINE f == [w \in S |-> IF w \in {Blank, EmptyCell} THEN <<>> ELSE <<w>>]
           parts(u) == Mapped(f, u)
<1>1. f \in [S -> Seq(S)]
    <2>1. ASSUME NEW w \in S PROVE f[w] \in Seq(S)
        BY EmptySeq
    <2>2. f = [w \in S |-> f[w]]
        OBVIOUS
    <2> HIDE DEF f
    <2> QED
        BY <2>1, <2>2
<1>2. ASSUME NEW u \in Seq(S) PROVE Inked(u) = FlattenSeq(parts(u))
    <2>1. \A k \in DOMAIN u : u[k] \in S
        BY LenProperties, ElementOfSeq
    <2>2. parts(u) = [k \in DOMAIN u |-> IF u[k] \in {Blank, EmptyCell} THEN <<>> ELSE <<u[k]>>]
        BY <2>1 DEF Mapped
    <2> QED
        BY <2>2 DEF Inked
<1>3. f[x] = IF x \in {Blank, EmptyCell} THEN <<>> ELSE <<x>>
    OBVIOUS
<1>4. Inked(<<>>) = <<>>
    <2>1. Inked(<<>>) = FlattenSeq(<<>>)
        BY DEF Inked
    <2> QED
        BY <2>1, FlattenedFew, EmptySeq
<1> HIDE DEF f
<1>5. parts(t) \in Seq(Seq(S)) /\ parts(Append(t, x)) = Append(parts(t), f[x]) /\ f[x] \in Seq(S)
    BY <1>1, MappedAppend, MappedIsSeq
<1>6. FlattenSeq(parts(Append(t, x))) = FlattenSeq(parts(t)) \o f[x]
    <2> HIDE DEF parts
    <2> QED
        BY <1>5, FlattenedGrows
<1>7. Append(t, x) \in Seq(S) /\ FlattenSeq(parts(t)) \in Seq(S)
    BY <1>5, AppendProperties, FlattenedIsSeq
<1>8. Inked(t) = FlattenSeq(parts(t)) /\ Inked(Append(t, x)) = FlattenSeq(parts(Append(t, x)))
    BY <1>2, <1>7
<1> HIDE DEF parts
<1>9. FlattenSeq(parts(t)) \o <<>> = FlattenSeq(parts(t))
    BY <1>7, ConcatEmptySeq
<1> QED
    BY <1>3, <1>4, <1>6, <1>7, <1>8, <1>9

\* The words of a text are lines of it.
LEMMA InkedIsSeq ==
    ASSUME NEW S, NEW t \in Seq(S)
    PROVE  Inked(t) \in Seq(S)
<1>1. CASE S = {}
    <2>1. t = <<>>
        <3>1. Len(t) = 0
            BY <1>1, LenProperties, ElementOfSeq
        <3> QED
            BY <3>1, EmptySeq
    <2>2. Inked(<<>>) = FlattenSeq(<<>>)
        BY DEF Inked
    <2> QED
        BY <2>1, <2>2, FlattenedFew, EmptySeq
<1>2. CASE S # {}
    BY <1>2, InkedGrows
<1> QED
    BY <1>1, <1>2

\* A text after another one.
LEMMA InkedJoined ==
    ASSUME NEW S, NEW s \in Seq(S), NEW t \in Seq(S)
    PROVE  Inked(s \o t) = Inked(s) \o Inked(t)
<1> DEFINE T == {u \in Seq(S) : Inked(s \o u) = Inked(s) \o Inked(u)}
<1>1. <<>> \in T
    <2>1. Inked(<<>>) = <<>>
        <3>1. Inked(<<>>) = FlattenSeq(<<>>)
            BY DEF Inked
        <3> QED
            BY <3>1, FlattenedFew, EmptySeq
    <2>2. s \o <<>> = s /\ Inked(s) \o <<>> = Inked(s)
        BY ConcatEmptySeq, InkedIsSeq
    <2> QED
        BY <2>1, <2>2, EmptySeq
<1>2. ASSUME NEW u \in Seq(S), NEW x \in S, u \in T PROVE Append(u, x) \in T
    <2> DEFINE a == Inked(s)
               b == Inked(u)
    <2>1. /\ s \o u \in Seq(S) /\ Append(u, x) \in Seq(S) /\ <<x>> \in Seq(S)
          /\ a \in Seq(S) /\ b \in Seq(S)
        BY ConcatProperties, AppendProperties, InkedIsSeq
    <2>2. s \o Append(u, x) = Append(s \o u, x)
        <3>1. Append(u, x) = u \o <<x>> /\ Append(s \o u, x) = (s \o u) \o <<x>>
            BY <2>1, AppendIsConcat
        <3> QED
            BY <2>1, <3>1, ConcatAssociative, SMTT(30)
    <2>3. Inked(Append(s \o u, x)) =
              IF x \in {Blank, EmptyCell} THEN Inked(s \o u) ELSE Inked(s \o u) \o <<x>>
        BY <2>1, InkedGrows, ZenonT(30)
    <2>4. Inked(Append(u, x)) = IF x \in {Blank, EmptyCell} THEN b ELSE b \o <<x>>
        BY InkedGrows
    <2>5. Inked(s \o u) = a \o b
        BY <1>2
    <2> HIDE DEF a, b
    <2>6. (a \o b) \o <<x>> = a \o (b \o <<x>>)
        BY <2>1, ConcatAssociative, SMTT(30)
    <2>7. Inked(Append(s \o u, x)) = a \o Inked(Append(u, x))
        BY <2>3, <2>4, <2>5, <2>6
    <2> QED
        BY <2>1, <2>2, <2>7 DEF a
<1> HIDE DEF T
<1>3. t \in T
    BY <1>1, <1>2, SeqUpwards
<1> QED
    BY <1>3 DEF T

\* White space and empty cells are no words.
LEMMA NothingInked ==
    ASSUME NEW t \in Seq({Blank, EmptyCell})
    PROVE  Inked(t) = <<>>
<1> DEFINE T == {u \in Seq({Blank, EmptyCell}) : Inked(u) = <<>>}
<1>1. \A u \in Seq({Blank, EmptyCell}), x \in {Blank, EmptyCell} :
          Inked(<<>>) = <<>> /\ Inked(Append(u, x)) = Inked(u)
    BY InkedGrows
<1>2. <<>> \in T
    BY <1>1, EmptySeq
<1>3. \A u \in Seq({Blank, EmptyCell}), x \in {Blank, EmptyCell} : u \in T => Append(u, x) \in T
    BY <1>1, AppendProperties
<1> HIDE DEF T
<1>4. t \in T
    BY <1>2, <1>3, SeqUpwards
<1> QED
    BY <1>4 DEF T

\* A text of words is all words.
LEMMA WordsInked ==
    ASSUME NEW t \in Seq(Words)
    PROVE  Inked(t) = t
<1> DEFINE T == {u \in Seq(Words) : Inked(u) = u}
<1>1. ASSUME NEW u \in Seq(Words), NEW x \in Words
      PROVE  Inked(<<>>) = <<>> /\ Inked(Append(u, x)) = Inked(u) \o <<x>>
    <2>1. x \notin {Blank, EmptyCell}
        BY DocumentAssumption, EmptyCellAssumption
    <2> QED
        BY <2>1, InkedGrows
<1>2. CASE Words = {}
    <2>1. t = <<>>
        BY <1>2, LenProperties, ElementOfSeq, EmptySeq
    <2>2. Inked(<<>>) = FlattenSeq(<<>>)
        BY DEF Inked
    <2> QED
        BY <2>1, <2>2, FlattenedFew, EmptySeq
<1>3. CASE Words # {}
    <2>1. <<>> \in T
        BY <1>1, <1>3, EmptySeq
    <2>2. ASSUME NEW u \in Seq(Words), NEW x \in Words, u \in T PROVE Append(u, x) \in T
        <3>1. Inked(u) = u
            BY <2>2
        <3>2. Append(u, x) = u \o <<x>> /\ Append(u, x) \in Seq(Words)
            BY AppendIsConcat, AppendProperties
        <3>3. Inked(Append(u, x)) = Append(u, x)
            BY <1>1, <3>1, <3>2
        <3> QED
            BY <3>2, <3>3
    <2> HIDE DEF T
    <2>3. t \in T
        BY <2>1, <2>2, SeqUpwards
    <2> QED
        BY <2>3 DEF T
<1> QED
    BY <1>2, <1>3

\* normalize_for_hash leaves out white space only.
LEMMA InkedNormalized ==
    ASSUME NEW S, NEW t \in Seq(S)
    PROVE  /\ Normalize(t) \in Seq(S)
           /\ Inked(Normalize(t)) = Inked(t)
           /\ Normalize(t) # <<>> => Normalize(t)[1] # Blank
           /\ Normalize(t) = <<>> <=> \A i \in DOMAIN t : t[i] = Blank
<1> DEFINE inked == {i \in DOMAIN t : t[i] # Blank}
           n == Len(t)
<1>1. n \in Nat /\ DOMAIN t = 1 .. n /\ \A i \in 1 .. n : t[i] \in S
    BY LenProperties, ElementOfSeq
<1>2. Normalize(t) = IF inked = {} THEN <<>> ELSE SubSeq(t, Min(inked), Max(inked))
    BY DEF Normalize
<1>3. ASSUME NEW s \in Seq(S), \A i \in DOMAIN s : s[i] = Blank PROVE Inked(s) = <<>>
    <2>1. s \in Seq({Blank, EmptyCell})
        <3>1. s = [i \in 1 .. Len(s) |-> s[i]] /\ Len(s) \in Nat
            BY LenProperties, ElementOfSeq
        <3>2. \A i \in 1 .. Len(s) : s[i] \in {Blank, EmptyCell}
            BY <1>3, LenProperties
        <3> QED
            BY <3>1, <3>2, FunctionIsSeq
    <2> QED
        BY <2>1, NothingInked
<1>4. CASE inked = {}
    <2>1. Normalize(t) = <<>>
        BY <1>2, <1>4
    <2>2. \A i \in DOMAIN t : t[i] = Blank
        BY <1>4
    <2>3. Inked(t) = <<>>
        BY <1>3, <2>2
    <2>4. Inked(<<>>) = FlattenSeq(<<>>)
        BY DEF Inked
    <2> QED
        BY <2>1, <2>2, <2>3, <2>4, FlattenedFew, EmptySeq
<1>5. CASE inked # {}
    <2> DEFINE a == Min(inked)
               b == Max(inked)
    <2>1. inked \in SUBSET Nat /\ inked \in SUBSET (0 .. n)
        BY <1>1
    <2>2. /\ a \in inked /\ \A i \in inked : a <= i
          /\ b \in inked /\ \A i \in inked : b >= i
        BY <1>1, <1>5, <2>1, MinIsLeast, MaxIsGreatest
    <2>3. Normalize(t) = SubSeq(t, a, b)
        BY <1>2, <1>5
    <2> HIDE DEF a, b, n
    <2>4. a \in 1 .. n /\ b \in a .. n /\ t[a] # Blank
        BY <1>1, <2>2
    <2> DEFINE before == SubSeq(t, 1, a - 1)
               after == SubSeq(t, b + 1, n)
               middle == SubSeq(t, a, b)
    <2>5. /\ before \in Seq(S) /\ \A i \in DOMAIN before : before[i] = Blank
        <3>1. \A i \in 1 .. a - 1 : t[i] \in S /\ t[i] = Blank
            BY <1>1, <2>2, <2>4
        <3>2. before \in Seq(S) /\ Len(before) = a - 1
            BY <3>1, <2>4, SubSeqProperties
        <3>3. \A i \in 1 .. a - 1 : before[i] = t[i]
            <4>1. \A i \in 1 .. (a - 1) - 1 + 1 : before[i] = t[1 + i - 1]
                BY <3>1, <2>4, SubSeqProperties
            <4> HIDE DEF before
            <4> QED
                BY <2>4, <4>1
        <3> HIDE DEF before
        <3> QED
            BY <3>1, <3>2, <3>3, LenProperties
    <2>6. /\ after \in Seq(S) /\ \A i \in DOMAIN after : after[i] = Blank
        <3>1. \A i \in b + 1 .. n : t[i] \in S /\ t[i] = Blank
            <4>1. ASSUME NEW i \in b + 1 .. n PROVE i \in 1 .. n /\ i \notin inked
                BY <1>1, <2>2, <2>4
            <4> QED
                BY <1>1, <4>1
        <3>2. /\ after \in Seq(S) /\ Len(after) = IF b + 1 <= n THEN n - (b + 1) + 1 ELSE 0
              /\ \A i \in 1 .. n - (b + 1) + 1 : after[i] = t[b + 1 + i - 1]
            BY <3>1, <2>4, <1>1, SubSeqProperties
        <3> HIDE DEF after
        <3>3. \A i \in 1 .. n - b : after[i] = Blank
            <4>1. \A i \in 1 .. n - b : i \in 1 .. n - (b + 1) + 1 /\ b + 1 + i - 1 \in b + 1 .. n
                BY <1>1, <2>4
            <4> QED
                BY <3>1, <3>2, <4>1
        <3>4. DOMAIN after \subseteq 1 .. n - b
            <4>1. DOMAIN after = 1 .. Len(after)
                BY <3>2, LenProperties
            <4> QED
                BY <1>1, <2>4, <3>2, <4>1
        <3> QED
            BY <3>2, <3>3, <3>4
    <2>7. /\ middle \in Seq(S) /\ middle # <<>> /\ middle[1] = t[a]
        <3>1. \A i \in a .. b : t[i] \in S
            BY <1>1, <2>4
        <3>2. /\ middle \in Seq(S) /\ Len(middle) = b - a + 1
              /\ \A i \in 1 .. b - a + 1 : middle[i] = t[a + i - 1]
            BY <3>1, <2>4, SubSeqProperties
        <3> HIDE DEF middle
        <3>3. 1 \in 1 .. b - a + 1 /\ a + 1 - 1 = a /\ b - a + 1 # 0
            BY <1>1, <2>4
        <3> QED
            BY <3>2, <3>3, EmptySeq
    <2>8. t = (before \o middle) \o after
        <3>1. before \o middle = SubSeq(t, 1, b)
            <4>1. /\ 1 \in 1 .. Len(t) + 1 /\ a - 1 \in 1 - 1 .. Len(t) /\ b \in a - 1 .. Len(t)
                  /\ (a - 1) + 1 = a
                BY <1>1, <2>4 DEF n
            <4>2. SubSeq(t, 1, a - 1) \o SubSeq(t, (a - 1) + 1, b) = SubSeq(t, 1, b)
                BY <4>1, ConcatAdjacentSubSeq
            <4> QED
                BY <4>1, <4>2
        <3>2. SubSeq(t, 1, b) \o after = SubSeq(t, 1, n)
            <4>1. 1 \in 1 .. Len(t) + 1 /\ b \in 1 - 1 .. Len(t) /\ n \in b .. Len(t)
                BY <1>1, <2>4 DEF n
            <4> QED
                BY <4>1, ConcatAdjacentSubSeq
        <3> HIDE DEF before, middle, after
        <3> QED
            BY <3>1, <3>2, SubSeqFull DEF n
    <2> HIDE DEF before, middle, after
    <2>9. before \o middle \in Seq(S)
        BY <2>5, <2>7, ConcatProperties
    <2>10. Inked(t) = (Inked(before) \o Inked(middle)) \o Inked(after)
        <3>1. Inked((before \o middle) \o after) = Inked(before \o middle) \o Inked(after)
            BY <2>6, <2>9, InkedJoined
        <3>2. Inked(before \o middle) = Inked(before) \o Inked(middle)
            BY <2>5, <2>7, InkedJoined
        <3> QED
            BY <2>8, <3>1, <3>2
    <2>11. Inked(before) = <<>> /\ Inked(after) = <<>> /\ Inked(middle) \in Seq(S)
        BY <1>3, <2>5, <2>6, <2>7, InkedIsSeq
    <2>12. Inked(t) = Inked(middle)
        BY <2>10, <2>11, ConcatEmptySeq
    <2>13. ~ \A i \in DOMAIN t : t[i] = Blank
        BY <1>5
    <2> QED
        BY <2>3, <2>4, <2>7, <2>12, <2>13 DEF middle
<1> QED
    BY <1>4, <1>5

\* The words of many texts are the words of each.
LEMMA InkedFlattened ==
    ASSUME NEW S, NEW ss \in Seq(Seq(S))
    PROVE  Inked(FlattenSeq(ss)) = FlattenSeq([k \in DOMAIN ss |-> Inked(ss[k])])
<1> DEFINE f == [s \in Seq(S) |-> Inked(s)]
           parts(uu) == Mapped(f, uu)
           T == {uu \in Seq(Seq(S)) : Inked(FlattenSeq(uu)) = FlattenSeq(parts(uu))}
<1>1. f \in [Seq(S) -> Seq(S)]
    BY InkedIsSeq
<1>2. parts(ss) = [k \in DOMAIN ss |-> Inked(ss[k])]
    BY LenProperties, ElementOfSeq DEF Mapped
<1>3. \A s \in Seq(S) : f[s] = Inked(s)
    OBVIOUS
<1> HIDE DEF f
<1>4. <<>> \in T
    <2>1. FlattenSeq(<<>>) = <<>> /\ <<>> \in Seq(Seq(S))
        BY FlattenedFew, EmptySeq
    <2>3. parts(<<>>) = <<>>
        BY DEF Mapped
    <2>2. Inked(<<>>) = FlattenSeq(<<>>)
        BY DEF Inked
    <2> QED
        BY <2>1, <2>2, <2>3
<1>5. ASSUME NEW uu \in Seq(Seq(S)), NEW x \in Seq(S), uu \in T PROVE Append(uu, x) \in T
    <2> DEFINE V == Seq(S)
    <2>1. parts(uu) \in Seq(Seq(S)) /\ parts(Append(uu, x)) = Append(parts(uu), f[x])
        <3>1. uu \in Seq(V) /\ x \in V /\ \A y \in V : f[y] \in V
            BY <1>1
        <3> HIDE DEF V
        <3>2. Mapped(f, uu) \in Seq(V) /\ Mapped(f, Append(uu, x)) = Append(Mapped(f, uu), f[x])
            BY <3>1, MappedAppend, MappedIsSeq
        <3> QED
            BY <3>2 DEF V
    <2> HIDE DEF parts
    <2>2. FlattenSeq(parts(Append(uu, x))) = FlattenSeq(parts(uu)) \o f[x]
        BY <1>1, <2>1, FlattenedGrows
    <2>3. FlattenSeq(Append(uu, x)) = FlattenSeq(uu) \o x /\ FlattenSeq(uu) \in Seq(S)
        BY FlattenedGrows, FlattenedIsSeq
    <2>4. Inked(FlattenSeq(uu) \o x) = Inked(FlattenSeq(uu)) \o Inked(x)
        BY <2>3, InkedJoined
    <2> QED
        BY <1>3, <1>5, <2>2, <2>3, <2>4, AppendProperties
<1> HIDE DEF T
<1>6. ss \in T
    BY <1>4, <1>5, SeqUpwards
<1> QED
    BY <1>2, <1>6 DEF T

\* Texts with the same words, one after the other.
LEMMA InkedAlike ==
    ASSUME NEW S, NEW ss \in Seq(Seq(S)), NEW tt \in Seq(Seq(S)), Len(ss) = Len(tt),
           \A k \in 1 .. Len(ss) : Inked(ss[k]) = Inked(tt[k])
    PROVE  Inked(FlattenSeq(ss)) = Inked(FlattenSeq(tt))
<1>1. DOMAIN ss = 1 .. Len(ss) /\ DOMAIN tt = 1 .. Len(ss)
    BY LenProperties
<1>2. [k \in DOMAIN ss |-> Inked(ss[k])] = [k \in DOMAIN tt |-> Inked(tt[k])]
    BY <1>1
<1> QED
    BY <1>2, InkedFlattened

\* What blocks say, one after the other.
Spoken(blocks) == FlattenSeq([k \in DOMAIN blocks |-> blocks[k].text])

\* All of these blocks, or calls, say lines of L.
Saying(B, L) == \A block \in B : block.text \in Seq(L)

LEMMA SpokenJoined ==
    ASSUME NEW L, NEW B, Saying(B, L),
           NEW blocks \in Seq(B), NEW more \in Seq(B)
    PROVE  /\ Spoken(blocks) \in Seq(L)
           /\ Spoken(blocks \o more) = Spoken(blocks) \o Spoken(more)
<1> DEFINE f == [block \in B |-> block.text]
           V == Seq(L)
<1>1. f \in [B -> V]
    BY DEF Saying
<1>2. ASSUME NEW s \in Seq(B)
      PROVE  Spoken(s) = FlattenSeq(Mapped(f, s)) /\ Mapped(f, s) \in Seq(V)
    <2>1. \A k \in DOMAIN s : s[k] \in B
        BY LenProperties, ElementOfSeq
    <2>2. [k \in DOMAIN s |-> s[k].text] = Mapped(f, s)
        BY <2>1 DEF Mapped
    <2>3. \A block \in B : f[block] \in V
        BY DEF Saying
    <2> HIDE DEF f, V
    <2> QED
        BY <2>2, <2>3, MappedIsSeq DEF Spoken
<1> HIDE DEF f
<1>3. blocks \o more \in Seq(B)
    BY ConcatProperties
<1>4. Mapped(f, blocks \o more) = Mapped(f, blocks) \o Mapped(f, more)
    BY MappedJoined
<1>5. /\ Mapped(f, blocks) \in Seq(Seq(L)) /\ Mapped(f, more) \in Seq(Seq(L))
      /\ Spoken(blocks) = FlattenSeq(Mapped(f, blocks)) /\ Spoken(more) = FlattenSeq(Mapped(f, more))
      /\ Spoken(blocks \o more) = FlattenSeq(Mapped(f, blocks \o more))
    BY <1>2, <1>3
<1>6. FlattenSeq(Mapped(f, blocks) \o Mapped(f, more)) =
          FlattenSeq(Mapped(f, blocks)) \o FlattenSeq(Mapped(f, more))
    BY <1>5, FlattenedJoined
<1>7. FlattenSeq(Mapped(f, blocks)) \in Seq(L)
    BY <1>5, FlattenedIsSeq
<1> QED
    BY <1>4, <1>5, <1>6, <1>7

\* render_blocks adds nothing but white space.
LEMMA RenderedIsSpoken ==
    ASSUME NEW L, Blank \in L, NEW B, Saying(B, L),
           NEW blocks \in Seq(B)
    PROVE  Render(blocks) \in Seq(L) /\ Inked(Render(blocks)) = Inked(Spoken(blocks))
<1> DEFINE n == Len(blocks)
           ss == [k \in DOMAIN blocks |->
                     IF k = 1 THEN blocks[k].text ELSE <<Blank>> \o blocks[k].text]
           tt == [k \in DOMAIN blocks |-> blocks[k].text]
<1>1. n \in Nat /\ DOMAIN blocks = 1 .. n /\ \A k \in 1 .. n : blocks[k].text \in Seq(L)
    BY LenProperties, ElementOfSeq DEF Saying
<1> HIDE DEF n
<1>2. <<Blank>> \in Seq(L) /\ Inked(<<Blank>>) = <<>>
    <2>1. <<Blank>> \in Seq(L) /\ <<Blank>> \in Seq({Blank, EmptyCell})
        OBVIOUS
    <2> QED
        BY <2>1, NothingInked
<1>3. ASSUME NEW k \in 1 .. n
      PROVE  ss[k] \in Seq(L) /\ tt[k] \in Seq(L) /\ Inked(ss[k]) = Inked(tt[k])
    <2> DEFINE text == blocks[k].text
    <2>1. text \in Seq(L) /\ tt[k] = text /\ ss[k] = IF k = 1 THEN text ELSE <<Blank>> \o text
        BY <1>1
    <2> HIDE DEF text, ss, tt
    <2>2. <<Blank>> \o text \in Seq(L) /\ Inked(<<Blank>> \o text) = Inked(<<Blank>>) \o Inked(text)
        BY <1>2, <2>1, ConcatProperties, InkedJoined
    <2>3. Inked(<<Blank>> \o text) = Inked(text)
        BY <1>2, <2>1, <2>2, InkedIsSeq, ConcatEmptySeq, ZenonT(30)
    <2> QED
        BY <2>1, <2>2, <2>3
<1>4. ss = [k \in 1 .. n |-> ss[k]] /\ tt = [k \in 1 .. n |-> tt[k]]
    BY <1>1
<1>5. Render(blocks) = FlattenSeq(ss) /\ Spoken(blocks) = FlattenSeq(tt)
    BY DEF Render, Spoken
<1> HIDE DEF ss, tt
<1>6. ss \in Seq(Seq(L)) /\ Len(ss) = n /\ tt \in Seq(Seq(L)) /\ Len(tt) = n
    BY <1>1, <1>3, <1>4, FunctionIsSeq
<1>7. FlattenSeq(ss) \in Seq(L) /\ Inked(FlattenSeq(ss)) = Inked(FlattenSeq(tt))
    BY <1>3, <1>6, InkedAlike, FlattenedIsSeq
<1> QED
    BY <1>5, <1>7

\* The headings are met one after the other.
LEMMA StartsIncrease ==
    ASSUME NEW B, NEW blocks \in Seq(B), NEW i \in DOMAIN Starts(blocks),
           NEW j \in DOMAIN Starts(blocks), i < j
    PROVE  Starts(blocks)[i] < Starts(blocks)[j]
<1> DEFINE Increasing(s) == \A a, b \in DOMAIN s : a < b => s[a] < s[b]
           T == {u \in Seq(B) : Increasing(Starts(u))}
<1>1. <<>> \in T
    <2>1. Starts(<<>>) = FlattenSeq(<<>>)
        BY DEF Starts
    <2>2. Starts(<<>>) = <<>>
        BY <2>1, FlattenedFew, EmptySeq
    <2> QED
        BY <2>2, EmptySeq
<1>2. ASSUME NEW u \in Seq(B), NEW x \in B, u \in T PROVE Append(u, x) \in T
    <2> DEFINE n == Len(u)
               s == Starts(u)
               t == Starts(Append(u, x))
    <2>1. t = s \o (IF IsHeading(x) THEN <<n + 1>> ELSE <<>>)
        BY StartsGrow
    <2>2. n \in Nat /\ DOMAIN u = 1 .. n /\ s \in Seq(1 .. n) /\ Increasing(s)
        BY <1>2, LenProperties, StartsAreBlocks
    <2> HIDE DEF s, t, n
    <2>3. Increasing(t)
        <3>1. CASE IsHeading(x)
            <4>1. s \in Seq(1 .. n + 1) /\ n + 1 \in 1 .. n + 1
                BY <2>2, SeqGrows
            <4>2. t = Append(s, n + 1)
                BY <2>1, <3>1, <4>1, AppendIsConcat
            <4> DEFINE m == Len(s)
            <4>3. m \in Nat /\ DOMAIN s = 1 .. m /\ \A a \in 1 .. m : s[a] \in 1 .. n
                BY <2>2, LenProperties, ElementOfSeq
            <4>4. /\ DOMAIN t = 1 .. m + 1 /\ t[m + 1] = n + 1
                  /\ \A a \in 1 .. m : t[a] = s[a]
                BY <4>1, <4>2, AppendProperties, LenProperties
            <4> HIDE DEF m
            <4>5. ASSUME NEW a \in 1 .. m + 1, NEW b \in 1 .. m + 1, a < b PROVE t[a] < t[b]
                <5>1. a \in 1 .. m
                    BY <4>3, <4>5
                <5>2. CASE b = m + 1
                    BY <2>2, <4>3, <4>4, <5>1, <5>2
                <5>3. CASE b \in 1 .. m
                    BY <2>2, <4>3, <4>4, <4>5, <5>1, <5>3
                <5> QED
                    BY <4>3, <5>2, <5>3
            <4> QED
                BY <4>4, <4>5
        <3>2. CASE ~IsHeading(x)
            <4>1. t = s
                BY <2>1, <2>2, <3>2, ConcatEmptySeq
            <4> QED
                BY <2>2, <4>1
        <3> QED
            BY <3>1, <3>2
    <2> QED
        BY <2>3, AppendProperties DEF t
<1> HIDE DEF T
<1>3. blocks \in T
    BY <1>1, <1>2, SeqUpwards
<1> QED
    BY <1>3 DEF T

\* What the sections hold is what the blocks from the first heading on say.
LEMMA HeadedSectionsHold ==
    ASSUME NEW L, Blank \in L, NEW B, Saying(B, L),
           NEW blocks \in Seq(B)
    PROVE  LET starts == Starts(blocks)
               sections == HeadingSections(blocks)
           IN  Inked(FlattenSeq([k \in DOMAIN sections |-> sections[k].content_hash])) =
                   Inked(Spoken(IF starts = <<>> THEN <<>>
                                ELSE SubSeq(blocks, starts[1], Len(blocks))))
<1> DEFINE starts == Starts(blocks)
           m == Len(starts)
           n == Len(blocks)
           End(k) == SectionEnd(blocks, starts, k)
           hashes == [k \in 1 .. m |-> Render(SubSeq(blocks, starts[k], End(k)))]
           sections == HeadingSections(blocks)
<1>1. [k \in DOMAIN sections |-> sections[k].content_hash] = hashes
    BY DEF HeadingSections
<1>2. n \in Nat /\ DOMAIN blocks = 1 .. n /\ \A k \in 1 .. n : blocks[k] \in B
    BY LenProperties, ElementOfSeq
<1>3. starts \in Seq(1 .. n)
    BY <1>2, StartsAreBlocks
<1>4. m \in Nat /\ DOMAIN starts = 1 .. m /\ \A k \in 1 .. m : starts[k] \in 1 .. n
    BY <1>3, LenProperties, ElementOfSeq
<1>5. \A i, j \in 1 .. m : i < j => starts[i] < starts[j]
    BY <1>4, StartsIncrease
<1>6. \A k \in 1 .. m : End(k) = IF k < m THEN starts[k + 1] - 1 ELSE n
    BY DEF SectionEnd
<1>20. SUFFICES Inked(FlattenSeq(hashes)) =
                    Inked(Spoken(IF starts = <<>> THEN <<>> ELSE SubSeq(blocks, starts[1], n)))
    BY <1>1
<1>7. CASE m = 0
    <2>1. starts = <<>> /\ hashes = <<>>
        BY <1>3, <1>7, EmptySeq
    <2>2. Spoken(<<>>) = FlattenSeq(<<>>)
        BY DEF Spoken
    <2> HIDE DEF hashes
    <2> QED
        BY <2>1, <2>2
<1>8. CASE m # 0
    <2> DEFINE e == [k \in 0 .. m |-> IF k = 0 THEN starts[1] - 1 ELSE End(k)]
               a == starts[1]
    <2>1. /\ a \in 1 .. n /\ starts # <<>>
          /\ e[0] = a - 1 /\ e[m] = n
          /\ \A k \in 0 .. m : e[k] \in a - 1 .. n
        <3>1. ASSUME NEW k \in 1 .. m PROVE End(k) \in a - 1 .. n
            <4>1. CASE k < m
                <5>1. k + 1 \in 1 .. m /\ 1 \in 1 .. m /\ 1 < k + 1
                    BY <1>4, <4>1
                <5>2. a < starts[k + 1] /\ starts[k + 1] \in 1 .. n /\ a \in 1 .. n
                    BY <1>4, <1>5, <5>1
                <5> QED
                    BY <1>2, <1>6, <4>1, <5>2
            <4>2. CASE ~(k < m)
                <5>1. a \in 1 .. n
                    BY <1>4, <1>8
                <5> QED
                    BY <1>2, <1>6, <4>2, <5>1
            <4> QED
                BY <4>1, <4>2
        <3>2. a \in 1 .. n /\ starts # <<>>
            BY <1>4, <1>8, EmptySeq
        <3> HIDE DEF starts, n, End
        <3>3. e[0] = a - 1 /\ \A k \in 1 .. m : e[k] = End(k)
            BY <1>4
        <3>4. End(m) = n /\ m \in 1 .. m
            BY <1>4, <1>6, <1>8
        <3>5. \A k \in 0 .. m : k = 0 \/ k \in 1 .. m
            BY <1>4
        <3> QED
            BY <1>2, <3>1, <3>2, <3>3, <3>4, <3>5
    <2>2. ASSUME NEW k \in 0 .. m - 1
          PROVE  /\ k + 1 \in 1 .. m
                 /\ e[k] + 1 = starts[k + 1] /\ e[k + 1] = End(k + 1)
                 /\ e[k + 1] \in e[k] .. n
        <3>1. k + 1 \in 1 .. m /\ k + 1 \in 0 .. m /\ k \in 0 .. m
            BY <1>4
        <3>2. starts[k + 1] \in 1 .. n
            BY <1>4, <3>1
        <3> HIDE DEF starts, n, End
        <3>3. e[k] + 1 = starts[k + 1]
            BY <1>4, <1>6, <3>1, <3>2
        <3>4. e[k + 1] = End(k + 1)
            BY <1>4, <3>1
        <3>5. e[k + 1] >= e[k]
            <4>1. CASE k + 1 < m
                <5>1. k + 2 \in 1 .. m /\ k + 1 < k + 2 /\ (k + 1) + 1 = k + 2
                    BY <1>4, <4>1
                <5>2. starts[k + 1] < starts[k + 2] /\ starts[k + 2] \in 1 .. n
                    BY <1>4, <1>5, <3>1, <5>1
                <5>3. e[k + 1] = starts[k + 2] - 1
                    BY <1>6, <3>1, <3>4, <4>1, <5>1
                <5>4. e[k] \in a - 1 .. n
                    BY <2>1, <3>1
                <5> HIDE DEF e
                <5> QED
                    BY <1>2, <2>1, <3>2, <3>3, <5>2, <5>3, <5>4
            <4>2. CASE ~(k + 1 < m)
                <5>1. e[k + 1] = n
                    BY <1>6, <3>1, <3>4, <4>2
                <5>2. e[k] \in a - 1 .. n
                    BY <2>1, <3>1
                <5> HIDE DEF e
                <5> QED
                    BY <1>2, <2>1, <5>1, <5>2
            <4> QED
                BY <4>1, <4>2
        <3>6. e[k] \in a - 1 .. n /\ e[k + 1] \in a - 1 .. n
            BY <2>1, <3>1
        <3> HIDE DEF e
        <3> QED
            BY <1>2, <2>1, <3>1, <3>3, <3>4, <3>5, <3>6
    <2> HIDE DEF e
    <2> DEFINE Part(i, j) == SubSeq(blocks, i, j)
    <2>3. ASSUME NEW i \in 1 .. n, NEW j \in i - 1 .. n PROVE Part(i, j) \in Seq(B)
        <3>1. \A x \in i .. j : blocks[x] \in B
            BY <1>2
        <3> QED
            BY <1>2, <3>1, SubSeqProperties
    <2>4. ASSUME NEW k \in 1 .. m
          PROVE  /\ Part(starts[k], End(k)) \in Seq(B)
                 /\ hashes[k] \in Seq(L)
                 /\ Inked(hashes[k]) = Inked(Spoken(Part(starts[k], End(k))))
        <3>1. k - 1 \in 0 .. m - 1 /\ (k - 1) + 1 = k /\ k - 1 \in 0 .. m
            BY <1>4
        <3>2. starts[k] \in 1 .. n /\ End(k) \in starts[k] - 1 .. n
            <4>1. e[k - 1] + 1 = starts[k] /\ e[k] = End(k) /\ e[k] \in e[k - 1] .. n
                BY <2>2, <3>1
            <4>2. e[k - 1] \in a - 1 .. n /\ starts[k] \in 1 .. n
                BY <1>4, <2>1, <3>1
            <4> HIDE DEF starts, n, End
            <4> QED
                BY <1>2, <4>1, <4>2
        <3>3. Part(starts[k], End(k)) \in Seq(B)
            <4> HIDE DEF starts, n, End, Part
            <4> QED
                BY <2>3, <3>2
        <3> DEFINE part == Part(starts[k], End(k))
        <3>4. hashes[k] = Render(part)
            OBVIOUS
        <3>5. part \in Seq(B)
            BY <3>3
        <3> HIDE DEF part
        <3>6. Render(part) \in Seq(L) /\ Inked(Render(part)) = Inked(Spoken(part))
            BY <3>5, RenderedIsSpoken
        <3> QED
            BY <3>4, <3>5, <3>6 DEF part
    <2>5. hashes \in Seq(Seq(L)) /\ Len(hashes) = m
        <3>1. hashes = [k \in 1 .. m |-> hashes[k]]
            OBVIOUS
        <3>2. \A k \in 1 .. m : hashes[k] \in Seq(L)
            BY <2>4
        <3> HIDE DEF hashes, m
        <3> QED
            BY <1>4, <3>1, <3>2, FunctionIsSeq
    <2> DEFINE P == {k \in 0 .. m : Inked(FlattenSeq(SubSeq(hashes, 1, k))) =
                                        Inked(Spoken(Part(a, e[k])))}
    <2> HIDE DEF hashes
    <2>6. 0 \in P
        <3>1. SubSeq(hashes, 1, 0) = <<>>
            BY SubSeqEmpty
        <3>2. Part(a, a - 1) = <<>>
            <4> HIDE DEF a, n
            <4> QED
                BY <1>2, <2>1, SubSeqEmpty
        <3>3. Spoken(<<>>) = FlattenSeq(<<>>)
            BY DEF Spoken
        <3>4. 0 \in 0 .. m /\ e[0] = a - 1
            BY <1>4, <2>1
        <3>5. FlattenSeq(SubSeq(hashes, 1, 0)) = Spoken(Part(a, e[0]))
            <4> HIDE DEF m, a, Part
            <4> QED
                BY <3>1, <3>2, <3>3, <3>4
        <3> HIDE DEF m, a, Part
        <3> QED
            BY <3>4, <3>5
    <2>7. ASSUME NEW k \in 0 .. m - 1, k \in P PROVE k + 1 \in P
        <3>1. /\ k + 1 \in 1 .. m /\ k + 1 \in 0 .. m /\ k \in 0 .. m
              /\ e[k] + 1 = starts[k + 1] /\ e[k + 1] = End(k + 1)
              /\ e[k + 1] \in e[k] .. n /\ e[k] \in a - 1 .. n
            BY <1>4, <2>1, <2>2
        <3> DEFINE front == SubSeq(hashes, 1, k)
                   hash == hashes[k + 1]
                   said == Part(a, e[k])
                   part == Part(starts[k + 1], End(k + 1))
        <3>2. /\ hash \in Seq(L) /\ part \in Seq(B)
              /\ Inked(hash) = Inked(Spoken(part))
            BY <2>4, <3>1
        <3>3. front \in Seq(Seq(L))
            <4>1. \A i \in 1 .. k : hashes[i] \in Seq(L)
                BY <1>4, <2>4
            <4> QED
                BY <1>4, <2>5, <4>1, SubSeqProperties
        <3>4. SubSeq(hashes, 1, k + 1) = Append(front, hash)
            <4>1. SubSeq(hashes, 1, k + 1) = SubSeq(hashes, 1, k) \o <<hashes[k + 1]>>
                <5>1. 1 \in 1 .. Len(hashes) /\ k + 1 \in 1 .. Len(hashes) /\ (k + 1) - 1 = k
                    BY <1>4, <2>5, <3>1
                <5> HIDE DEF m
                <5> QED
                    BY <2>5, <5>1, SubSeqRecursiveSecond
            <4>2. Append(front, hash) = front \o <<hash>>
                <5> HIDE DEF front, hash
                <5> QED
                    BY <3>2, <3>3, AppendIsConcat
            <4> QED
                BY <4>1, <4>2
        <3>5. said \in Seq(B)
            <4> HIDE DEF a, n, Part
            <4> QED
                BY <2>1, <2>3, <3>1
        <3>6. Part(a, e[k + 1]) = said \o part
            <4>1. Part(a, e[k]) \o Part(e[k] + 1, e[k + 1]) = Part(a, e[k + 1])
                <5>1. a \in 1 .. Len(blocks) + 1 /\ e[k] \in a - 1 .. Len(blocks)
                      /\ e[k + 1] \in e[k] .. Len(blocks)
                    BY <1>2, <2>1, <3>1
                <5> HIDE DEF a
                <5> QED
                    BY <5>1, ConcatAdjacentSubSeq
            <4> QED
                BY <3>1, <4>1
        <3> HIDE DEF front, hash, said, part
        <3>7. /\ FlattenSeq(Append(front, hash)) = FlattenSeq(front) \o hash
              /\ FlattenSeq(front) \in Seq(L)
            BY <3>2, <3>3, FlattenedGrows, FlattenedIsSeq
        <3>8. Inked(FlattenSeq(Append(front, hash))) = Inked(FlattenSeq(front)) \o Inked(hash)
            BY <3>2, <3>7, InkedJoined
        <3>9. /\ Spoken(said \o part) = Spoken(said) \o Spoken(part)
              /\ Spoken(said) \in Seq(L) /\ Spoken(part) \in Seq(L)
            <4>1. Spoken(said) \in Seq(L) /\ Spoken(said \o part) = Spoken(said) \o Spoken(part)
                BY <3>2, <3>5, SpokenJoined, SMTT(30)
            <4>2. Spoken(part) \in Seq(L)
                BY <3>2, SpokenJoined
            <4> QED
                BY <4>1, <4>2
        <3>10. Inked(Spoken(said \o part)) = Inked(Spoken(said)) \o Inked(Spoken(part))
            BY <3>9, InkedJoined
        <3>11. Inked(FlattenSeq(front)) = Inked(Spoken(said))
            BY <2>7 DEF front, said
        <3>12. Inked(FlattenSeq(SubSeq(hashes, 1, k + 1))) = Inked(Spoken(Part(a, e[k + 1])))
            BY <3>2, <3>4, <3>6, <3>8, <3>10, <3>11
        <3> HIDE DEF Part, a, m
        <3> QED
            BY <3>1, <3>12
    <2> HIDE DEF P
    <2>8. 0 .. m \subseteq P
        <3> HIDE DEF m
        <3> QED
            BY <1>4, <2>6, <2>7, Upwards
    <2>9. m \in P
        <3> HIDE DEF m
        <3> QED
            BY <1>4, <2>8
    <2>10. SubSeq(hashes, 1, m) = hashes
        <3> HIDE DEF m
        <3> QED
            BY <2>5, SubSeqFull
    <2>11. Inked(FlattenSeq(SubSeq(hashes, 1, m))) = Inked(Spoken(Part(a, e[m])))
        <3> HIDE DEF m, Part, a
        <3> QED
            BY <2>9 DEF P
    <2> QED
        BY <2>1, <2>10, <2>11
<1> QED
    BY <1>7, <1>8

-----------------------------------------------------------------------------
(* What a loader may call and what becomes of it.                           *)

\* What the lines and cells of a text are.
Letters == Words \cup {Blank, EmptyCell}

IsAlphabet(L) == L \in SUBSET Letters

\* The path of a builder's headings is one of words.
LEMMA HeadingPathTyped ==
    ASSUME NEW path \in Seq(PathEntries(Words))
    PROVE  HeadingPath(path) \in Seq(Words)
<1> DEFINE n == Len(path)
           words == HeadingPath(path)
<1>1. n \in Nat /\ DOMAIN path = 1 .. n /\ \A i \in 1 .. n : path[i] \in PathEntries(Words)
    BY LenProperties, ElementOfSeq
<1>2. \A i \in 1 .. n : words[i] \in Words
    BY <1>1 DEF HeadingPath, PathEntries
<1>3. words = [i \in 1 .. n |-> words[i]]
    BY <1>1 DEF HeadingPath
<1> HIDE DEF words, n
<1>4. words \in Seq(Words)
    BY <1>1, <1>2, <1>3, FunctionIsSeq
<1> QED
    BY <1>4 DEF words

LEMMA InkedOfNothing == Inked(<<>>) = <<>>
<1>1. Inked(<<>>) = FlattenSeq(<<>>)
    BY DEF Inked
<1> QED
    BY <1>1, FlattenedFew, EmptySeq

\* A block that is appended says its text after what was said before.
LEMMA SpokenGrows ==
    ASSUME NEW L, NEW B, Saying(B, L),
           NEW blocks \in Seq(B), NEW block \in B
    PROVE  /\ Spoken(blocks) \in Seq(L)
           /\ Spoken(Append(blocks, block)) = Spoken(blocks) \o block.text
<1> DEFINE one == <<block>>
<1>1. Append(blocks, block) = blocks \o one /\ one \in Seq(B)
    BY AppendIsConcat
<1>2. /\ Spoken(blocks) \in Seq(L)
      /\ Spoken(blocks \o one) = Spoken(blocks) \o Spoken(one)
    <2> HIDE DEF one
    <2> QED
        BY <1>1, SpokenJoined
<1>3. Spoken(<<block>>) = FlattenSeq(<<block.text>>)
    BY DEF Spoken
<1>4. FlattenSeq(<<block.text>>) = block.text
    BY FlattenedFew DEF Saying
<1> QED
    BY <1>1, <1>2, <1>3, <1>4

\* The builder after each part of the first n calls.
IsFold(fold, n, b, calls) ==
    fold = [s \in SUBSET (1 .. n) |->
               IF s = {} THEN b ELSE AddCall(fold[s \ {Max(s)}], calls[Max(s)])]

\* There is one for any number of calls.
LEMMA CallsFold ==
    ASSUME NEW n \in Nat, NEW b, NEW calls
    PROVE  \E fold : IsFold(fold, n, b, calls)
<1> DEFINE Folds(k, fold) ==
               fold = [s \in SUBSET (1 .. k) |->
                          IF s = {} THEN b ELSE AddCall(fold[s \ {Max(s)}], calls[Max(s)])]
           T == {k \in 0 .. n : \E fold : Folds(k, fold)}
<1>1. 0 \in T
    <2>1. Folds(0, [s \in SUBSET (1 .. 0) |-> b])
        <3>1. \A s \in SUBSET (1 .. 0) : s = {}
            OBVIOUS
        <3> QED
            BY <3>1
    <2> HIDE DEF Folds
    <2> QED
        BY <2>1
<1>2. ASSUME NEW k \in 0 .. n - 1, k \in T PROVE k + 1 \in T
    <2>1. PICK fold : Folds(k, fold)
        BY <1>2
    <2> DEFINE new == [s \in SUBSET (1 .. k + 1) |->
                          IF k + 1 \in s THEN AddCall(fold[s \ {k + 1}], calls[k + 1])
                          ELSE fold[s]]
    <2>2. ASSUME NEW s \in SUBSET (1 .. k + 1)
          PROVE  /\ k + 1 \in s => s \ {k + 1} \in SUBSET (1 .. k)
                 /\ k + 1 \notin s => s \in SUBSET (1 .. k)
        OBVIOUS
    <2>3. ASSUME NEW s \in SUBSET (1 .. k + 1), s # {}
          PROVE  new[s] = AddCall(new[s \ {Max(s)}], calls[Max(s)])
        <3>1. Max(s) \in s /\ \A m \in s : Max(s) >= m
            <4>1. k + 1 \in Nat /\ s \in SUBSET (0 .. k + 1)
                OBVIOUS
            <4> QED
                BY <4>1, <2>3, MaxIsGreatest
        <3>2. CASE k + 1 \in s
            <4>1. Max(s) = k + 1
                <5>1. Max(s) >= k + 1 /\ Max(s) \in 1 .. k + 1
                    BY <3>1, <3>2
                <5> QED
                    BY <5>1
            <4>2. /\ s \ {k + 1} \in SUBSET (1 .. k + 1)
                  /\ k + 1 \notin s \ {k + 1}
                OBVIOUS
            <4>3. new[s \ {k + 1}] = fold[s \ {k + 1}]
                BY <4>2
            <4> QED
                BY <3>2, <4>1, <4>3
        <3>3. CASE k + 1 \notin s
            <4>1. s \in SUBSET (1 .. k) /\ s \ {Max(s)} \in SUBSET (1 .. k)
                BY <3>3, <2>2
            <4>2. new[s] = fold[s] /\ new[s \ {Max(s)}] = fold[s \ {Max(s)}]
                BY <3>3, <4>1
            <4>3. fold[s] = AddCall(fold[s \ {Max(s)}], calls[Max(s)])
                BY <2>1, <2>3, <4>1
            <4> QED
                BY <4>2, <4>3
        <3> QED
            BY <3>2, <3>3
    <2>4. new[{}] = b
        BY <2>1
    <2>5. Folds(k + 1, new)
        <3> DEFINE folded == [s \in SUBSET (1 .. k + 1) |->
                                 IF s = {} THEN b
                                 ELSE AddCall(new[s \ {Max(s)}], calls[Max(s)])]
        <3>1. DOMAIN new = SUBSET (1 .. k + 1) /\ new = [s \in SUBSET (1 .. k + 1) |-> new[s]]
            OBVIOUS
        <3> HIDE DEF new
        <3>2. \A s \in SUBSET (1 .. k + 1) : new[s] = folded[s]
            BY <2>3, <2>4
        <3> QED
            BY <3>1, <3>2
    <2>6. k + 1 \in 0 .. n
        OBVIOUS
    <2> HIDE DEF Folds
    <2> QED
        BY <2>5, <2>6
<1> HIDE DEF T
<1>3. 0 .. n \subseteq T
    BY <1>1, <1>2, Upwards
<1>4. \E fold : Folds(n, fold)
    BY <1>3, n \in 0 .. n DEF T
<1> QED
    BY <1>4 DEF IsFold

\* The builder after each of the calls.
AreSteps(step, b, calls) ==
    /\ step[0] = b
    /\ \A k \in 0 .. Len(calls) - 1 : step[k + 1] = AddCall(step[k], calls[k + 1])
    /\ step[Len(calls)] = AddCalls(b, calls)

LEMMA CallSteps ==
    ASSUME NEW b, NEW S, NEW calls \in Seq(S)
    PROVE  \E step : AreSteps(step, b, calls)
<1> DEFINE n == Len(calls)
           chosen == CHOOSE fold : IsFold(fold, n, b, calls)
           step == [k \in 0 .. n |-> chosen[1 .. k]]
<1>1. n \in Nat /\ DOMAIN calls = 1 .. n
    BY LenProperties
<1> HIDE DEF n
<1>3. IsFold(chosen, n, b, calls)
    BY <1>1, CallsFold
<1>4. AddCalls(b, calls) = chosen[1 .. n]
    BY <1>1 DEF AddCalls, FoldLeft, MapThenFoldSet, IsFold
<1> HIDE DEF chosen
<1>5. chosen[{}] = b
    BY <1>3 DEF IsFold
<1>6. step[0] = b
    <2>1. 1 .. 0 = {} /\ 0 \in 0 .. n
        BY <1>1
    <2> QED
        BY <1>5, <2>1
<1>7. ASSUME NEW k \in 0 .. n - 1 PROVE step[k + 1] = AddCall(step[k], calls[k + 1])
    <2>1. /\ 1 .. k + 1 \in SUBSET (1 .. n) /\ 1 .. k + 1 # {}
          /\ k + 1 \in 1 .. k + 1 /\ k + 1 \in 0 .. n /\ k + 1 \in Nat /\ k \in 0 .. n
        <3>1. /\ k \in Nat /\ k + 1 <= n /\ k + 1 \in 1 .. k + 1
              /\ k + 1 \in 0 .. n /\ k \in 0 .. n
            BY <1>1
        <3>2. \A m \in 1 .. k + 1 : m \in 1 .. n
            BY <1>1, <3>1
        <3> HIDE DEF step
        <3>3. 1 .. k + 1 # {}
            BY <3>1
        <3> QED
            BY <3>1, <3>2, <3>3
    <2>2. Max(1 .. k + 1) \in 1 .. k + 1 /\ Max(1 .. k + 1) >= k + 1
        <3>1. 1 .. k + 1 \in SUBSET (0 .. k + 1)
            OBVIOUS
        <3> QED
            BY <2>1, <3>1, MaxIsGreatest
    <2>3. Max(1 .. k + 1) = k + 1
        BY <2>1, <2>2
    <2>4. (1 .. k + 1) \ {k + 1} = 1 .. k
        OBVIOUS
    <2>5. chosen[1 .. k + 1] = AddCall(chosen[1 .. k], calls[k + 1])
        BY <1>3, <2>1, <2>3, <2>4 DEF IsFold
    <2> QED
        BY <2>1, <2>5
<1>8. step[n] = AddCalls(b, calls)
    BY <1>1, <1>4
<1> HIDE DEF step
<1>9. AreSteps(step, b, calls)
    BY <1>6, <1>7, <1>8 DEF AreSteps, n
<1> QED
    BY <1>9

\* No call, and one.
LEMMA FewCalls ==
    ASSUME NEW b, NEW call
    PROVE  AddCalls(b, <<>>) = b /\ AddCalls(b, <<call>>) = AddCall(b, call)
<1> DEFINE none == <<>>
           one == <<call>>
           S == {call}
<1>1. none \in Seq(S) /\ Len(none) = 0 /\ one \in Seq(S) /\ Len(one) = 1 /\ one[1] = call
    BY EmptySeq
<1> HIDE DEF none, one, S
<1>2. PICK step : AreSteps(step, b, none)
    BY <1>1, CallSteps
<1>3. PICK next : AreSteps(next, b, one)
    BY <1>1, CallSteps
<1>4. AddCalls(b, none) = b
    BY <1>1, <1>2 DEF AreSteps
<1>5. AddCalls(b, one) = AddCall(b, call)
    <2>1. next[0] = b /\ next[1] = AddCalls(b, one)
        BY <1>1, <1>3 DEF AreSteps
    <2>2. 0 \in 0 .. Len(one) - 1 /\ 0 + 1 = 1
        BY <1>1
    <2>3. next[0 + 1] = AddCall(next[0], one[0 + 1])
        BY <1>3, <2>2 DEF AreSteps
    <2> QED
        BY <1>1, <2>1, <2>2, <2>3
<1> QED
    BY <1>4, <1>5 DEF none, one

\* A call adds a heading or another block.
LEMMA CallBuilt ==
    ASSUME NEW b, WellBuilt(b), NEW call,
           call.type = "HEADING" => call.level \in Nat \ {0}
    PROVE  WellBuilt(AddCall(b, call)) /\ Continues(b.blocks, AddCall(b, call).blocks)
BY HeadingBuilt, BlockBuilt DEF AddCall

-----------------------------------------------------------------------------
(* The tree of a page.                                                      *)

HtmlNodes ==
    [tag : STRING \cup {"document", "#text"}, parent : Nat, kids : Seq(Nat),
     word : Words \cup {Blank}, across : Nat, down : Nat]

\* The children of a node come after it.
AreNodes(nodes) ==
    /\ nodes \in Seq(HtmlNodes)
    /\ \A n \in DOMAIN nodes : \A k \in DOMAIN nodes[n].kids :
          nodes[n].kids[k] \in n + 1 .. Len(nodes)

\* What is open is in the tree, and something always is.
WellTree(t) ==
    /\ t \in [nodes : Seq(HtmlNodes), open : Seq(Nat)]
    /\ AreNodes(t.nodes)
    /\ t.open # <<>>
    /\ \A k \in DOMAIN t.open : t.open[k] \in DOMAIN t.nodes

\* A new child, or a new parent, of a node leaves the rest of it alone.
LEMMA NodeUpdates ==
    ASSUME NEW node \in HtmlNodes, NEW kids \in Seq(Nat), NEW parent \in Nat
    PROVE  /\ node.kids \in Seq(Nat)
           /\ [node EXCEPT !.kids = kids] \in HtmlNodes
           /\ [node EXCEPT !.kids = kids].kids = kids
           /\ [node EXCEPT !.parent = parent] \in HtmlNodes
           /\ [node EXCEPT !.parent = parent].kids = node.kids
BY DEF HtmlNodes

\* What is open may be changed by itself.
LEMMA OpenUpdate ==
    ASSUME NEW t, WellTree(t), NEW open
    PROVE  [t EXCEPT !.open = open] = [nodes |-> t.nodes, open |-> open]
BY DEF WellTree

LEMMA NoTreeIsWell == WellTree(NoTree)
<1>1. Root \in HtmlNodes /\ Root.kids = <<>>
    BY EmptySeq DEF Root, HtmlNodes
<1>2. <<Root>> \in Seq(HtmlNodes) /\ DOMAIN <<Root>> = {1} /\ <<Root>>[1] = Root
    BY <1>1
<1>3. AreNodes(<<Root>>)
    BY <1>1, <1>2 DEF AreNodes, HtmlNodes
<1>4. <<1>> \in Seq(Nat) /\ <<1>> # <<>> /\ \A k \in DOMAIN <<1>> : <<1>>[k] = 1
    OBVIOUS
<1> QED
    BY <1>2, <1>3, <1>4 DEF WellTree, NoTree

\* A tree with one node more, which is the last child of this parent.
OneMoreNode(nodes, more, parent, node) ==
    /\ parent \in DOMAIN nodes /\ Len(more) = Len(nodes) + 1
    /\ more[Len(nodes) + 1] = [node EXCEPT !.parent = parent]
    /\ \A m \in DOMAIN nodes :
          more[m] = IF m = parent
                    THEN [nodes[parent] EXCEPT !.kids = Append(@, Len(nodes) + 1)]
                    ELSE nodes[m]

\* WithNode gives the innermost open element one more child.
LEMMA NodeAdded ==
    ASSUME NEW t, WellTree(t), NEW node \in HtmlNodes, node.kids = <<>>
    PROVE  /\ WellTree(WithNode(t, node))
           /\ WithNode(t, node).open = t.open
           /\ Len(WithNode(t, node).nodes) = Len(t.nodes) + 1
           /\ OneMoreNode(t.nodes, WithNode(t, node).nodes, Last(t.open), node)
<1> DEFINE nodes == t.nodes
           n == Len(nodes)
           parent == Last(t.open)
           elder == [nodes[parent] EXCEPT !.kids = Append(@, n + 1)]
           known == [nodes EXCEPT ![parent] = elder]
           child == [node EXCEPT !.parent = parent]
           more == Append(known, child)
<1>1. /\ nodes \in Seq(HtmlNodes) /\ n \in Nat /\ DOMAIN nodes = 1 .. n
      /\ t.open \in Seq(Nat) /\ t.open # <<>>
      /\ t = [nodes |-> nodes, open |-> t.open]
      /\ \A k \in DOMAIN t.open : t.open[k] \in 1 .. n
      /\ \A m \in 1 .. n : \A k \in DOMAIN nodes[m].kids : nodes[m].kids[k] \in m + 1 .. n
    BY LenProperties DEF WellTree, AreNodes
<1>2. parent \in 1 .. n
    <2>1. Len(t.open) \in DOMAIN t.open
        BY <1>1, LenProperties, EmptySeq
    <2> QED
        BY <1>1, <2>1 DEF Last
<1>3. /\ nodes[parent] \in HtmlNodes /\ nodes[parent].kids \in Seq(Nat)
    <2>1. nodes[parent] \in HtmlNodes
        BY <1>1, <1>2, ElementOfSeq
    <2> QED
        BY <2>1 DEF HtmlNodes
<1>4. WithNode(t, node) = [nodes |-> more, open |-> t.open]
    <2>1. [t.nodes EXCEPT ![Last(t.open)].kids = Append(@, Len(t.nodes) + 1)] = known
        OBVIOUS
    <2>2. WithNode(t, node) = [t EXCEPT !.nodes = more]
        BY <2>1 DEF WithNode
    <2> HIDE DEF more
    <2> QED
        BY <2>2 DEF WellTree
<1> HIDE DEF parent, n
<1>5. /\ elder \in HtmlNodes
      /\ elder.kids = Append(nodes[parent].kids, n + 1)
    <2>1. Append(nodes[parent].kids, n + 1) \in Seq(Nat) /\ parent \in Nat
        BY <1>1, <1>2, <1>3, AppendProperties
    <2> QED
        BY <1>3, <2>1, NodeUpdates
<1>6. child \in HtmlNodes /\ child.kids = <<>>
    <2>1. parent \in Nat /\ <<>> \in Seq(Nat)
        BY <1>1, <1>2, EmptySeq
    <2> QED
        BY <2>1, NodeUpdates
<1> HIDE DEF elder, child, nodes
<1>7. /\ known \in Seq(HtmlNodes) /\ Len(known) = n
      /\ \A m \in 1 .. n : known[m] = IF m = parent THEN elder ELSE nodes[m]
    BY <1>1, <1>2, <1>5, ExceptSeq DEF n
<1> HIDE DEF known
<1>8. /\ more \in Seq(HtmlNodes) /\ Len(more) = n + 1 /\ DOMAIN more = 1 .. n + 1
      /\ \A m \in 1 .. n : more[m] = known[m]
      /\ more[n + 1] = child
    BY <1>1, <1>6, <1>7, AppendProperties, LenProperties
<1> HIDE DEF more
<1>9. ASSUME NEW m \in 1 .. n + 1, NEW k \in DOMAIN more[m].kids
      PROVE  more[m].kids[k] \in m + 1 .. n + 1
    <2>1. CASE m = n + 1
        BY <1>6, <1>8, <2>1
    <2>2. CASE m \in 1 .. n /\ m # parent
        <3>1. more[m] = nodes[m]
            BY <1>7, <1>8, <2>2
        <3>2. nodes[m].kids[k] \in m + 1 .. n
            BY <1>1, <2>2, <3>1
        <3> QED
            BY <1>1, <3>1, <3>2
    <2>3. CASE m = parent
        <3>1. more[m].kids = Append(nodes[parent].kids, n + 1)
            BY <1>2, <1>5, <1>7, <1>8, <2>3
        <3>2. k \in 1 .. Len(nodes[parent].kids) + 1 /\ Len(nodes[parent].kids) \in Nat
            BY <1>3, <3>1, AppendProperties, LenProperties
        <3>3. CASE k = Len(nodes[parent].kids) + 1
            <4>1. more[m].kids[k] = n + 1
                BY <1>1, <1>3, <3>1, <3>3, AppendProperties, SMTT(30)
            <4> QED
                BY <1>1, <1>2, <2>3, <4>1
        <3>4. CASE k \in 1 .. Len(nodes[parent].kids)
            <4>1. more[m].kids[k] = nodes[parent].kids[k] /\ k \in DOMAIN nodes[parent].kids
                BY <1>1, <1>3, <3>1, <3>4, AppendProperties, LenProperties
            <4>2. nodes[parent].kids[k] \in parent + 1 .. n
                BY <1>1, <1>2, <4>1
            <4> QED
                BY <1>1, <1>2, <2>3, <4>1, <4>2
        <3> QED
            BY <3>2, <3>3, <3>4
    <2>4. m = n + 1 \/ m \in 1 .. n
        BY <1>1
    <2> QED
        BY <1>2, <2>1, <2>2, <2>3, <2>4
<1>10. AreNodes(more)
    BY <1>8, <1>9 DEF AreNodes, HtmlNodes
<1>11. \A k \in DOMAIN t.open : t.open[k] \in DOMAIN more
    BY <1>1, <1>8
<1>12. WellTree([nodes |-> more, open |-> t.open])
    BY <1>1, <1>8, <1>10, <1>11 DEF WellTree
<1>13. OneMoreNode(nodes, more, parent, node)
    BY <1>1, <1>2, <1>7, <1>8 DEF OneMoreNode, n, elder, child
<1> QED
    BY <1>4, <1>8, <1>12, <1>13 DEF n, nodes, parent

\* Elements are closed from the innermost on; the first stays open.
LEMMA OpenCut ==
    ASSUME NEW t, WellTree(t), NEW c \in 1 .. Len(t.open)
    PROVE  /\ WellTree([t EXCEPT !.open = SubSeq(@, 1, c)])
           /\ [t EXCEPT !.open = SubSeq(@, 1, c)].nodes = t.nodes
<1> DEFINE cut == SubSeq(t.open, 1, c)
<1>1. /\ t = [nodes |-> t.nodes, open |-> t.open] /\ t.nodes \in Seq(HtmlNodes)
      /\ t.open \in Seq(Nat) /\ Len(t.open) \in Nat /\ DOMAIN t.open = 1 .. Len(t.open)
    BY LenProperties DEF WellTree
<1>2. [t EXCEPT !.open = SubSeq(@, 1, c)] = [nodes |-> t.nodes, open |-> cut]
    BY OpenUpdate
<1>3. /\ cut \in Seq(Nat) /\ Len(cut) = c
      /\ \A k \in 1 .. c : cut[k] = t.open[k]
    <2>1. \A k \in 1 .. c : t.open[k] \in Nat
        BY <1>1, ElementOfSeq
    <2> QED
        BY <1>1, <2>1, SubSeqProperties
<1> HIDE DEF cut
<1>4. DOMAIN cut = 1 .. c /\ cut # <<>>
    BY <1>3, LenProperties, EmptySeq
<1>5. \A k \in DOMAIN cut : cut[k] \in DOMAIN t.nodes
    BY <1>1, <1>3, <1>4, SMTT(30) DEF WellTree
<1> QED
    BY <1>1, <1>2, <1>3, <1>4, <1>5 DEF WellTree

\* The innermost element that a start does not close is open.
LEMMA UnclosedIsOpen ==
    ASSUME NEW t, WellTree(t), NEW tag
    PROVE  Unclosed(t, tag) \in 1 .. Len(t.open)
<1> DEFINE S == {1} \cup {k \in DOMAIN t.open : tag \notin ImpliedClose(TagAt(t, k))}
           c == Unclosed(t, tag)
<1>1. Len(t.open) \in Nat \ {0} /\ DOMAIN t.open = 1 .. Len(t.open)
    BY LenProperties, EmptySeq DEF WellTree
<1>2. S \in SUBSET (0 .. Len(t.open)) /\ S \in SUBSET (1 .. Len(t.open)) /\ S # {}
    BY <1>1
<1>3. Max(S) \in S
    BY <1>1, <1>2, MaxIsGreatest
<1>4. c = Max(S)
    BY DEF Unclosed
<1> HIDE DEF S
<1> QED
    BY <1>2, <1>3, <1>4

\* A span is at least 1 and at most 64.
LEMMA SpanAllowed ==
    ASSUME NEW given \in Nat
    PROVE  Span(given) \in Nat \ {0}
<1>1. Min({given, 64}) \in {given, 64} /\ Min({given, 64}) <= 64
    BY MinIsLeast, {given, 64} \in SUBSET Nat
<1> DEFINE S == {1, Min({given, 64})}
<1>2. S \in SUBSET (0 .. 64) /\ S # {}
    BY <1>1
<1>3. 1 \in S /\ S \in SUBSET Nat /\ Span(given) = Max(S)
    BY <1>1 DEF Span
<1> HIDE DEF S
<1> DEFINE m == Max(S)
<1>4. m \in S /\ m >= 1
    BY <1>2, <1>3, MaxIsGreatest
<1> HIDE DEF m
<1>5. m \in Nat
    BY <1>3, <1>4
<1> QED
    BY <1>3, <1>4, <1>5 DEF m

\* _TreeParser keeps the tree well: at the end of a tag,
LEMMA EndTagKept ==
    ASSUME NEW t, WellTree(t), NEW tag
    PROVE  WellTree(EndTag(t, tag)) /\ Len(EndTag(t, tag).nodes) = Len(t.nodes)
<1> DEFINE matching == {k \in 2 .. Len(t.open) : TagAt(t, k) = tag}
<1>1. Len(t.open) \in Nat
    BY LenProperties DEF WellTree
<1>2. CASE matching = {}
    BY <1>2 DEF EndTag
<1>3. CASE matching # {}
    <2>1. matching \in SUBSET (0 .. Len(t.open))
        BY <1>1
    <2>2. Max(matching) \in matching
        BY <1>1, <1>3, <2>1, MaxIsGreatest
    <2>3. Max(matching) - 1 \in 1 .. Len(t.open)
        BY <1>1, <2>2
    <2>4. EndTag(t, tag) = [t EXCEPT !.open = SubSeq(@, 1, Max(matching) - 1)]
        BY <1>3 DEF EndTag
    <2> HIDE DEF matching
    <2> QED
        BY <2>3, <2>4, OpenCut
<1> QED
    BY <1>2, <1>3

\* and at its start.
LEMMA StartTagKept ==
    ASSUME NEW t, WellTree(t), NEW event, event.tag \in STRING,
           event.across \in Nat, event.down \in Nat
    PROVE  WellTree(StartTag(t, event)) /\ Len(StartTag(t, event).nodes) = Len(t.nodes) + 1
<1> DEFINE c == Unclosed(t, event.tag)
           closed == [t EXCEPT !.open = SubSeq(@, 1, c)]
           node == [Root EXCEPT !.tag = event.tag, !.across = Span(event.across),
                                !.down = Span(event.down)]
           started == WithNode(closed, node)
<1>1. c \in 1 .. Len(t.open)
    BY UnclosedIsOpen
<1> HIDE DEF c
<1>2. WellTree(closed) /\ closed.nodes = t.nodes
    BY <1>1, OpenCut
<1>4. node \in HtmlNodes /\ node.kids = <<>>
    <2>1. Span(event.across) \in Nat /\ Span(event.down) \in Nat
        BY SpanAllowed
    <2> QED
        BY <2>1, EmptySeq DEF Root, HtmlNodes
<1> HIDE DEF closed, node
<1>5. /\ WellTree(started) /\ Len(started.nodes) = Len(closed.nodes) + 1
    BY <1>2, <1>4, NodeAdded
<1>6. StartTag(t, event) =
          IF event.tag \in VoidTags THEN started
          ELSE [started EXCEPT !.open = Append(@, Len(started.nodes))]
    BY DEF StartTag, closed, node, c
<1> HIDE DEF started
<1>7. WellTree([started EXCEPT !.open = Append(@, Len(started.nodes))])
    <2> DEFINE last == Len(started.nodes)
               open == Append(started.open, last)
    <2>1. /\ started = [nodes |-> started.nodes, open |-> started.open]
          /\ started.nodes \in Seq(HtmlNodes) /\ DOMAIN started.nodes = 1 .. last /\ last \in Nat
          /\ started.open \in Seq(Nat) /\ AreNodes(started.nodes)
          /\ \A k \in DOMAIN started.open : started.open[k] \in DOMAIN started.nodes
        BY <1>5, LenProperties DEF WellTree
    <2>2. last # 0
        <3>1. Len(closed.nodes) \in Nat
            BY <1>2, LenProperties DEF WellTree
        <3> QED
            BY <1>5, <3>1
    <2>3. [started EXCEPT !.open = Append(@, Len(started.nodes))] =
              [nodes |-> started.nodes, open |-> open]
        BY <1>5, OpenUpdate
    <2>4. /\ open \in Seq(Nat) /\ open # <<>>
          /\ \A k \in DOMAIN open : open[k] \in DOMAIN started.nodes
        <3> HIDE DEF last
        <3>1. /\ open \in Seq(Nat) /\ DOMAIN open = 1 .. Len(started.open) + 1
              /\ Len(open) = Len(started.open) + 1 /\ Len(started.open) \in Nat
              /\ \A k \in 1 .. Len(started.open) : open[k] = started.open[k]
              /\ open[Len(started.open) + 1] = last
            BY <2>1, AppendProperties, LenProperties
        <3> HIDE DEF open
        <3>2. open # <<>>
            BY <3>1, EmptySeq
        <3>3. last \in DOMAIN started.nodes
            BY <2>1, <2>2
        <3>4. ASSUME NEW k \in DOMAIN open PROVE open[k] \in DOMAIN started.nodes
            <4>1. k = Len(started.open) + 1 \/ k \in 1 .. Len(started.open)
                BY <3>1
            <4>2. DOMAIN started.open = 1 .. Len(started.open)
                BY <2>1, LenProperties
            <4> QED
                BY <2>1, <3>1, <3>3, <4>1, <4>2
        <3> QED
            BY <3>1, <3>2, <3>4
    <2> HIDE DEF open
    <2> QED
        BY <2>1, <2>3, <2>4 DEF WellTree
<1>8. [started EXCEPT !.open = Append(@, Len(started.nodes))].nodes = started.nodes
    BY <1>5, OpenUpdate
<1> QED
    BY <1>2, <1>5, <1>6, <1>7, <1>8

-----------------------------------------------------------------------------
(* What the nodes of a tree give, from the last to the first.               *)

\* The calls, the text among some words, or the nearest nodes of some tags: what
\* a node gives from what its children give.
NodeGives(what, nodes, m, with, ofKids) ==
    CASE what = "calls" -> Emit(nodes, m, with, ofKids)
      [] what = "text" -> TextOf(nodes[m], with, ofKids)
      [] what = "nearest" -> NearestOf(nodes, m, with, ofKids)

OfKids(g, nodes, m) == [k \in DOMAIN nodes[m].kids |-> g[nodes[m].kids[k]]]

\* What each node from the n-th on gives.
IsGiven(g, what, nodes, with, n) ==
    g = [m \in n .. Len(nodes) |-> NodeGives(what, nodes, m, with, OfKids(g, nodes, m))]

\* It is given for any tree: the last node has no children.
LEMMA GivenExists ==
    ASSUME NEW nodes, AreNodes(nodes), NEW what, NEW with
    PROVE  \E g : IsGiven(g, what, nodes, with, 1)
<1> DEFINE N == Len(nodes)
           T == {j \in 0 .. N : \E g : IsGiven(g, what, nodes, with, N + 1 - j)}
<1>1. /\ N \in Nat /\ DOMAIN nodes = 1 .. N
      /\ \A m \in 1 .. N : \A k \in DOMAIN nodes[m].kids : nodes[m].kids[k] \in m + 1 .. N
    BY LenProperties DEF AreNodes
<1>2. 0 \in T
    <2>1. IsGiven(<<>>, what, nodes, with, N + 1)
        <3>1. N + 1 .. N = {}
            BY <1>1
        <3> QED
            BY <3>1 DEF IsGiven
    <2>2. N + 1 - 0 = N + 1
        BY <1>1
    <2> QED
        BY <1>1, <2>1, <2>2
<1>3. ASSUME NEW j \in 0 .. N - 1, j \in T PROVE j + 1 \in T
    <2> DEFINE n == N - j
    <2>1. n \in 1 .. N /\ N + 1 - j = n + 1 /\ N + 1 - (j + 1) = n /\ j + 1 \in 0 .. N
        <3>1. N \in Nat /\ j \in 0 .. N - 1
            BY <1>1
        <3> HIDE DEF N
        <3> QED
            BY <3>1
    <2>2. PICK g : IsGiven(g, what, nodes, with, n + 1)
        BY <1>3, <2>1
    <2> HIDE DEF n
    <2> DEFINE own == NodeGives(what, nodes, n, with, OfKids(g, nodes, n))
               more == [m \in n .. N |-> IF m = n THEN own ELSE g[m]]
    <2>3. ASSUME NEW m \in n .. N
          PROVE  more[m] = NodeGives(what, nodes, m, with, OfKids(more, nodes, m))
        <3>1. m \in 1 .. N /\ m \in Nat
            BY <1>1, <2>1
        <3>2. ASSUME NEW k \in DOMAIN nodes[m].kids
              PROVE  more[nodes[m].kids[k]] = g[nodes[m].kids[k]]
            <4>1. nodes[m].kids[k] \in m + 1 .. N
                BY <1>1, <3>1
            <4>2. nodes[m].kids[k] \in n .. N /\ nodes[m].kids[k] # n
                BY <1>1, <2>1, <3>1, <4>1
            <4> HIDE DEF own
            <4> QED
                BY <4>2
        <3>3. OfKids(more, nodes, m) = OfKids(g, nodes, m)
            <4> HIDE DEF more
            <4> QED
                BY <3>2 DEF OfKids
        <3>4. more[m] = NodeGives(what, nodes, m, with, OfKids(g, nodes, m))
            <4>1. CASE m = n
                BY <4>1
            <4>2. CASE m # n
                <5>1. m \in n + 1 .. N
                    BY <2>1, <3>1, <4>2
                <5>2. more[m] = g[m]
                    BY <4>2
                <5> HIDE DEF more
                <5>3. g[m] = NodeGives(what, nodes, m, with, OfKids(g, nodes, m))
                    BY <2>2, <5>1 DEF IsGiven
                <5> QED
                    BY <5>2, <5>3
            <4> QED
                BY <4>1, <4>2
        <3> HIDE DEF more
        <3> QED
            BY <3>3, <3>4
    <2>4. IsGiven(more, what, nodes, with, n)
        <3> DEFINE given == [m \in n .. N |->
                                NodeGives(what, nodes, m, with, OfKids(more, nodes, m))]
        <3>1. more = [m \in n .. N |-> more[m]]
            OBVIOUS
        <3> HIDE DEF more
        <3>2. \A m \in n .. N : more[m] = given[m]
            BY <2>3
        <3>3. more = given
            BY <3>1, <3>2
        <3> QED
            BY <3>3 DEF IsGiven
    <2> QED
        BY <2>1, <2>4
<1> HIDE DEF T
<1>4. 0 .. N \subseteq T
    BY <1>1, <1>2, <1>3, Upwards
<1>5. N \in 0 .. N /\ N + 1 - N = 1
    BY <1>1
<1> QED
    BY <1>4, <1>5 DEF T

\* Texts, Nearest and Calls are what they say for every node.
LEMMA TextsGiven ==
    ASSUME NEW nodes, AreNodes(nodes), NEW among, NEW m \in DOMAIN nodes
    PROVE  Texts(nodes, among)[m] =
               TextOf(nodes[m], among, OfKids(Texts(nodes, among), nodes, m))
<1> DEFINE chosen == CHOOSE g : IsGiven(g, "text", nodes, among, 1)
<1>1. DOMAIN nodes = 1 .. Len(nodes)
    BY LenProperties DEF AreNodes
<1>2. IsGiven(chosen, "text", nodes, among, 1)
    BY GivenExists
<1>3. Texts(nodes, among) = chosen
    BY <1>1 DEF Texts, IsGiven, NodeGives, OfKids
<1> HIDE DEF chosen
<1> QED
    BY <1>1, <1>2, <1>3 DEF IsGiven, NodeGives

LEMMA NearestGiven ==
    ASSUME NEW nodes, AreNodes(nodes), NEW tags, NEW m \in DOMAIN nodes
    PROVE  Nearest(nodes, tags)[m] =
               NearestOf(nodes, m, tags, OfKids(Nearest(nodes, tags), nodes, m))
<1> DEFINE chosen == CHOOSE g : IsGiven(g, "nearest", nodes, tags, 1)
<1>1. DOMAIN nodes = 1 .. Len(nodes)
    BY LenProperties DEF AreNodes
<1>2. IsGiven(chosen, "nearest", nodes, tags, 1)
    BY GivenExists
<1>3. Nearest(nodes, tags) = chosen
    BY <1>1 DEF Nearest, IsGiven, NodeGives, OfKids
<1> HIDE DEF chosen
<1> QED
    BY <1>1, <1>2, <1>3 DEF IsGiven, NodeGives

LEMMA CallsGiven ==
    ASSUME NEW nodes, AreNodes(nodes), nodes # <<>>
    PROVE  \E emit :
               /\ Calls(nodes) = emit[1]
               /\ \A m \in DOMAIN nodes :
                     emit[m] = Emit(nodes, m, Texts(nodes, Words), OfKids(emit, nodes, m))
<1> DEFINE text == Texts(nodes, Words)
           chosen == CHOOSE g : IsGiven(g, "calls", nodes, text, 1)
<1>1. DOMAIN nodes = 1 .. Len(nodes)
    BY LenProperties DEF AreNodes
<1>2. IsGiven(chosen, "calls", nodes, text, 1)
    BY GivenExists
<1>3. Calls(nodes) = chosen[1]
    BY <1>1 DEF Calls, IsGiven, NodeGives, OfKids
<1> HIDE DEF chosen, text
<1>4. \A m \in DOMAIN nodes : chosen[m] = Emit(nodes, m, text, OfKids(chosen, nodes, m))
    BY <1>1, <1>2 DEF IsGiven, NodeGives
<1> QED
    BY <1>3, <1>4 DEF text

\* What holds of each node whose children it holds of, holds of all.
LEMMA FromTheLeaves ==
    ASSUME NEW nodes, AreNodes(nodes), NEW T,
           \A m \in DOMAIN nodes :
               (\A k \in DOMAIN nodes[m].kids : nodes[m].kids[k] \in T) => m \in T
    PROVE  DOMAIN nodes \subseteq T
<1> DEFINE N == Len(nodes)
           P == {j \in 0 .. N : \A m \in N + 1 - j .. N : m \in T}
<1>1. /\ N \in Nat /\ DOMAIN nodes = 1 .. N
      /\ \A m \in 1 .. N : \A k \in DOMAIN nodes[m].kids : nodes[m].kids[k] \in m + 1 .. N
    BY LenProperties DEF AreNodes
<1> HIDE DEF N
<1>2. 0 \in P
    <2>1. N + 1 - 0 .. N = {}
        BY <1>1
    <2> QED
        BY <1>1, <2>1
<1>3. ASSUME NEW j \in 0 .. N - 1, j \in P PROVE j + 1 \in P
    <2> DEFINE n == N - j
    <2>1. n \in 1 .. N /\ N + 1 - j = n + 1 /\ N + 1 - (j + 1) = n /\ j + 1 \in 0 .. N
        BY <1>1
    <2>2. \A m \in n + 1 .. N : m \in T
        BY <1>3, <2>1
    <2> HIDE DEF n
    <2>3. n \in T
        <3>1. \A k \in DOMAIN nodes[n].kids : nodes[n].kids[k] \in n + 1 .. N
            BY <1>1, <2>1
        <3>2. \A k \in DOMAIN nodes[n].kids : nodes[n].kids[k] \in T
            BY <2>2, <3>1
        <3> QED
            BY <1>1, <2>1, <3>2
    <2>4. \A m \in n .. N : m = n \/ m \in n + 1 .. N
        BY <2>1
    <2> QED
        BY <2>1, <2>2, <2>3, <2>4
<1> HIDE DEF P
<1>4. 0 .. N \subseteq P
    BY <1>1, <1>2, <1>3, Upwards
<1>5. N \in P /\ N + 1 - N = 1
    BY <1>1, <1>4
<1> QED
    BY <1>1, <1>5 DEF P

\* A node of the tree and its children.
LEMMA KidsAreNodes ==
    ASSUME NEW nodes, AreNodes(nodes), NEW m \in DOMAIN nodes
    PROVE  /\ nodes[m] \in HtmlNodes /\ nodes[m].word \in Words \cup {Blank}
           /\ nodes[m].across \in Nat /\ nodes[m].down \in Nat
           /\ nodes[m].kids \in Seq(Nat)
           /\ Len(nodes[m].kids) \in Nat /\ DOMAIN nodes[m].kids = 1 .. Len(nodes[m].kids)
           /\ \A k \in DOMAIN nodes[m].kids :
                 nodes[m].kids[k] \in DOMAIN nodes /\ nodes[m].kids[k] > m
           /\ DOMAIN nodes = 1 .. Len(nodes) /\ Len(nodes) \in Nat /\ m \in Nat
<1>1. DOMAIN nodes = 1 .. Len(nodes) /\ Len(nodes) \in Nat
    BY LenProperties DEF AreNodes
<1>2. nodes[m] \in HtmlNodes
    BY <1>1, ElementOfSeq DEF AreNodes
<1>3. /\ nodes[m].kids \in Seq(Nat) /\ nodes[m].word \in Words \cup {Blank}
      /\ nodes[m].across \in Nat /\ nodes[m].down \in Nat
    BY <1>2 DEF HtmlNodes
<1>4. Len(nodes[m].kids) \in Nat /\ DOMAIN nodes[m].kids = 1 .. Len(nodes[m].kids)
    BY <1>3, LenProperties
<1>5. \A k \in DOMAIN nodes[m].kids : nodes[m].kids[k] \in m + 1 .. Len(nodes)
    BY DEF AreNodes
<1>6. \A k \in DOMAIN nodes[m].kids : nodes[m].kids[k] \in DOMAIN nodes /\ nodes[m].kids[k] > m
    BY <1>1, <1>5
<1> QED
    BY <1>1, <1>2, <1>3, <1>4, <1>6

\* Texts one after the other are a text.
LEMMA TextsFlattened ==
    ASSUME NEW V, NEW n \in Nat, NEW texts, texts = [k \in 1 .. n |-> texts[k]],
           \A k \in 1 .. n : texts[k] \in Seq(V)
    PROVE  texts \in Seq(Seq(V)) /\ FlattenSeq(texts) \in Seq(V)
<1> DEFINE R == Seq(V)
<1>1. \A k \in 1 .. n : texts[k] \in R
    OBVIOUS
<1> HIDE DEF R
<1>2. texts \in Seq(R)
    BY <1>1, FunctionIsSeq
<1> QED
    BY <1>2, FlattenedIsSeq DEF R

\* The text under a node is made of the words that are asked for.
LEMMA TextsTyped ==
    ASSUME NEW nodes, AreNodes(nodes), NEW among, NEW m \in DOMAIN nodes
    PROVE  Texts(nodes, among)[m] \in Seq(among)
<1> DEFINE text == Texts(nodes, among)
           T == {n \in DOMAIN nodes : text[n] \in Seq(among)}
<1>1. ASSUME NEW n \in DOMAIN nodes,
             \A k \in DOMAIN nodes[n].kids : nodes[n].kids[k] \in T
      PROVE  n \in T
    <2> DEFINE ofKids == OfKids(text, nodes, n)
               c == Len(nodes[n].kids)
    <2>1. c \in Nat /\ DOMAIN nodes[n].kids = 1 .. c
        BY KidsAreNodes
    <2>2. text[n] = TextOf(nodes[n], among, ofKids)
        BY TextsGiven
    <2>3. FlattenSeq(ofKids) \in Seq(among)
        <3>1. ofKids = [k \in 1 .. c |-> ofKids[k]]
            BY <2>1 DEF OfKids
        <3>2. \A k \in 1 .. c : ofKids[k] \in Seq(among)
            BY <1>1, <2>1 DEF OfKids
        <3> HIDE DEF ofKids, c
        <3> QED
            BY <2>1, <3>1, <3>2, TextsFlattened
    <2> HIDE DEF ofKids, text
    <2>4. TextOf(nodes[n], among, ofKids) \in Seq(among)
        <3>1. <<>> \in Seq(among) /\ \A word \in among : <<word>> \in Seq(among)
            BY EmptySeq
        <3> QED
            BY <2>3, <3>1 DEF TextOf
    <2> QED
        BY <2>2, <2>4
<1> HIDE DEF T
<1>2. DOMAIN nodes \subseteq T
    BY <1>1, FromTheLeaves
<1> QED
    BY <1>2 DEF T

\* What is nearest under a node are nodes of these tags.
LEMMA NearestTyped ==
    ASSUME NEW nodes, AreNodes(nodes), NEW tags, NEW m \in DOMAIN nodes
    PROVE  Nearest(nodes, tags)[m] \in Seq({n \in DOMAIN nodes : nodes[n].tag \in tags})
<1> DEFINE found == Nearest(nodes, tags)
           V == {n \in DOMAIN nodes : nodes[n].tag \in tags}
           T == {n \in DOMAIN nodes : found[n] \in Seq(V)}
<1>1. ASSUME NEW n \in DOMAIN nodes,
             \A k \in DOMAIN nodes[n].kids : nodes[n].kids[k] \in T
      PROVE  n \in T
    <2> DEFINE kids == nodes[n].kids
               ofKids == OfKids(found, nodes, n)
               c == Len(kids)
               parts == [k \in DOMAIN kids |->
                            LET tag == nodes[kids[k]].tag
                            IN  IF tag \in DroppedTags \cup {"#text"} THEN <<>>
                                ELSE IF tag \in tags THEN <<kids[k]>>
                                ELSE IF tag = "table" THEN <<>>
                                ELSE ofKids[k]]
    <2>1. c \in Nat /\ DOMAIN kids = 1 .. c /\ \A k \in 1 .. c : kids[k] \in DOMAIN nodes
        BY KidsAreNodes
    <2>2. found[n] = FlattenSeq(parts)
        <3>1. found[n] = NearestOf(nodes, n, tags, ofKids)
            BY NearestGiven
        <3> HIDE DEF ofKids
        <3> QED
            BY <3>1 DEF NearestOf
    <2>3. parts = [k \in 1 .. c |-> parts[k]]
        BY <2>1
    <2>4. \A k \in 1 .. c : parts[k] \in Seq(V)
        <3>1. <<>> \in Seq(V)
            BY EmptySeq
        <3>2. \A k \in 1 .. c : ofKids[k] \in Seq(V)
            BY <1>1, <2>1 DEF OfKids
        <3>3. \A k \in 1 .. c : nodes[kids[k]].tag \in tags => kids[k] \in V
            BY <2>1
        <3> HIDE DEF ofKids, V, c
        <3>4. \A x \in V : <<x>> \in Seq(V)
            OBVIOUS
        <3> QED
            BY <2>1, <3>1, <3>2, <3>3, <3>4
    <2> HIDE DEF parts, c, V, found
    <2>5. FlattenSeq(parts) \in Seq(V)
        BY <2>1, <2>3, <2>4, TextsFlattened
    <2> QED
        BY <2>2, <2>5
<1> HIDE DEF T
<1>2. DOMAIN nodes \subseteq T
    BY <1>1, FromTheLeaves
<1> QED
    BY <1>2 DEF T

-----------------------------------------------------------------------------
(* What is counted along a sequence.                                        *)

\* The cells that are placed, the characters or the number so far, with one
\* element more.
OneMore(what, element, before) ==
    CASE what = "placed" -> Append(before, InPlace(before, element))
      [] what = "characters" -> before + Weight[element]
      [] what = "numbers" -> IF element # NotGiven THEN element ELSE before + 1

IsCounted(g, what, s, none, n) ==
    g = [k \in 0 .. n |-> IF k = 0 THEN none ELSE OneMore(what, s[k], g[k - 1])]

LEMMA CountExists ==
    ASSUME NEW what, NEW s, NEW none, NEW n \in Nat
    PROVE  \E g : IsCounted(g, what, s, none, n)
<1> DEFINE T == {k \in 0 .. n : \E g : IsCounted(g, what, s, none, k)}
<1>1. 0 \in T
    <2> DEFINE g == [k \in 0 .. 0 |-> none]
    <2>1. IsCounted(g, what, s, none, 0)
        <3>1. \A k \in 0 .. 0 : k = 0
            OBVIOUS
        <3> QED
            BY <3>1 DEF IsCounted
    <2> HIDE DEF g
    <2> QED
        BY <2>1
<1>2. ASSUME NEW k \in 0 .. n - 1, k \in T PROVE k + 1 \in T
    <2>1. PICK g : IsCounted(g, what, s, none, k)
        BY <1>2
    <2> DEFINE own == OneMore(what, s[k + 1], g[k])
               more == [j \in 0 .. k + 1 |-> IF j = k + 1 THEN own ELSE g[j]]
    <2>2. ASSUME NEW j \in 0 .. k + 1
          PROVE  more[j] = IF j = 0 THEN none ELSE OneMore(what, s[j], more[j - 1])
        <3>1. CASE j = k + 1
            <4>1. k \in 0 .. k + 1 /\ k # k + 1 /\ j - 1 = k /\ j # 0
                BY <3>1
            <4>2. more[k] = g[k] /\ more[j] = own
                BY <3>1, <4>1
            <4> HIDE DEF more
            <4> QED
                BY <3>1, <4>1, <4>2
        <3>2. CASE j # k + 1
            <4>1. j \in 0 .. k /\ (j # 0 => j - 1 \in 0 .. k /\ j - 1 \in 0 .. k + 1 /\ j - 1 # k + 1)
                BY <3>2
            <4>2. more[j] = g[j] /\ (j # 0 => more[j - 1] = g[j - 1])
                BY <3>2, <4>1
            <4> HIDE DEF more
            <4>3. g[j] = IF j = 0 THEN none ELSE OneMore(what, s[j], g[j - 1])
                BY <2>1, <4>1 DEF IsCounted
            <4> QED
                BY <4>2, <4>3
        <3> QED
            BY <3>1, <3>2
    <2>3. IsCounted(more, what, s, none, k + 1)
        <3> DEFINE counted == [j \in 0 .. k + 1 |->
                                  IF j = 0 THEN none ELSE OneMore(what, s[j], more[j - 1])]
        <3>1. more = [j \in 0 .. k + 1 |-> more[j]]
            OBVIOUS
        <3> HIDE DEF more
        <3>2. \A j \in 0 .. k + 1 : more[j] = counted[j]
            BY <2>2
        <3>3. more = counted
            BY <3>1, <3>2
        <3> QED
            BY <3>3 DEF IsCounted
    <2>4. k + 1 \in 0 .. n
        OBVIOUS
    <2> QED
        BY <2>3, <2>4
<1> HIDE DEF T
<1>3. 0 .. n \subseteq T
    BY <1>1, <1>2, Upwards
<1> QED
    BY <1>3, n \in 0 .. n DEF T

LEMMA PlacedGiven ==
    ASSUME NEW nodes, NEW table, NEW S, CellsIn(nodes, table) \in Seq(S)
    PROVE  LET cells == CellsIn(nodes, table)
           IN  \E placed :
                   /\ Placed(nodes, table) = placed[Len(cells)]
                   /\ placed[0] = <<>>
                   /\ \A n \in 1 .. Len(cells) :
                         placed[n] = Append(placed[n - 1], InPlace(placed[n - 1], cells[n]))
<1> DEFINE cells == CellsIn(nodes, table)
           n == Len(cells)
           chosen == CHOOSE g : IsCounted(g, "placed", cells, <<>>, n)
<1>1. n \in Nat
    BY LenProperties
<1>2. Placed(nodes, table) = chosen[n]
    BY DEF Placed, IsCounted, OneMore
<1> HIDE DEF n, cells
<1>3. IsCounted(chosen, "placed", cells, <<>>, n)
    BY <1>1, CountExists
<1> HIDE DEF chosen
<1>4. chosen[0] = <<>>
    BY <1>1, <1>3 DEF IsCounted
<1>5. ASSUME NEW k \in 1 .. n
      PROVE  chosen[k] = Append(chosen[k - 1], InPlace(chosen[k - 1], cells[k]))
    <2>1. k \in 0 .. n /\ k # 0
        BY <1>1
    <2> QED
        BY <1>3, <2>1 DEF IsCounted, OneMore
<1> QED
    BY <1>2, <1>4, <1>5 DEF n, cells

\* Finitely many natural numbers are all up to one of them.
LEMMA FiniteIsBounded ==
    ASSUME NEW S \in SUBSET Nat, IsFiniteSet(S)
    PROVE  \E n \in Nat : S \in SUBSET (0 .. n)
<1> DEFINE c == Cardinality(S)
<1>1. c \in Nat /\ ExistsBijection(1 .. c, S)
    BY FS_CardinalityType
<1>2. PICK f : f \in [1 .. c -> S] /\ \A x \in S : \E i \in 1 .. c : f[i] = x
    BY <1>1 DEF ExistsBijection, Bijection, Surjection
<1>8. \A i \in 1 .. c : f[i] \in Nat
    <2>1. \A i \in 1 .. c : f[i] \in S
        BY <1>2
    <2> QED
        BY <2>1
<1> HIDE DEF c
<1> DEFINE T == {k \in 0 .. c : \E n \in Nat : \A i \in 1 .. k : f[i] <= n}
<1>3. 0 \in T
    <2>1. \A i \in 1 .. 0 : f[i] <= 0
        OBVIOUS
    <2> QED
        BY <1>1, <2>1
<1>4. ASSUME NEW k \in 0 .. c - 1, k \in T PROVE k + 1 \in T
    <2>1. PICK n \in Nat : \A i \in 1 .. k : f[i] <= n
        BY <1>4
    <2>2. f[k + 1] \in Nat
        <3>1. k + 1 \in 1 .. c
            BY <1>1
        <3> QED
            BY <1>8, <3>1
    <2>3. ASSUME NEW i \in 1 .. k + 1 PROVE f[i] <= n + f[k + 1]
        <3>1. i = k + 1 \/ i \in 1 .. k
            BY <1>1
        <3>2. f[i] \in Nat
            <4>1. i \in 1 .. c
                BY <1>1
            <4> QED
                BY <1>8, <4>1
        <3>3. i \in 1 .. k => f[i] <= n
            BY <2>1
        <3> QED
            BY <2>2, <3>1, <3>2, <3>3
    <2>4. n + f[k + 1] \in Nat /\ k + 1 \in 0 .. c
        BY <1>1, <2>2
    <2> QED
        BY <2>3, <2>4
<1> HIDE DEF T
<1>9. 0 .. c \subseteq T
    BY <1>1, <1>3, <1>4, Upwards
<1>5. c \in T
    BY <1>1, <1>9
<1>6. PICK n \in Nat : \A i \in 1 .. c : f[i] <= n
    BY <1>5 DEF T
<1>7. \A x \in S : x \in 0 .. n
    BY <1>2, <1>6
<1> QED
    BY <1>7

-----------------------------------------------------------------------------
(* The cells of a table.                                                    *)

TableCells(nodes) ==
    [row : Nat \ {0}, node : DOMAIN nodes, across : Nat, down : Nat]

PlacedCells(nodes) ==
    [row : Nat \ {0}, node : DOMAIN nodes, across : Nat, down : Nat, column : Nat \ {0}]

LEMMA CellsTyped ==
    ASSUME NEW nodes, AreNodes(nodes), NEW table \in DOMAIN nodes
    PROVE  CellsIn(nodes, table) \in Seq(TableCells(nodes))
<1> DEFINE R == {n \in DOMAIN nodes : nodes[n].tag \in {"tr"}}
           V == TableCells(nodes)
           rows == Nearest(nodes, {"tr"})[table]
           found(r) == Nearest(nodes, CellTags)[rows[r]]
           cell(r, c) == [row |-> r, node |-> found(r)[c],
                          across |-> nodes[found(r)[c]].across,
                          down |-> nodes[found(r)[c]].down]
           parts == [r \in DOMAIN rows |-> [c \in DOMAIN found(r) |-> cell(r, c)]]
           m == Len(rows)
<1>1. CellsIn(nodes, table) = FlattenSeq(parts)
    BY DEF CellsIn
<1>2. rows \in Seq(R)
    BY NearestTyped
<1>3. m \in Nat /\ DOMAIN rows = 1 .. m /\ \A r \in 1 .. m : rows[r] \in DOMAIN nodes
    BY <1>2, LenProperties, ElementOfSeq
<1> HIDE DEF rows
<1>4. ASSUME NEW r \in 1 .. m PROVE parts[r] \in Seq(V)
    <2> DEFINE cells == found(r)
               C == {n \in DOMAIN nodes : nodes[n].tag \in CellTags}
               list == [c \in DOMAIN cells |-> cell(r, c)]
    <2>1. cells \in Seq(C)
        BY <1>3, NearestTyped
    <2>2. Len(cells) \in Nat /\ DOMAIN cells = 1 .. Len(cells)
          /\ \A c \in 1 .. Len(cells) : cells[c] \in DOMAIN nodes
        BY <2>1, LenProperties, ElementOfSeq
    <2>3. ASSUME NEW c \in 1 .. Len(cells) PROVE cell(r, c) \in V
        <3>1. cells[c] \in DOMAIN nodes
            BY <2>2
        <3>2. nodes[cells[c]].across \in Nat /\ nodes[cells[c]].down \in Nat
            BY <3>1, KidsAreNodes
        <3>3. r \in Nat \ {0}
            BY <1>3
        <3> HIDE DEF found, m
        <3> QED
            BY <3>1, <3>2, <3>3 DEF TableCells
    <2> DEFINE n == Len(cells)
    <2>4. \A c \in 1 .. n : list[c] \in V
        BY <2>2, <2>3
    <2>5. list = [c \in 1 .. n |-> list[c]]
        BY <2>2
    <2>6. n \in Nat
        BY <2>2
    <2>7. parts[r] = list
        BY <1>3
    <2> HIDE DEF list, cells, V, n, parts
    <2>8. list \in Seq(V)
        BY <2>4, <2>5, <2>6, FunctionIsSeq
    <2> QED
        BY <2>7, <2>8
<1>5. parts = [r \in 1 .. m |-> parts[r]]
    BY <1>3
<1> HIDE DEF parts, V, m
<1>6. FlattenSeq(parts) \in Seq(V)
    BY <1>3, <1>4, <1>5, TextsFlattened
<1> QED
    BY <1>1, <1>6 DEF V

\* What a cell covers, and what all of them do, is finite.
LEMMA CoveredFinite ==
    ASSUME NEW N, NEW placed \in Seq(PlacedCells(N)), NEW row
    PROVE  /\ IsFiniteSet(Taken(placed, row))
           /\ Taken(placed, row) \in SUBSET (Nat \X Nat)
<1> DEFINE covers == [i \in DOMAIN placed |-> Covered(placed[i])]
           sets == {covers[i] : i \in DOMAIN placed}
<1>1. Len(placed) \in Nat /\ DOMAIN placed = 1 .. Len(placed)
      /\ \A i \in DOMAIN placed : placed[i] \in PlacedCells(N)
    BY LenProperties, ElementOfSeq
<1>2. IsFiniteSet(DOMAIN placed)
    BY <1>1, FS_Interval
<1>3. IsFiniteSet(sets)
    <2>1. covers \in Surjection(DOMAIN placed, sets)
        BY DEF Surjection
    <2> HIDE DEF covers, sets
    <2> QED
        BY <1>2, <2>1, FS_Surjection
<1>4. ASSUME NEW i \in DOMAIN placed
      PROVE  /\ IsFiniteSet(Covered(placed[i])) /\ Covered(placed[i]) \in SUBSET (Nat \X Nat)
    <2> DEFINE cell == placed[i]
               rows == cell.row .. cell.row + cell.down - 1
               columns == cell.column .. cell.column + cell.across - 1
    <2>1. cell.row \in Nat /\ cell.down \in Nat /\ cell.column \in Nat /\ cell.across \in Nat
        BY <1>1 DEF PlacedCells
    <2> HIDE DEF cell
    <2>2. rows \in SUBSET Nat /\ columns \in SUBSET Nat
        BY <2>1
    <2>3. cell.row + cell.down - 1 \in Int /\ cell.column + cell.across - 1 \in Int
          /\ cell.row \in Int /\ cell.column \in Int
        BY <2>1
    <2>4. IsFiniteSet(rows) /\ IsFiniteSet(columns)
        BY <2>3, FS_Interval
    <2>5. Covered(cell) = rows \X columns
        BY DEF Covered
    <2> HIDE DEF rows, columns
    <2>6. IsFiniteSet(rows \X columns) /\ rows \X columns \in SUBSET (Nat \X Nat)
        BY <2>2, <2>4, FS_Product
    <2> QED
        BY <2>5, <2>6 DEF cell
<1>5. Taken(placed, row) = UNION sets
    BY DEF Taken, ToSet
<1>6. \A T \in sets : IsFiniteSet(T) /\ T \in SUBSET (Nat \X Nat)
    BY <1>4
<1> HIDE DEF sets
<1>7. IsFiniteSet(UNION sets)
    BY <1>3, <1>6, FS_UNION
<1> QED
    BY <1>5, <1>6, <1>7

\* Among more columns than there are places that are taken, one is free.
LEMMA FreeColumn ==
    ASSUME NEW taken, IsFiniteSet(taken), NEW first \in Nat, NEW row
    PROVE  \E c \in first .. first + Cardinality(taken) : <<row, c>> \notin taken
<1> SUFFICES ASSUME \A c \in first .. first + Cardinality(taken) : <<row, c>> \in taken
             PROVE  FALSE
    OBVIOUS
<1> DEFINE n == Cardinality(taken)
           columns == first .. first + n
           f == [c \in columns |-> <<row, c>>]
<1>1. n \in Nat
    BY FS_CardinalityType
<1> HIDE DEF n
<1>2. IsFiniteSet(columns) /\ Cardinality(columns) = n + 1
    <2>1. first \in Int /\ first + n \in Int /\ ~(first > first + n) /\ (first + n) - first + 1 = n + 1
        BY <1>1
    <2> DEFINE last == first + n
    <2>2. last \in Int /\ ~(first > last) /\ last - first + 1 = n + 1
        BY <2>1
    <2> HIDE DEF last
    <2>3. IsFiniteSet(first .. last) /\ Cardinality(first .. last) = n + 1
        BY <2>1, <2>2, FS_Interval
    <2> QED
        BY <2>3 DEF last
<1>3. f \in [columns -> taken]
    BY DEF n
<1>4. n < Cardinality(columns)
    BY <1>1, <1>2
<1> HIDE DEF f, columns
<1>5. \E x, y \in columns : x # y /\ f[x] = f[y]
    BY <1>2, <1>3, <1>4, FS_PigeonHole DEF n
<1> QED
    BY <1>5 DEF f

LEMMA InPlaceIsFree ==
    ASSUME NEW N, NEW placed \in Seq(PlacedCells(N)), NEW cell \in TableCells(N)
    PROVE  /\ InPlace(placed, cell) \in PlacedCells(N)
           /\ InPlace(placed, cell).row = cell.row
           /\ InPlace(placed, cell).node = cell.node
           /\ \A i \in DOMAIN placed :
                 <<InPlace(placed, cell).row, InPlace(placed, cell).column>>
                     \notin Covered(placed[i])
<1> DEFINE first == IF placed # <<>> /\ Last(placed).row = cell.row
                    THEN Last(placed).column + Last(placed).across
                    ELSE 1
           taken == Taken(placed, cell.row)
           free == {c \in first .. first + Cardinality(taken) : <<cell.row, c>> \notin taken}
           put == [row |-> cell.row, node |-> cell.node, across |-> cell.across,
                   down |-> cell.down, column |-> Min(free)]
<1>1. InPlace(placed, cell) = put
    BY DEF InPlace
<1>2. /\ cell.row \in Nat \ {0} /\ cell.node \in DOMAIN N
      /\ cell.across \in Nat /\ cell.down \in Nat
    BY DEF TableCells
<1>3. first \in Nat \ {0}
    <2>1. CASE placed = <<>>
        BY <2>1
    <2>2. CASE placed # <<>>
        <3>1. Len(placed) \in 1 .. Len(placed)
            BY <2>2, LenProperties, EmptySeq
        <3>2. Last(placed) \in PlacedCells(N)
            BY <3>1, ElementOfSeq DEF Last
        <3>3. Last(placed).column \in Nat \ {0} /\ Last(placed).across \in Nat
            BY <3>2 DEF PlacedCells
        <3> QED
            BY <3>3
    <2> QED
        BY <2>1, <2>2
<1> HIDE DEF first
<1>4. IsFiniteSet(taken) /\ Cardinality(taken) \in Nat
    BY CoveredFinite, FS_CardinalityType
<1>5. taken = UNION {Covered(placed[i]) : i \in DOMAIN placed}
    BY DEF Taken, ToSet
<1> HIDE DEF taken
<1>6. free # {}
    BY <1>3, <1>4, FreeColumn
<1>7. \A c \in free : c \in Nat \ {0} /\ <<cell.row, c>> \notin taken
    BY <1>3, <1>4
<1> HIDE DEF free
<1>8. Min(free) \in free
    BY <1>6, <1>7, MinIsLeast
<1>9. Min(free) \in Nat \ {0} /\ <<cell.row, Min(free)>> \notin taken
    BY <1>7, <1>8
<1>10. put \in PlacedCells(N) /\ put.row = cell.row /\ put.node = cell.node
       /\ <<put.row, put.column>> \notin taken
    BY <1>2, <1>9 DEF PlacedCells
<1> HIDE DEF put
<1>11. \A i \in DOMAIN placed : <<put.row, put.column>> \notin Covered(placed[i])
    BY <1>5, <1>10
<1> QED
    BY <1>1, <1>10, <1>11

\* Every cell of a table has its place, in a column that none before it covers.
LEMMA PlacedTyped ==
    ASSUME NEW nodes, AreNodes(nodes), NEW table \in DOMAIN nodes
    PROVE  /\ Placed(nodes, table) \in Seq(PlacedCells(nodes))
           /\ \A i, j \in DOMAIN Placed(nodes, table) :
                 i < j => <<Placed(nodes, table)[j].row, Placed(nodes, table)[j].column>>
                              \notin Covered(Placed(nodes, table)[i])
<1> DEFINE cells == CellsIn(nodes, table)
           N == Len(cells)
           V == PlacedCells(nodes)
           Apart(s) == \A i, j \in DOMAIN s :
                           i < j => <<s[j].row, s[j].column>> \notin Covered(s[i])
<1>1. cells \in Seq(TableCells(nodes))
    BY CellsTyped
<1>2. N \in Nat /\ \A n \in 1 .. N : cells[n] \in TableCells(nodes)
    BY <1>1, LenProperties, ElementOfSeq
<1>3. PICK placed :
          /\ Placed(nodes, table) = placed[N]
          /\ placed[0] = <<>>
          /\ \A n \in 1 .. N : placed[n] = Append(placed[n - 1], InPlace(placed[n - 1], cells[n]))
    BY <1>1, PlacedGiven
<1> HIDE DEF N, cells
<1> DEFINE T == {n \in 0 .. N : placed[n] \in Seq(V) /\ Apart(placed[n])}
<1>4. 0 \in T
    <2>1. <<>> \in Seq(V) /\ DOMAIN <<>> = {}
        BY EmptySeq
    <2>2. Apart(<<>>)
        BY <2>1
    <2>3. 0 \in 0 .. N
        BY <1>2
    <2> HIDE DEF Apart, V
    <2> QED
        BY <1>3, <2>1, <2>2, <2>3
<1>5. ASSUME NEW k \in 0 .. N - 1, k \in T PROVE k + 1 \in T
    <2> DEFINE s == placed[k]
               new == InPlace(s, cells[k + 1])
               more == Append(s, new)
    <2>1. k + 1 \in 1 .. N /\ k + 1 \in 0 .. N /\ (k + 1) - 1 = k
        BY <1>2
    <2>2. placed[k + 1] = more
        BY <1>3, <2>1
    <2>3. s \in Seq(V) /\ Apart(s)
        BY <1>5
    <2>4. new \in V /\ \A i \in DOMAIN s : <<new.row, new.column>> \notin Covered(s[i])
        BY <1>2, <2>1, <2>3, InPlaceIsFree
    <2> HIDE DEF s, new, V
    <2>5. /\ more \in Seq(V) /\ DOMAIN more = 1 .. Len(s) + 1 /\ more[Len(s) + 1] = new
          /\ \A i \in 1 .. Len(s) : more[i] = s[i]
          /\ Len(s) \in Nat /\ DOMAIN s = 1 .. Len(s)
        BY <2>3, <2>4, AppendProperties, LenProperties
    <2> HIDE DEF more
    <2>6. ASSUME NEW i \in DOMAIN more, NEW j \in DOMAIN more, i < j
          PROVE  <<more[j].row, more[j].column>> \notin Covered(more[i])
        <3>1. i \in 1 .. Len(s) /\ more[i] = s[i]
            BY <2>5, <2>6
        <3>2. CASE j = Len(s) + 1
            BY <2>4, <2>5, <3>1, <3>2
        <3>3. CASE j \in 1 .. Len(s)
            BY <2>3, <2>5, <2>6, <3>1, <3>3
        <3> QED
            BY <2>5, <3>2, <3>3
    <2> QED
        BY <2>1, <2>2, <2>5, <2>6
<1> HIDE DEF T
<1>6. 0 .. N \subseteq T
    BY <1>2, <1>4, <1>5, Upwards
<1>7. N \in T
    BY <1>2, <1>6
<1> QED
    BY <1>3, <1>7 DEF T

\* The grid of a table is large enough for what its cells cover.
TableHeight(nodes, table) ==
    Max({Len(Nearest(nodes, {"tr"})[table])}
        \cup {place[1] : place \in Taken(Placed(nodes, table), 1)})

TableWidth(nodes, table) == Max({0} \cup {place[2] : place \in Taken(Placed(nodes, table), 1)})

\* Where no cell starts it is empty.
ShownAt(nodes, table, row, column) ==
    LET placed == Placed(nodes, table)
        here == {k \in DOMAIN placed : placed[k].row = row /\ placed[k].column = column}
        text == IF here = {} THEN <<>> ELSE Texts(nodes, Words)[placed[Min(here)].node]
    IN  IF text = <<>> THEN <<EmptyCell>> ELSE text

LEMMA TableOfPlaces ==
    ASSUME NEW nodes, NEW table
    PROVE  HtmlTable(nodes, table) =
               FlattenSeq([row \in 1 .. TableHeight(nodes, table) |->
                   FlattenSeq([column \in 1 .. TableWidth(nodes, table) |->
                       ShownAt(nodes, table, row, column)])])
BY DEF HtmlTable, TableHeight, TableWidth, ShownAt, Taken

LEMMA TableSize ==
    ASSUME NEW nodes, AreNodes(nodes), NEW table \in DOMAIN nodes
    PROVE  /\ TableHeight(nodes, table) \in Nat /\ TableWidth(nodes, table) \in Nat
           /\ \A place \in Taken(Placed(nodes, table), 1) :
                 /\ place[1] <= TableHeight(nodes, table)
                 /\ place[2] <= TableWidth(nodes, table)
<1> DEFINE covered == Taken(Placed(nodes, table), 1)
           rows == Nearest(nodes, {"tr"})[table]
           heights == {Len(rows)} \cup {place[1] : place \in covered}
           widths == {0} \cup {place[2] : place \in covered}
           height == Max(heights)
           width == Max(widths)
<1>1. IsFiniteSet(covered) /\ covered \in SUBSET (Nat \X Nat)
    BY PlacedTyped, CoveredFinite
<1>2. Len(rows) \in Nat
    <2>1. rows \in Seq({n \in DOMAIN nodes : nodes[n].tag \in {"tr"}})
        BY NearestTyped
    <2> QED
        BY <2>1, LenProperties
<1> HIDE DEF covered, rows
<1>3. ASSUME NEW i \in {1, 2}
      PROVE  /\ IsFiniteSet({place[i] : place \in covered})
             /\ {place[i] : place \in covered} \in SUBSET Nat
    <2> DEFINE f == [place \in covered |-> place[i]]
               S == {place[i] : place \in covered}
    <2>1. f \in Surjection(covered, S)
        BY DEF Surjection
    <2>2. S \in SUBSET Nat
        BY <1>1
    <2> HIDE DEF f, S
    <2> QED
        BY <1>1, <2>1, <2>2, FS_Surjection DEF S
<1>4. height \in Nat /\ \A h \in heights : h <= height
    <2>1. IsFiniteSet({place[1] : place \in covered}) /\ heights \in SUBSET Nat
        BY <1>2, <1>3
    <2>2. IsFiniteSet(heights) /\ heights # {}
        <3>1. heights = {place[1] : place \in covered} \cup {Len(rows)}
            OBVIOUS
        <3> QED
            BY <2>1, <3>1, FS_AddElement
    <2> HIDE DEF heights
    <2>3. height \in heights /\ \A h \in heights : height >= h
        BY <2>1, <2>2, FiniteIsBounded, MaxIsGreatest
    <2> HIDE DEF height
    <2> QED
        BY <2>1, <2>3
<1>5. width \in Nat /\ \A h \in widths : h <= width
    <2>1. IsFiniteSet({place[2] : place \in covered}) /\ widths \in SUBSET Nat
        BY <1>3
    <2>2. IsFiniteSet(widths) /\ widths # {}
        <3>1. widths = {place[2] : place \in covered} \cup {0}
            OBVIOUS
        <3> QED
            BY <2>1, <3>1, FS_AddElement
    <2> HIDE DEF widths
    <2>3. width \in widths /\ \A h \in widths : width >= h
        BY <2>1, <2>2, FiniteIsBounded, MaxIsGreatest
    <2> HIDE DEF width
    <2> QED
        BY <2>1, <2>3
<1>6. TableHeight(nodes, table) = height /\ TableWidth(nodes, table) = width
    BY DEF TableHeight, TableWidth, covered, rows
<1>7. \A place \in covered : place[1] \in heights /\ place[2] \in widths
    OBVIOUS
<1> HIDE DEF height, width, heights, widths
<1> QED
    BY <1>4, <1>5, <1>6, <1>7 DEF covered

\* The grid of a table is made of words and empty cells.
LEMMA HtmlTableTyped ==
    ASSUME NEW nodes, AreNodes(nodes), NEW table \in DOMAIN nodes
    PROVE  HtmlTable(nodes, table) \in Seq(Letters)
<1> DEFINE placed == Placed(nodes, table)
           height == TableHeight(nodes, table)
           width == TableWidth(nodes, table)
           here(row, column) ==
               {k \in DOMAIN placed : placed[k].row = row /\ placed[k].column = column}
           text(row, column) ==
               IF here(row, column) = {} THEN <<>>
               ELSE Texts(nodes, Words)[placed[Min(here(row, column))].node]
           shown(row, column) == ShownAt(nodes, table, row, column)
           lines == [row \in 1 .. height |->
                        FlattenSeq([column \in 1 .. width |-> shown(row, column)])]
<1>1. HtmlTable(nodes, table) = FlattenSeq(lines)
    BY TableOfPlaces
<1>2. /\ DOMAIN placed = 1 .. Len(placed)
      /\ \A k \in DOMAIN placed : placed[k] \in PlacedCells(nodes)
    BY PlacedTyped, LenProperties, ElementOfSeq
<1>3. height \in Nat /\ width \in Nat
    BY TableSize
<1>4. \A row, column : shown(row, column) =
          IF text(row, column) = <<>> THEN <<EmptyCell>> ELSE text(row, column)
    BY DEF ShownAt
<1> HIDE DEF height, width, shown, placed
<1>8. ASSUME NEW row, NEW column PROVE shown(row, column) \in Seq(Letters)
    <2>1. <<EmptyCell>> \in Seq(Letters)
        BY DEF Letters
    <2>2. ASSUME here(row, column) # {} PROVE text(row, column) \in Seq(Letters)
        <3> DEFINE k == Min(here(row, column))
        <3>1. here(row, column) \in SUBSET Nat
            BY <1>2
        <3>2. k \in here(row, column)
            BY <2>2, <3>1, MinIsLeast
        <3>3. k \in DOMAIN placed
            BY <3>2
        <3>4. placed[k].node \in DOMAIN nodes
            BY <1>2, <3>3 DEF PlacedCells
        <3> HIDE DEF k
        <3>5. Texts(nodes, Words)[placed[k].node] \in Seq(Words)
            BY <3>4, TextsTyped
        <3>6. Texts(nodes, Words)[placed[k].node] \in Seq(Letters)
            BY <3>5, SeqGrows DEF Letters
        <3> QED
            BY <2>2, <3>6 DEF k
    <2>3. here(row, column) = {} => text(row, column) = <<>>
        OBVIOUS
    <2> HIDE DEF text, here
    <2> QED
        BY <1>4, <2>1, <2>2, <2>3
<1>9. ASSUME NEW row \in 1 .. height PROVE lines[row] \in Seq(Letters)
    <2> DEFINE line == [column \in 1 .. width |-> shown(row, column)]
    <2>1. \A column \in 1 .. width : line[column] \in Seq(Letters)
        BY <1>8
    <2>2. line = [column \in 1 .. width |-> line[column]]
        OBVIOUS
    <2>3. lines[row] = FlattenSeq(line)
        OBVIOUS
    <2> HIDE DEF line, lines
    <2> QED
        BY <1>3, <2>1, <2>2, <2>3, TextsFlattened
<1>10. lines = [row \in 1 .. height |-> lines[row]]
    OBVIOUS
<1> HIDE DEF lines
<1>11. FlattenSeq(lines) \in Seq(Letters)
    BY <1>3, <1>9, <1>10, TextsFlattened
<1> QED
    BY <1>1, <1>11

-----------------------------------------------------------------------------
(* The sheets of a workbook.                                                *)

\* Each number is the one that is given, or else counted on from the last one.
LEMMA AddressesNumbered ==
    ASSUME NEW n \in Nat, NEW given, DOMAIN given = 1 .. n, Len(given) = n,
           \A k \in 1 .. n : given[k] \in Nat
    PROVE  /\ DOMAIN Addresses(given) = 1 .. n
           /\ \A k \in 1 .. n : /\ Addresses(given)[k] = NumberOf(given, k)
                                /\ Addresses(given)[k] \in Nat
                                /\ given[k] # NotGiven => Addresses(given)[k] = given[k]
<1> DEFINE g == CHOOSE g : IsCounted(g, "numbers", given, 0, n)
<1>1. Addresses(given) = [k \in 1 .. n |-> g[k]]
    BY DEF Addresses, IsCounted, OneMore
<1>2. IsCounted(g, "numbers", given, 0, n)
    BY CountExists
<1> HIDE DEF g
<1>3. g[0] = 0
    BY <1>2 DEF IsCounted
<1>4. \A k \in 1 .. n : g[k] = IF given[k] # NotGiven THEN given[k] ELSE g[k - 1] + 1
    <2>1. \A k \in 1 .. n : k \in 0 .. n /\ k # 0
        OBVIOUS
    <2> QED
        BY <1>2, <2>1 DEF IsCounted, OneMore
<1> DEFINE T == {k \in 0 .. n : g[k] \in Nat /\ g[k] = NumberOf(given, k)}
<1>5. 0 \in T
    <2>1. {i \in 1 .. 0 : given[i] # NotGiven} = {}
        OBVIOUS
    <2> QED
        BY <1>3, <2>1 DEF NumberOf
<1>6. ASSUME NEW k \in 0 .. n - 1, k \in T PROVE k + 1 \in T
    <2> DEFINE before == {i \in 1 .. k : given[i] # NotGiven}
               known == {i \in 1 .. k + 1 : given[i] # NotGiven}
    <2>1. k + 1 \in 1 .. n /\ k + 1 \in 0 .. n /\ k \in Nat /\ (k + 1) - 1 = k
        OBVIOUS
    <2>2. g[k + 1] = IF given[k + 1] # NotGiven THEN given[k + 1] ELSE g[k] + 1
        BY <1>4, <2>1
    <2>3. g[k] \in Nat /\ g[k] = NumberOf(given, k) /\ given[k + 1] \in Nat
        BY <1>6, <2>1
    <2>4. NumberOf(given, k + 1) =
              IF known = {} THEN k + 1 ELSE given[Max(known)] + (k + 1) - Max(known)
        BY DEF NumberOf
    <2>5. NumberOf(given, k) = IF before = {} THEN k ELSE given[Max(before)] + k - Max(before)
        BY DEF NumberOf
    <2>6. CASE given[k + 1] # NotGiven
        <3>1. k + 1 \in known /\ known \in SUBSET (0 .. k + 1)
            BY <2>1, <2>6
        <3>4. \A i \in known : i \in 1 .. k + 1
            OBVIOUS
        <3>5. known # {} /\ k + 1 \in Nat
            BY <2>1, <3>1
        <3> HIDE DEF known
        <3>2. Max(known) \in known /\ Max(known) >= k + 1
            BY <3>1, <3>5, MaxIsGreatest
        <3>3. Max(known) = k + 1
            BY <2>1, <3>2, <3>4
        <3> QED
            BY <2>1, <2>2, <2>3, <2>4, <2>6, <3>1, <3>3
    <2>7. CASE given[k + 1] = NotGiven
        <3>1. known = before
            <4>1. \A i \in 1 .. k + 1 : i = k + 1 \/ i \in 1 .. k
                BY <2>1
            <4> QED
                BY <2>7, <4>1
        <3>2. before \in SUBSET (0 .. k)
            OBVIOUS
        <3>3. ASSUME before # {} PROVE Max(before) \in Nat /\ given[Max(before)] \in Nat
            <4>1. Max(before) \in before
                BY <2>1, <3>2, <3>3, MaxIsGreatest
            <4> QED
                BY <2>1, <4>1
        <3> HIDE DEF known, before
        <3>4. g[k + 1] = NumberOf(given, k) + 1
            BY <2>2, <2>3, <2>7
        <3>5. CASE before = {}
            BY <2>1, <2>2, <2>3, <2>4, <2>5, <2>7, <3>1, <3>4, <3>5
        <3>6. CASE before # {}
            <4> DEFINE m == Max(before)
                       value == given[m]
            <4>1. m \in Nat /\ value \in Nat
                BY <3>3, <3>6
            <4>2. NumberOf(given, k) = value + k - m
                BY <2>5, <3>6
            <4>3. NumberOf(given, k + 1) = value + (k + 1) - m
                BY <2>4, <3>1, <3>6
            <4> HIDE DEF value, m
            <4>4. value + (k + 1) - m = (value + k - m) + 1
                BY <2>1, <4>1
            <4>5. g[k + 1] \in Nat
                BY <2>2, <2>3, <2>7
            <4> QED
                BY <2>1, <3>4, <4>2, <4>3, <4>4, <4>5
        <3> QED
            BY <3>5, <3>6
    <2> QED
        BY <2>6, <2>7
<1> HIDE DEF T
<1>7. 0 .. n \subseteq T
    BY <1>5, <1>6, Upwards
<1>8. ASSUME NEW k \in 1 .. n
      PROVE  /\ Addresses(given)[k] = NumberOf(given, k)
             /\ Addresses(given)[k] \in Nat
             /\ given[k] # NotGiven => Addresses(given)[k] = given[k]
    <2>1. k \in T
        BY <1>7
    <2> QED
        BY <1>1, <1>4, <2>1 DEF T
<1> QED
    BY <1>1, <1>8

LEMMA RowsNumbered ==
    ASSUME NEW sheet \in Sheets
    PROVE  LET given == [k \in DOMAIN sheet.rows |-> sheet.rows[k].number]
           IN  /\ Len(sheet.rows) \in Nat /\ DOMAIN sheet.rows = 1 .. Len(sheet.rows)
               /\ DOMAIN RowNumbers(sheet) = DOMAIN sheet.rows
               /\ \A k \in DOMAIN sheet.rows :
                     /\ sheet.rows[k] \in XlsxRows
                     /\ RowNumbers(sheet)[k] = NumberOf(given, k)
                     /\ RowNumbers(sheet)[k] \in Nat
<1> DEFINE n == Len(sheet.rows)
           given == [k \in DOMAIN sheet.rows |-> sheet.rows[k].number]
<1>1. sheet.rows \in Seq(XlsxRows)
    BY DEF Sheets
<1>2. n \in Nat /\ DOMAIN sheet.rows = 1 .. n /\ \A k \in 1 .. n : sheet.rows[k] \in XlsxRows
    BY <1>1, LenProperties, ElementOfSeq
<1>3. DOMAIN given = 1 .. n /\ \A k \in 1 .. n : given[k] \in Nat
    BY <1>2 DEF XlsxRows
<1>4. RowNumbers(sheet) = Addresses(given)
    BY DEF RowNumbers
<1>5. given = [k \in 1 .. n |-> given[k]]
    BY <1>2
<1> HIDE DEF given, n
<1>6. Len(given) = n
    BY <1>2, <1>3, <1>5, FunctionIsSeq
<1>7. /\ DOMAIN Addresses(given) = 1 .. n
      /\ \A k \in 1 .. n : /\ Addresses(given)[k] = NumberOf(given, k)
                           /\ Addresses(given)[k] \in Nat
    BY <1>2, <1>3, <1>6, AddressesNumbered
<1> QED
    BY <1>2, <1>4, <1>7 DEF given, n

LEMMA ColumnsNumbered ==
    ASSUME NEW row \in XlsxRows
    PROVE  LET given == [k \in DOMAIN row.cells |-> row.cells[k].column]
           IN  /\ Len(row.cells) \in Nat /\ DOMAIN row.cells = 1 .. Len(row.cells)
               /\ DOMAIN ColumnNumbers(row) = DOMAIN row.cells
               /\ \A k \in DOMAIN row.cells :
                     /\ row.cells[k] \in XlsxCells
                     /\ ColumnNumbers(row)[k] = NumberOf(given, k)
                     /\ ColumnNumbers(row)[k] \in Nat
<1> DEFINE n == Len(row.cells)
           given == [k \in DOMAIN row.cells |-> row.cells[k].column]
<1>1. row.cells \in Seq(XlsxCells)
    BY DEF XlsxRows
<1>2. n \in Nat /\ DOMAIN row.cells = 1 .. n /\ \A k \in 1 .. n : row.cells[k] \in XlsxCells
    BY <1>1, LenProperties, ElementOfSeq
<1>3. DOMAIN given = 1 .. n /\ \A k \in 1 .. n : given[k] \in Nat
    BY <1>2 DEF XlsxCells
<1>4. ColumnNumbers(row) = Addresses(given)
    BY DEF ColumnNumbers
<1>5. given = [k \in 1 .. n |-> given[k]]
    BY <1>2
<1> HIDE DEF given, n
<1>6. Len(given) = n
    BY <1>2, <1>3, <1>5, FunctionIsSeq
<1>7. /\ DOMAIN Addresses(given) = 1 .. n
      /\ \A k \in 1 .. n : /\ Addresses(given)[k] = NumberOf(given, k)
                           /\ Addresses(given)[k] \in Nat
    BY <1>2, <1>3, <1>6, AddressesNumbered
<1> QED
    BY <1>2, <1>4, <1>7 DEF given, n

\* The cells of a sheet are finitely many, each in a row and a column.
LEMMA AllCellsTyped ==
    ASSUME NEW sheet \in Sheets
    PROVE  /\ IsFiniteSet(AllCells(sheet))
           /\ \A c \in AllCells(sheet) :
                 /\ c.place \in Nat \X Nat /\ c.cell \in XlsxCells
                 /\ c.place[1] \in ToSet(RowNumbers(sheet))
<1> DEFINE rows == sheet.rows
           numbers == RowNumbers(sheet)
           columns(k) == ColumnNumbers(rows[k])
           cell(k, j) == [place |-> <<numbers[k], columns(k)[j]>>, cell |-> rows[k].cells[j]]
           inRow(k) == {cell(k, j) : j \in DOMAIN rows[k].cells}
           sets == {inRow(k) : k \in DOMAIN rows}
<1>1. AllCells(sheet) = UNION sets
    BY DEF AllCells
<1>2. /\ Len(rows) \in Nat /\ DOMAIN rows = 1 .. Len(rows) /\ DOMAIN numbers = DOMAIN rows
      /\ \A k \in DOMAIN rows : rows[k] \in XlsxRows /\ numbers[k] \in Nat
    BY RowsNumbered
<1> HIDE DEF rows, numbers
<1>3. ASSUME NEW k \in DOMAIN rows
      PROVE  /\ Len(rows[k].cells) \in Nat /\ DOMAIN rows[k].cells = 1 .. Len(rows[k].cells)
             /\ \A j \in DOMAIN rows[k].cells :
                   rows[k].cells[j] \in XlsxCells /\ columns(k)[j] \in Nat
    BY <1>2, ColumnsNumbered
<1>4. \A k \in DOMAIN rows : \A j \in DOMAIN rows[k].cells :
          /\ cell(k, j).place \in Nat \X Nat /\ cell(k, j).cell \in XlsxCells
          /\ cell(k, j).place[1] \in ToSet(numbers)
    BY <1>2, <1>3 DEF ToSet
<1> HIDE DEF cell
<1>5. ASSUME NEW k \in DOMAIN rows PROVE IsFiniteSet(inRow(k))
    <2> DEFINE f == [j \in DOMAIN rows[k].cells |-> cell(k, j)]
               S == inRow(k)
    <2>1. f \in Surjection(DOMAIN rows[k].cells, S)
        BY DEF Surjection
    <2>2. IsFiniteSet(DOMAIN rows[k].cells)
        BY <1>3, FS_Interval
    <2> HIDE DEF f, S
    <2>3. IsFiniteSet(S)
        BY <2>1, <2>2, FS_Surjection
    <2> QED
        BY <2>3 DEF S
<1>6. IsFiniteSet(sets)
    <2> DEFINE f == [k \in DOMAIN rows |-> inRow(k)]
    <2>1. f \in Surjection(DOMAIN rows, sets)
        BY DEF Surjection
    <2>2. IsFiniteSet(DOMAIN rows)
        BY <1>2, FS_Interval
    <2> HIDE DEF f, sets
    <2> QED
        BY <2>1, <2>2, FS_Surjection
<1>7. \A T \in sets : IsFiniteSet(T)
    BY <1>5
<1>8. \A c \in UNION sets : \E k \in DOMAIN rows : \E j \in DOMAIN rows[k].cells : c = cell(k, j)
    OBVIOUS
<1> HIDE DEF sets
<1>9. IsFiniteSet(UNION sets)
    BY <1>6, <1>7, FS_UNION
<1> QED
    BY <1>1, <1>4, <1>8, <1>9 DEF numbers

\* A cell that is kept is one of the sheet, and no merged range continues into it.
LEMMA CellsOfTyped ==
    ASSUME NEW sheet \in Sheets
    PROVE  /\ IsFiniteSet(DOMAIN CellsOf(sheet))
           /\ \A place \in DOMAIN CellsOf(sheet) :
                 /\ place \in Nat \X Nat
                 /\ place[1] \in ToSet(RowNumbers(sheet))
                 /\ CellsOf(sheet)[place] \in XlsxCells
                 /\ \E c \in AllCells(sheet) : c.place = place /\ c.cell = CellsOf(sheet)[place]
                 /\ place \notin Continuations(sheet)
           /\ \A c \in AllCells(sheet) :
                 c.place \notin Continuations(sheet) => c.place \in DOMAIN CellsOf(sheet)
<1> DEFINE all == AllCells(sheet)
           cells == {c \in all : c.place \notin Continuations(sheet)}
           places == {c.place : c \in cells}
<1>1. /\ IsFiniteSet(all)
      /\ \A c \in all : /\ c.place \in Nat \X Nat /\ c.cell \in XlsxCells
                        /\ c.place[1] \in ToSet(RowNumbers(sheet))
    BY AllCellsTyped
<1>2. CellsOf(sheet) = [place \in places |-> (CHOOSE c \in cells : c.place = place).cell]
    BY DEF CellsOf
<1> HIDE DEF all
<1>3. IsFiniteSet(places)
    <2> DEFINE f == [c \in cells |-> c.place]
    <2>1. f \in Surjection(cells, places)
        BY DEF Surjection
    <2>2. IsFiniteSet(cells)
        BY <1>1, FS_Subset
    <2> HIDE DEF f, cells, places
    <2> QED
        BY <2>1, <2>2, FS_Surjection
<1>4. ASSUME NEW place \in places
      PROVE  \E c \in cells : c.place = place /\ c.cell = CellsOf(sheet)[place]
    <2> DEFINE chosen == CHOOSE c \in cells : c.place = place
    <2>1. \E c \in cells : c.place = place
        OBVIOUS
    <2>2. chosen \in cells /\ chosen.place = place
        BY <2>1
    <2>3. CellsOf(sheet)[place] = chosen.cell
        BY <1>2
    <2> HIDE DEF chosen
    <2> QED
        BY <2>2, <2>3
<1>5. DOMAIN CellsOf(sheet) = places
    BY <1>2
<1>6. \A c \in all : c.place \notin Continuations(sheet) => c.place \in places
    OBVIOUS
<1>7. \A c \in cells : c \in all /\ c.place \notin Continuations(sheet)
    OBVIOUS
<1> HIDE DEF cells, places
<1> QED
    BY <1>1, <1>3, <1>4, <1>5, <1>6, <1>7 DEF all

\* What is written in a row is in finitely many columns.
LEMMA PopulatedTyped ==
    ASSUME NEW sheet \in Sheets, NEW row
    PROVE  /\ IsFiniteSet(Populated(CellsOf(sheet), row))
           /\ Populated(CellsOf(sheet), row) \in SUBSET Nat
<1> DEFINE cells == CellsOf(sheet)
           some == {place \in DOMAIN cells : place[1] = row /\ cells[place].text \in Words}
           columns == {place[2] : place \in some}
           f == [place \in some |-> place[2]]
<1>1. IsFiniteSet(DOMAIN cells) /\ \A place \in DOMAIN cells : place \in Nat \X Nat
    BY CellsOfTyped
<1>2. f \in Surjection(some, columns)
    BY DEF Surjection
<1>3. IsFiniteSet(some) /\ columns \in SUBSET Nat
    BY <1>1, FS_Subset
<1>4. Populated(cells, row) = columns
    BY DEF Populated
<1> HIDE DEF f, some, columns
<1> QED
    BY <1>2, <1>3, <1>4, FS_Surjection

\* The header of a sheet is its first row with two values or more, and its
\* columns go from the first of them to the last.
LEMMA HeaderFound ==
    ASSUME NEW sheet \in Sheets, HeaderRows(sheet, CellsOf(sheet)) # {}
    PROVE  LET cells == CellsOf(sheet)
               header == Min(HeaderRows(sheet, cells))
               columns == HeaderColumns(cells, header)
           IN  /\ header \in HeaderRows(sheet, cells) /\ header \in Nat
               /\ columns # {} /\ columns \in SUBSET Nat
               /\ Cardinality(columns) \in Nat
               /\ Min(columns) \in columns
               /\ columns = Min(columns) .. Min(columns) + Cardinality(columns) - 1
               /\ columns \in SUBSET (Min(Populated(cells, header)) .. Max(Populated(cells, header)))
               /\ Min(Populated(cells, header)) \in Populated(cells, header)
               /\ Max(Populated(cells, header)) \in Populated(cells, header)
<1> DEFINE cells == CellsOf(sheet)
           headers == HeaderRows(sheet, cells)
           header == Min(headers)
           some == Populated(cells, header)
           columns == HeaderColumns(cells, header)
<1>1. headers \in SUBSET Nat
    <2>1. ToSet(RowNumbers(sheet)) \in SUBSET Nat
        BY RowsNumbered DEF ToSet
    <2> QED
        BY <2>1 DEF HeaderRows
<1>2. header \in headers /\ header \in Nat
    BY <1>1, MinIsLeast
<1>3. Cardinality(some) >= 2
    BY <1>2 DEF HeaderRows
<1> HIDE DEF header
<1>4. IsFiniteSet(some) /\ some \in SUBSET Nat
    BY PopulatedTyped
<1>5. some # {}
    BY <1>3, FS_EmptySet
<1> HIDE DEF some
<1> DEFINE low == Min(some)
           high == Max(some)
           c == Cardinality(columns)
<1>6. low \in some /\ high \in some /\ high >= low
    BY <1>4, <1>5, MinIsLeast, FiniteIsBounded, MaxIsGreatest
<1>7. columns = low .. high
    BY DEF HeaderColumns, some
<1> HIDE DEF columns, low, high
<1>8. low \in Nat /\ high \in Nat
    BY <1>4, <1>6
<1>9. c = high - low + 1 /\ c \in Nat
    <2>1. low \in Int /\ high \in Int /\ ~(low > high)
        BY <1>6, <1>8
    <2>2. Cardinality(low .. high) = high - low + 1
        BY <2>1, FS_Interval
    <2> QED
        BY <1>6, <1>7, <1>8, <2>2
<1>10. columns # {} /\ columns \in SUBSET Nat /\ low \in columns
       /\ \A k \in columns : k >= low
    BY <1>6, <1>7, <1>8
<1>11. Min(columns) \in columns /\ Min(columns) <= low
    BY <1>10, MinIsLeast
<1>12. Min(columns) = low
    <2> DEFINE least == Min(columns)
    <2>1. least \in Nat /\ least >= low /\ least <= low
        BY <1>10, <1>11
    <2> HIDE DEF least
    <2>2. least = low
        BY <1>8, <2>1
    <2> QED
        BY <2>2 DEF least
<1>13. columns = Min(columns) .. Min(columns) + c - 1
    <2>1. low + c - 1 = high
        BY <1>8, <1>9
    <2> HIDE DEF c
    <2> QED
        BY <1>7, <1>12, <2>1
<1> QED
    BY <1>2, <1>6, <1>7, <1>9, <1>10, <1>11, <1>13 DEF low, high, some, header, columns

-----------------------------------------------------------------------------
(* The elements of a document's body.                                       *)

\* Empty cells say nothing.
LEMMA EmptyCells ==
    ASSUME NEW n \in Int
    PROVE  /\ [k \in 1 .. n |-> EmptyCell] \in Seq(Letters)
           /\ Inked([k \in 1 .. n |-> EmptyCell]) = <<>>
<1> DEFINE m == IF n < 0 THEN 0 ELSE n
           cells == [k \in 1 .. m |-> EmptyCell]
<1>1. m \in Nat /\ 1 .. n = 1 .. m
    OBVIOUS
<1> HIDE DEF m
<1>2. cells = [k \in 1 .. m |-> cells[k]] /\ \A k \in 1 .. m : cells[k] = EmptyCell
    OBVIOUS
<1>3. [k \in 1 .. n |-> EmptyCell] = cells
    BY <1>1
<1> HIDE DEF cells
<1>4. cells \in Seq({Blank, EmptyCell})
    BY <1>1, <1>2, FunctionIsSeq
<1>5. cells \in Seq(Letters)
    BY <1>4, SeqGrows DEF Letters
<1> QED
    BY <1>3, <1>4, <1>5, NothingInked

LEMMA WordInked ==
    ASSUME NEW x \in Letters
    PROVE  /\ <<x>> \in Seq(Letters)
           /\ Inked(<<x>>) = IF x \in {Blank, EmptyCell} THEN <<>> ELSE <<x>>
<1>1. <<>> \in Seq(Letters) /\ Append(<<>>, x) = <<x>>
    BY EmptySeq
<1>2. Inked(Append(<<>>, x)) = IF x \in {Blank, EmptyCell} THEN Inked(<<>>) ELSE Inked(<<>>) \o <<x>>
    BY <1>1, InkedGrows, ZenonT(30)
<1>3. Inked(<<>>) = <<>> /\ <<>> \o <<x>> = <<x>>
    BY InkedOfNothing
<1> QED
    BY <1>1, <1>2, <1>3

\* The cells of a row say what they say, however many columns they span.
LEMMA RowSays ==
    ASSUME NEW row \in Seq(Cells)
    PROVE  LET own == [k \in DOMAIN row |-> CellText(row[k])]
           IN  /\ RowCells(row) \in Seq(Letters) /\ own \in Seq(Letters)
               /\ Inked(RowCells(row)) = Inked(own)
<1> DEFINE n == Len(row)
           own == [k \in DOMAIN row |-> CellText(row[k])]
           rest(k) == [i \in 1 .. row[k].span - 1 |-> EmptyCell]
           parts == [k \in DOMAIN row |-> <<CellText(row[k])>> \o rest(k)]
           V == Seq(Letters)
<1>1. n \in Nat /\ DOMAIN row = 1 .. n /\ \A k \in 1 .. n : row[k] \in Cells
    BY LenProperties, ElementOfSeq
<1>2. \A k \in 1 .. n : /\ CellText(row[k]) \in Letters
                        /\ row[k].span - 1 \in Int
    BY <1>1 DEF Cells, CellText, Letters
<1> HIDE DEF n
<1>3. own \in V
    <2>1. own = [k \in 1 .. n |-> own[k]] /\ \A k \in 1 .. n : own[k] \in Letters
        BY <1>1, <1>2
    <2> HIDE DEF own
    <2> QED
        BY <1>1, <2>1, FunctionIsSeq
<1>4. ASSUME NEW k \in 1 .. n
      PROVE  /\ parts[k] \in V
             /\ Inked(parts[k]) =
                    IF own[k] \in {Blank, EmptyCell} THEN <<>> ELSE <<own[k]>>
    <2> DEFINE first == <<CellText(row[k])>>
               more == rest(k)
    <2>1. /\ first \in Seq(Letters)
          /\ Inked(first) = IF CellText(row[k]) \in {Blank, EmptyCell} THEN <<>>
                            ELSE <<CellText(row[k])>>
        BY <1>2, WordInked
    <2>2. more \in Seq(Letters) /\ Inked(more) = <<>>
        BY <1>2, EmptyCells
    <2>3. own[k] = CellText(row[k]) /\ parts[k] = first \o more
        BY <1>1
    <2> HIDE DEF first, more, own, parts
    <2>4. Inked(first \o more) = Inked(first) \o Inked(more) /\ first \o more \in Seq(Letters)
        BY <2>1, <2>2, InkedJoined, ConcatProperties
    <2>5. Inked(first) \o <<>> = Inked(first)
        BY <2>1, InkedIsSeq, ConcatEmptySeq
    <2> QED
        BY <2>1, <2>2, <2>3, <2>4, <2>5
<1>5. parts = [k \in 1 .. n |-> parts[k]] /\ DOMAIN parts = 1 .. n
    BY <1>1
<1>6. RowCells(row) = FlattenSeq(parts)
    BY DEF RowCells
<1>7. DOMAIN own = 1 .. n
    BY <1>1
<1> HIDE DEF parts, own
<1>8. parts \in Seq(V) /\ FlattenSeq(parts) \in Seq(Letters)
    BY <1>1, <1>4, <1>5, TextsFlattened
<1>9. Inked(FlattenSeq(parts)) = FlattenSeq([k \in DOMAIN parts |-> Inked(parts[k])])
    BY <1>8, InkedFlattened
<1>10. Inked(own) =
           FlattenSeq([k \in DOMAIN own |->
               IF own[k] \in {Blank, EmptyCell} THEN <<>> ELSE <<own[k]>>])
    BY DEF Inked
<1>11. [k \in DOMAIN parts |-> Inked(parts[k])] =
           [k \in DOMAIN own |-> IF own[k] \in {Blank, EmptyCell} THEN <<>> ELSE <<own[k]>>]
    BY <1>4, <1>5, <1>7
<1> QED
    BY <1>3, <1>6, <1>8, <1>9, <1>10, <1>11 DEF own

\* A table says what its cells say, row by row.
LEMMA DocxTableSays ==
    ASSUME NEW rows \in Seq(Seq(Cells) \ {<<>>})
    PROVE  LET said == FlattenSeq([r \in DOMAIN rows |->
                           [k \in DOMAIN rows[r] |-> CellText(rows[r][k])]])
           IN  /\ DocxTable(rows) \in Seq(Letters) /\ said \in Seq(Letters)
               /\ Inked(DocxTable(rows)) = Inked(said)
<1> DEFINE n == Len(rows)
           V == Seq(Letters)
           widths == {Len(RowCells(rows[r])) : r \in DOMAIN rows}
           width == Max({0} \cup widths)
           rest(r) == [i \in 1 .. width - Len(RowCells(rows[r])) |-> EmptyCell]
           grid == [r \in DOMAIN rows |-> RowCells(rows[r]) \o rest(r)]
           own == [r \in DOMAIN rows |-> [k \in DOMAIN rows[r] |-> CellText(rows[r][k])]]
<1>1. n \in Nat /\ DOMAIN rows = 1 .. n /\ \A r \in 1 .. n : rows[r] \in Seq(Cells)
    BY LenProperties, ElementOfSeq
<1>2. DocxTable(rows) = FlattenSeq(grid)
    BY DEF DocxTable
<1>3. \A r \in 1 .. n :
          /\ RowCells(rows[r]) \in V /\ own[r] \in V
          /\ Inked(RowCells(rows[r])) = Inked(own[r])
          /\ Len(RowCells(rows[r])) \in Nat
    <2>1. ASSUME NEW r \in 1 .. n
          PROVE  /\ RowCells(rows[r]) \in V /\ own[r] \in V
                 /\ Inked(RowCells(rows[r])) = Inked(own[r])
        BY <1>1, RowSays
    <2> QED
        BY <2>1, LenProperties
<1> HIDE DEF n
<1>4. width \in Nat
    <2> DEFINE f == [r \in DOMAIN rows |-> Len(RowCells(rows[r]))]
               S == {0} \cup widths
    <2>1. f \in Surjection(DOMAIN rows, widths)
        BY DEF Surjection
    <2>2. IsFiniteSet(DOMAIN rows)
        BY <1>1, FS_Interval
    <2>3. widths \in SUBSET Nat
        BY <1>1, <1>3
    <2> HIDE DEF f, widths
    <2>4. IsFiniteSet(widths)
        BY <2>1, <2>2, FS_Surjection
    <2>5. S = widths \cup {0} /\ S \in SUBSET Nat /\ S # {}
        BY <2>3
    <2>6. IsFiniteSet(S)
        BY <2>4, <2>5, FS_AddElement
    <2> HIDE DEF S
    <2>7. Max(S) \in S
        BY <2>5, <2>6, FiniteIsBounded, MaxIsGreatest
    <2> QED
        BY <2>5, <2>7 DEF S
<1> HIDE DEF width
<1>5. ASSUME NEW r \in 1 .. n PROVE grid[r] \in V /\ Inked(grid[r]) = Inked(own[r])
    <2> DEFINE first == RowCells(rows[r])
               more == rest(r)
    <2>1. first \in V /\ width - Len(first) \in Int
        <3>1. first \in V /\ Len(first) \in Nat
            BY <1>3
        <3> HIDE DEF first
        <3> QED
            BY <1>4, <3>1
    <2>2. more \in V /\ Inked(more) = <<>>
        BY <2>1, EmptyCells
    <2>3. grid[r] = first \o more /\ Inked(first) = Inked(own[r])
        BY <1>1, <1>3
    <2> HIDE DEF first, more, grid, own
    <2>4. Inked(first \o more) = Inked(first) \o Inked(more) /\ first \o more \in V
        BY <2>1, <2>2, InkedJoined, ConcatProperties
    <2>5. Inked(first) \o <<>> = Inked(first)
        BY <2>1, InkedIsSeq, ConcatEmptySeq
    <2> QED
        BY <2>2, <2>3, <2>4, <2>5
<1>6. grid = [r \in 1 .. n |-> grid[r]] /\ own = [r \in 1 .. n |-> own[r]]
    BY <1>1
<1> HIDE DEF grid, own
<1>7. /\ grid \in Seq(V) /\ FlattenSeq(grid) \in V
      /\ own \in Seq(V) /\ FlattenSeq(own) \in V
    BY <1>1, <1>3, <1>5, <1>6, TextsFlattened
<1>8. Len(grid) = n /\ Len(own) = n
    <2>1. (\A r \in 1 .. n : grid[r] \in V) /\ (\A r \in 1 .. n : own[r] \in V)
        BY <1>3, <1>5
    <2> HIDE DEF V
    <2> QED
        BY <1>1, <1>6, <2>1, FunctionIsSeq
<1>9. Inked(FlattenSeq(grid)) = Inked(FlattenSeq(own))
    BY <1>5, <1>7, <1>8, InkedAlike
<1> QED
    BY <1>2, <1>7, <1>9 DEF own

-----------------------------------------------------------------------------
(* The pages of a PDF.                                                      *)

\* A text of words is normal as it is.
LEMMA WordsNormal ==
    ASSUME NEW t \in Seq(Words)
    PROVE  /\ Normalize(t) = t
           /\ Normalize(t) = <<>> <=> t = <<>>
<1>1. Normalize(t) \in Seq(Words) /\ Inked(Normalize(t)) = Inked(t)
    BY InkedNormalized
<1>2. Inked(Normalize(t)) = Normalize(t) /\ Inked(t) = t
    BY <1>1, WordsInked
<1> QED
    BY <1>1, <1>2

\* Where the blocks of a page start, and where the one at a line ends.
BlockStarts(lines, sizes) ==
    {k \in DOMAIN lines :
        \/ k = 1
        \/ Rounded(lines[k].size) \in sizes
        \/ Rounded(lines[k - 1].size) \in sizes
        \/ lines[k].apart}

BlockEnd(lines, sizes, k) ==
    Min({Len(lines) + 1} \cup {j \in BlockStarts(lines, sizes) : j > k}) - 1

LogicalBlock(lines, sizes, k) ==
    [text |-> [i \in 1 .. BlockEnd(lines, sizes, k) - k + 1 |-> lines[k + i - 1].word],
     size |-> Max({lines[j].size : j \in k .. BlockEnd(lines, sizes, k)})]

LineWords(lines) == [k \in DOMAIN lines |-> lines[k].word]

LEMMA LineWordsTyped ==
    ASSUME NEW lines \in Seq(PdfLines)
    PROVE  /\ LineWords(lines) \in Seq(Words) /\ Len(LineWords(lines)) = Len(lines)
           /\ Len(lines) \in Nat /\ DOMAIN lines = 1 .. Len(lines)
           /\ \A k \in 1 .. Len(lines) : lines[k] \in PdfLines /\ LineWords(lines)[k] = lines[k].word
<1> DEFINE n == Len(lines)
           words == LineWords(lines)
<1>1. n \in Nat /\ DOMAIN lines = 1 .. n /\ \A k \in 1 .. n : lines[k] \in PdfLines
    BY LenProperties, ElementOfSeq
<1>2. words = [k \in 1 .. n |-> words[k]] /\ \A k \in 1 .. n : words[k] = lines[k].word
    BY <1>1 DEF LineWords
<1>3. \A k \in 1 .. n : words[k] \in Words
    BY <1>1, <1>2 DEF PdfLines
<1> HIDE DEF words, n
<1>4. words \in Seq(Words) /\ Len(words) = n
    BY <1>1, <1>2, <1>3, FunctionIsSeq
<1> QED
    BY <1>1, <1>2, <1>4 DEF n, words

\* A block is a part of the lines; one in a heading size is a single line.
LEMMA BlockShape ==
    ASSUME NEW lines \in Seq(PdfLines), NEW sizes, NEW k \in DOMAIN lines
    PROVE  LET end == BlockEnd(lines, sizes, k)
               block == LogicalBlock(lines, sizes, k)
           IN  /\ end \in k .. Len(lines)
               /\ block.text = SubSeq(LineWords(lines), k, end)
               /\ block.text \in Seq(Words) \ {<<>>}
               /\ \A j \in BlockStarts(lines, sizes) : j > k => j > end
               /\ end < Len(lines) => end + 1 \in BlockStarts(lines, sizes)
               /\ k \in BlockStarts(lines, sizes) /\ Rounded(block.size) \in sizes =>
                      /\ end = k /\ block.size = lines[k].size
                      /\ block.text = <<lines[k].word>>
<1> DEFINE n == Len(lines)
           starts == BlockStarts(lines, sizes)
           S == {n + 1} \cup {j \in starts : j > k}
           end == Min(S) - 1
           text == [i \in 1 .. end - k + 1 |-> lines[k + i - 1].word]
           inBlock == {lines[j].size : j \in k .. end}
           size == Max(inBlock)
           words == LineWords(lines)
<1>1. /\ n \in Nat /\ DOMAIN lines = 1 .. n /\ k \in 1 .. n
      /\ words \in Seq(Words) /\ Len(words) = n
      /\ \A j \in 1 .. n : lines[j] \in PdfLines /\ words[j] = lines[j].word
    BY LineWordsTyped
<1>2. /\ BlockEnd(lines, sizes, k) = end
      /\ LogicalBlock(lines, sizes, k) = [text |-> text, size |-> size]
    BY DEF BlockEnd, LogicalBlock
<1> HIDE DEF n, words
<1>3. starts \in SUBSET (1 .. n)
    BY <1>1 DEF BlockStarts
<1> HIDE DEF starts
<1>4. n + 1 \in Nat /\ n + 1 > k /\ \A j \in starts : j \in Nat
    BY <1>1, <1>3
<1>15. S \in SUBSET Nat /\ S # {} /\ \A j \in S : j > k
    BY <1>4
<1>5. Min(S) \in S /\ \A j \in S : Min(S) <= j
    BY <1>15, MinIsLeast
<1>6. n + 1 \in S
    OBVIOUS
<1>7. \A j \in starts : j > k => j \in S
    OBVIOUS
<1>8. \A j \in S : j # n + 1 => j \in starts
    OBVIOUS
<1> HIDE DEF S
<1>9. end \in k .. n /\ end + 1 \in S /\ \A j \in S : j > end
    <2> DEFINE low == Min(S)
    <2>1. low \in Nat /\ low > k /\ low <= n + 1 /\ end = low - 1
        BY <1>5, <1>6, <1>15
    <2>2. low \in S /\ \A j \in S : low <= j /\ j \in Nat
        BY <1>5, <1>15
    <2> HIDE DEF low, end
    <2>3. end \in k .. n /\ end + 1 = low
        BY <1>1, <2>1
    <2>4. \A j \in S : j > end
        BY <1>1, <2>1, <2>2
    <2> QED
        BY <2>2, <2>3, <2>4
<1>10. end < n => end + 1 \in starts
    BY <1>1, <1>8, <1>9
<1> HIDE DEF end
<1>11. text = SubSeq(words, k, end) /\ text \in Seq(Words) /\ Len(text) = end - k + 1
    <2> DEFINE cut == SubSeq(words, k, end)
               m == end - k + 1
    <2>1. \A j \in k .. end : words[j] \in Words
        BY <1>1, <1>9, ElementOfSeq
    <2>2. k \in 1 .. n + 1 /\ end \in k - 1 .. n /\ m \in Nat /\ k <= end
        BY <1>1, <1>9
    <2>3. cut \in Seq(Words) /\ Len(cut) = m /\ \A i \in 1 .. m : cut[i] = words[k + i - 1]
        BY <1>1, <1>9, <2>1, <2>2, SubSeqProperties
    <2> HIDE DEF cut
    <2>4. \A i \in 1 .. m : k + i - 1 \in 1 .. n
        BY <1>1, <1>9
    <2>5. \A i \in 1 .. m : text[i] = cut[i]
        BY <1>1, <2>3, <2>4
    <2>6. DOMAIN cut = 1 .. m /\ cut = [i \in 1 .. m |-> cut[i]] /\ text = [i \in 1 .. m |-> text[i]]
        BY <2>3, LenProperties
    <2> HIDE DEF m, text
    <2>7. cut = text
        BY <2>5, <2>6
    <2> QED
        BY <2>3, <2>7 DEF cut, m
<1>12. text # <<>>
    <2>1. Len(text) # 0
        BY <1>1, <1>9, <1>11
    <2> HIDE DEF text
    <2> QED
        BY <1>11, <2>1, EmptySeq
<1> HIDE DEF text
<1>13. ASSUME k \in starts, Rounded(size) \in sizes
       PROVE  end = k /\ size = lines[k].size /\ text = <<lines[k].word>>
    <2>1. size \in inBlock
        <3> DEFINE f == [j \in k .. end |-> lines[j].size]
        <3>1. inBlock \in SUBSET Nat /\ inBlock # {}
            <4>1. \A j \in k .. end : lines[j].size \in Nat
                BY <1>1, <1>9 DEF PdfLines
            <4>2. k \in k .. end
                BY <1>1, <1>9
            <4> QED
                BY <4>1, <4>2
        <3>2. IsFiniteSet(k .. end)
            BY <1>1, <1>9, FS_Interval
        <3>3. f \in Surjection(k .. end, inBlock)
            BY DEF Surjection
        <3> HIDE DEF f, inBlock
        <3>4. IsFiniteSet(inBlock)
            BY <3>2, <3>3, FS_Surjection
        <3> QED
            BY <3>1, <3>4, FiniteIsBounded, MaxIsGreatest
    <2> HIDE DEF size
    <2>2. PICK j \in k .. end : lines[j].size = size
        BY <2>1
    <2>3. j \in starts
        BY <1>1, <1>9, <1>13, <2>2 DEF starts, BlockStarts
    <2>4. j = k
        BY <1>1, <1>7, <1>9, <2>2, <2>3
    <2>5. end = k
        <3>1. SUFFICES ASSUME end # k PROVE FALSE
            OBVIOUS
        <3>2. k + 1 \in 1 .. n /\ (k + 1) - 1 = k /\ k + 1 <= end /\ k + 1 > k
            BY <1>1, <1>9, <3>1
        <3>3. k + 1 \in starts
            BY <1>1, <1>13, <2>2, <2>4, <3>2 DEF starts, BlockStarts
        <3>4. k + 1 > end
            BY <1>7, <1>9, <3>2, <3>3
        <3> QED
            BY <1>1, <1>9, <3>2, <3>4
    <2>6. text = <<lines[k].word>>
        <3>1. end - k + 1 = 1 /\ k + 1 - 1 = k
            BY <1>1, <2>5
        <3>2. text = [i \in 1 .. 1 |-> lines[k + i - 1].word]
            BY <3>1 DEF text
        <3>3. \A i \in 1 .. 1 : k + i - 1 = k
            BY <1>1
        <3>4. text = [i \in 1 .. 1 |-> lines[k].word]
            BY <3>2, <3>3
        <3> QED
            BY <3>4
    <2> QED
        BY <2>2, <2>4, <2>5, <2>6
<1>14. \A j \in starts : j > k => j > end
    BY <1>7, <1>9
<1> HIDE DEF size
<1> DEFINE block == LogicalBlock(lines, sizes, k)
<1>16. block.text = text /\ block.size = size
    BY <1>2
<1> HIDE DEF block
<1>17. block.text = SubSeq(words, k, end) /\ block.text \in Seq(Words) \ {<<>>}
    BY <1>11, <1>12, <1>16
<1>18. k \in starts /\ Rounded(block.size) \in sizes =>
          end = k /\ block.size = lines[k].size /\ block.text = <<lines[k].word>>
    BY <1>13, <1>16
<1> QED
    BY <1>2, <1>9, <1>10, <1>14, <1>17, <1>18 DEF n, words, starts, block, end

\* A block of a page: words, and a single line if it is in a heading size.
IsPageBlock(block, lines, sizes) ==
    /\ block.text \in Seq(Words) \ {<<>>}
    /\ Rounded(block.size) \in sizes =>
           \E k \in DOMAIN lines :
               block.size = lines[k].size /\ block.text = <<lines[k].word>>

\* The parts that _logical_blocks puts together.
BlockParts(lines, sizes) ==
    [k \in DOMAIN lines |->
        IF k \in BlockStarts(lines, sizes) THEN <<LogicalBlock(lines, sizes, k)>> ELSE <<>>]

LEMMA BlocksFlattened ==
    ASSUME NEW lines, NEW sizes
    PROVE  LogicalBlocks(lines, sizes) = FlattenSeq(BlockParts(lines, sizes))
BY DEF LogicalBlocks, BlockParts, BlockStarts, BlockEnd, LogicalBlock

\* What one block says.
LEMMA SpokenOne ==
    ASSUME NEW L, NEW block, block.text \in Seq(L)
    PROVE  Spoken(<<block>>) = block.text
<1> DEFINE text == block.text
           said == [k \in DOMAIN <<block>> |-> <<block>>[k].text]
<1>1. DOMAIN <<block>> = 1 .. 1 /\ <<block>>[1] = block
    OBVIOUS
<1>2. said = [k \in 1 .. 1 |-> text]
    BY <1>1
<1>3. text \in Seq(L) /\ Spoken(<<block>>) = FlattenSeq(said)
    BY DEF Spoken
<1> HIDE DEF text, said
<1>4. said = <<text>>
    BY <1>2
<1>5. FlattenSeq(<<text>>) = text
    BY <1>3, FlattenedFew
<1> QED
    BY <1>3, <1>4, <1>5 DEF text

\* The blocks of a page say all of its lines, once and in order.
LEMMA PageBlocks ==
    ASSUME NEW lines \in Seq(PdfLines), NEW sizes
    PROVE  \E B : /\ LogicalBlocks(lines, sizes) \in Seq(B)
                  /\ \A block \in B : IsPageBlock(block, lines, sizes)
                  /\ Spoken(LogicalBlocks(lines, sizes)) = LineWords(lines)
<1> DEFINE n == Len(lines)
           words == LineWords(lines)
           starts == BlockStarts(lines, sizes)
           parts == BlockParts(lines, sizes)
           B == {LogicalBlock(lines, sizes, k) : k \in starts}
           next(m) == {n + 1} \cup {j \in starts : j > m}
           upTo(m) == FlattenSeq([k \in 1 .. m |-> parts[k]])
           P == {m \in 0 .. n : /\ upTo(m) \in Seq(B)
                                /\ Spoken(upTo(m)) = SubSeq(words, 1, Min(next(m)) - 1)}
<1>1. /\ n \in Nat /\ DOMAIN lines = 1 .. n
      /\ words \in Seq(Words) /\ Len(words) = n
    BY LineWordsTyped
<1>2. starts \subseteq DOMAIN lines /\ (n # 0 => 1 \in starts)
    BY <1>1 DEF BlockStarts
<1>3. \A block \in B : IsPageBlock(block, lines, sizes)
    <2> SUFFICES ASSUME NEW k \in starts
                 PROVE  IsPageBlock(LogicalBlock(lines, sizes, k), lines, sizes)
        OBVIOUS
    <2> DEFINE block == LogicalBlock(lines, sizes, k)
    <2>1. k \in DOMAIN lines
        BY <1>2
    <2>2. /\ block.text \in Seq(Words) \ {<<>>}
          /\ Rounded(block.size) \in sizes =>
                 /\ block.size = lines[k].size
                 /\ block.text = <<lines[k].word>>
        BY <2>1, BlockShape
    <2> HIDE DEF block
    <2> QED
        BY <2>1, <2>2 DEF IsPageBlock, block
<1>4. Saying(B, Words)
    BY <1>3 DEF Saying, IsPageBlock
<1>5. /\ \A k \in 1 .. n : k \in starts => parts[k] = <<LogicalBlock(lines, sizes, k)>>
      /\ \A k \in 1 .. n : k \notin starts => parts[k] = <<>>
      /\ parts = [k \in 1 .. n |-> parts[k]]
    BY <1>1 DEF BlockParts
<1>6. \A k \in 1 .. n : parts[k] \in Seq(B)
    <2>1. ASSUME NEW k \in 1 .. n PROVE parts[k] \in Seq(B)
        <3> DEFINE block == LogicalBlock(lines, sizes, k)
        <3>1. CASE k \in starts
            <4>1. block \in B
                BY <3>1
            <4>2. parts[k] = <<block>>
                BY <1>5, <3>1
            <4> HIDE DEF B, block
            <4> QED
                BY <4>1, <4>2
        <3>2. CASE k \notin starts
            <4>1. parts[k] = <<>>
                BY <1>5, <3>2
            <4> QED
                BY <4>1, EmptySeq
        <3> QED
            BY <3>1, <3>2
    <2> QED
        BY <2>1
<1>7. \A k \in starts : /\ LogicalBlock(lines, sizes, k) \in B
                        /\ LogicalBlock(lines, sizes, k).text =
                               SubSeq(words, k, Min(next(k)) - 1)
                        /\ Min(next(k)) - 1 \in k .. n
    <2> SUFFICES ASSUME NEW k \in starts
                 PROVE  /\ LogicalBlock(lines, sizes, k) \in B
                        /\ LogicalBlock(lines, sizes, k).text =
                               SubSeq(words, k, Min(next(k)) - 1)
                        /\ Min(next(k)) - 1 \in k .. n
        OBVIOUS
    <2>1. k \in DOMAIN lines /\ BlockEnd(lines, sizes, k) = Min(next(k)) - 1
        BY <1>2 DEF BlockEnd
    <2> HIDE DEF next
    <2> QED
        BY <2>1, BlockShape
<1>8. LogicalBlocks(lines, sizes) = upTo(n)
    BY <1>5, BlocksFlattened
<1> HIDE DEF B, parts, n, words, starts
<1>9. \A m \in 0 .. n : /\ [k \in 1 .. m |-> parts[k]] \in Seq(Seq(B))
                        /\ (m # n => [k \in 1 .. m + 1 |-> parts[k]] =
                                         Append([k \in 1 .. m |-> parts[k]], parts[m + 1]))
    <2> SUFFICES ASSUME NEW m \in 0 .. n
                 PROVE  /\ [k \in 1 .. m |-> parts[k]] \in Seq(Seq(B))
                        /\ (m # n => [k \in 1 .. m + 1 |-> parts[k]] =
                                         Append([k \in 1 .. m |-> parts[k]], parts[m + 1]))
        OBVIOUS
    <2> DEFINE before == [k \in 1 .. m |-> parts[k]]
    <2>1. m \in Nat /\ before = [k \in 1 .. m |-> before[k]]
          /\ (\A k \in 1 .. m : before[k] = parts[k] /\ k \in 1 .. n)
        BY <1>1
    <2> HIDE DEF before
    <2>2. before \in Seq(Seq(B)) /\ Len(before) = m
        BY <1>6, <2>1, FunctionIsSeq
    <2>3. ASSUME m # n PROVE [k \in 1 .. m + 1 |-> parts[k]] = Append(before, parts[m + 1])
        <3> DEFINE more == Append(before, parts[m + 1])
                   all == [k \in 1 .. m + 1 |-> parts[k]]
        <3>1. DOMAIN more = 1 .. m + 1 /\ more[m + 1] = parts[m + 1]
              /\ \A k \in 1 .. m : more[k] = before[k]
            BY <2>1, <2>2, <2>3, <1>1, <1>6, AppendProperties
        <3>2. more = [k \in 1 .. m + 1 |-> more[k]]
            BY <2>1, <2>2, <3>1
        <3>3. \A k \in 1 .. m + 1 : more[k] = parts[k]
            BY <2>1, <3>1
        <3> HIDE DEF more
        <3> QED
            BY <3>2, <3>3 DEF more
    <2> QED
        BY <2>2, <2>3 DEF before
<1>10. 0 \in P
    <2>1. [k \in 1 .. 0 |-> parts[k]] = <<>>
        OBVIOUS
    <2>2. upTo(0) = <<>>
        BY <2>1, FlattenedFew, EmptySeq
    <2>3. <<>> \in Seq(B)
        BY EmptySeq
    <2>4. Spoken(<<>>) = <<>>
        <3>1. [k \in DOMAIN <<>> |-> <<>>[k].text] = <<>>
            OBVIOUS
        <3>2. FlattenSeq(<<>>) = <<>>
            BY FlattenedFew, EmptySeq
        <3> QED
            BY <3>1, <3>2 DEF Spoken
    <2>5. next(0) \in SUBSET Nat /\ next(0) # {} /\ (\A j \in next(0) : j >= 1) /\ 1 \in next(0)
        BY <1>1, <1>2
    <2> DEFINE low == Min(next(0))
    <2>6. low \in next(0) /\ \A j \in next(0) : low <= j
        BY <2>5, MinIsLeast
    <2> HIDE DEF next, low
    <2>7. low = 1
        BY <2>5, <2>6
    <2>8. SubSeq(words, 1, 0) = <<>>
        BY <1>1, SubSeqEmpty
    <2>9. low - 1 = 0 /\ 0 \in 0 .. n
        BY <1>1, <2>7
    <2> HIDE DEF upTo
    <2>10. Spoken(upTo(0)) = SubSeq(words, 1, low - 1) /\ upTo(0) \in Seq(B)
        BY <2>2, <2>3, <2>4, <2>8, <2>9
    <2> QED
        BY <2>9, <2>10 DEF low
<1>11. ASSUME NEW m \in 0 .. n - 1, m \in P PROVE m + 1 \in P
    <2> DEFINE before == [k \in 1 .. m |-> parts[k]]
    <2>1. m \in 0 .. n /\ m # n /\ m + 1 \in 1 .. n /\ m + 1 \in 0 .. n /\ m \in Nat
        BY <1>1
    <2>2. /\ before \in Seq(Seq(B)) /\ [k \in 1 .. m + 1 |-> parts[k]] = Append(before, parts[m + 1])
          /\ parts[m + 1] \in Seq(B)
        BY <1>6, <1>9, <2>1
    <2>3. upTo(m + 1) = upTo(m) \o parts[m + 1]
        BY <2>2, FlattenedGrows
    <2>4. upTo(m) \in Seq(B) /\ Spoken(upTo(m)) = SubSeq(words, 1, Min(next(m)) - 1)
        BY <1>11
    <2>5. /\ upTo(m + 1) \in Seq(B)
          /\ Spoken(upTo(m + 1)) = Spoken(upTo(m)) \o Spoken(parts[m + 1])
        <3> DEFINE so == upTo(m)
                   last == parts[m + 1]
        <3>1. so \in Seq(B) /\ last \in Seq(B) /\ upTo(m + 1) = so \o last
            BY <2>2, <2>3, <2>4
        <3> HIDE DEF so, last
        <3>2. so \o last \in Seq(B) /\ Spoken(so \o last) = Spoken(so) \o Spoken(last)
            BY <1>4, <3>1, ConcatProperties, SpokenJoined
        <3> QED
            BY <3>1, <3>2 DEF so, last
    <2>6. CASE m + 1 \in starts
        <3> DEFINE block == LogicalBlock(lines, sizes, m + 1)
                   end == Min(next(m + 1)) - 1
                   low == Min(next(m))
        <3>1. block \in B /\ block.text = SubSeq(words, m + 1, end) /\ end \in m + 1 .. n
            BY <1>7, <2>6
        <3>2. parts[m + 1] = <<block>>
            BY <1>5, <2>1, <2>6
        <3>3. low = m + 1
            <4>1. /\ next(m) \in SUBSET Nat /\ next(m) # {} /\ (\A j \in next(m) : j > m)
                  /\ m + 1 \in next(m)
                <5>1. n + 1 \in Nat /\ n + 1 > m /\ m + 1 > m
                    BY <1>1, <2>1
                <5>2. \A j \in starts : j \in Nat
                    BY <1>1, <1>2
                <5> QED
                    BY <2>6, <5>1, <5>2
            <4>2. low \in next(m) /\ \A j \in next(m) : low <= j
                BY <4>1, MinIsLeast
            <4> HIDE DEF low, next
            <4> QED
                BY <2>1, <4>1, <4>2
        <3> HIDE DEF low, next, upTo, block
        <3>4. Spoken(<<block>>) = block.text
            <4>1. \A b \in B : b.text \in Seq(Words)
                BY <1>4 DEF Saying
            <4>2. block.text \in Seq(Words)
                BY <3>1, <4>1
            <4> QED
                BY <4>2, SpokenOne
        <3>5. Spoken(upTo(m)) = SubSeq(words, 1, m)
            BY <2>1, <2>4, <3>3 DEF low
        <3> HIDE DEF end
        <3>6. SubSeq(words, 1, m) \o SubSeq(words, m + 1, end) = SubSeq(words, 1, end)
            BY <1>1, <2>1, <3>1, ConcatAdjacentSubSeq
        <3>7. Spoken(upTo(m + 1)) = SubSeq(words, 1, end)
            BY <2>5, <3>1, <3>2, <3>4, <3>5, <3>6
        <3> QED
            BY <2>1, <2>5, <3>7 DEF end
    <2>7. CASE m + 1 \notin starts
        <3>1. next(m) = next(m + 1)
            BY <1>1, <1>2, <2>1, <2>7
        <3>2. parts[m + 1] = <<>>
            BY <1>5, <2>1, <2>7
        <3> HIDE DEF next, upTo
        <3>3. upTo(m + 1) = upTo(m)
            BY <2>3, <2>4, <3>2, ConcatEmptySeq
        <3> QED
            BY <2>1, <2>4, <3>1, <3>3
    <2> QED
        BY <2>6, <2>7
<1> HIDE DEF P
<1>12. 0 .. n \subseteq P
    BY <1>1, <1>10, <1>11, Upwards
<1>13. n \in P
    BY <1>1, <1>12
<1>14. upTo(n) \in Seq(B) /\ Spoken(upTo(n)) = SubSeq(words, 1, Min(next(n)) - 1)
    BY <1>13 DEF P
<1>15. Min(next(n)) - 1 = n
    <2> DEFINE low == Min(next(n))
    <2>1. next(n) = {n + 1}
        BY <1>1, <1>2
    <2>2. {n + 1} \in SUBSET Nat
        BY <1>1
    <2>3. low \in {n + 1}
        BY <2>1, <2>2, MinIsLeast
    <2> HIDE DEF low
    <2>4. low - 1 = n
        BY <1>1, <2>3
    <2> QED
        BY <2>4 DEF low
<1>16. SubSeq(words, 1, n) = words
    BY <1>1, SubSeqFull
<1> HIDE DEF upTo, next
<1> QED
    BY <1>3, <1>8, <1>14, <1>15, <1>16 DEF words

-----------------------------------------------------------------------------
(* What each element of a sequence gives, one after the other.              *)

Gathered(f, s) == FlattenSeq(Mapped(f, s))

Gives(f, S, R) == f \in [S -> Seq(R)]

LEMMA GatheredGrows ==
    ASSUME NEW S, NEW R, NEW f, Gives(f, S, R), NEW s \in Seq(S), NEW x \in S
    PROVE  /\ Gathered(f, <<>>) = <<>>
           /\ Gathered(f, s) \in Seq(R)
           /\ Gathered(f, Append(s, x)) = Gathered(f, s) \o f[x]
<1>1. \A y \in S : f[y] \in Seq(R)
    BY DEF Gives
<1>2. Mapped(f, s) \in Seq(Seq(R))
    BY <1>1, MappedIsSeq
<1>3. Mapped(f, Append(s, x)) = Append(Mapped(f, s), f[x])
    BY MappedAppend
<1>4. Mapped(f, <<>>) = <<>>
    BY DEF Mapped
<1>5. FlattenSeq(<<>>) = <<>>
    BY FlattenedFew, EmptySeq
<1>6. FlattenSeq(Mapped(f, s)) \in Seq(R)
    BY <1>2, FlattenedIsSeq
<1> DEFINE ss == Mapped(f, s)
           t == f[x]
<1>7. ss \in Seq(Seq(R)) /\ t \in Seq(R)
    BY <1>1, <1>2
<1> HIDE DEF ss, t
<1>8. FlattenSeq(Append(ss, t)) = FlattenSeq(ss) \o t
    BY <1>7, FlattenedGrows
<1> QED
    BY <1>3, <1>4, <1>5, <1>6, <1>8 DEF Gathered, ss, t

LEMMA GatheredIsSeq ==
    ASSUME NEW S, NEW R, NEW f, Gives(f, S, R), NEW s \in Seq(S)
    PROVE  Gathered(f, s) \in Seq(R)
<1>1. \A y \in S : f[y] \in Seq(R)
    BY DEF Gives
<1>2. Mapped(f, s) \in Seq(Seq(R))
    BY <1>1, MappedIsSeq
<1>3. FlattenSeq(Mapped(f, s)) \in Seq(R)
    BY <1>2, FlattenedIsSeq
<1> QED
    BY <1>3 DEF Gathered

LEMMA GatheredJoined ==
    ASSUME NEW S, NEW R, NEW f, Gives(f, S, R), NEW s \in Seq(S), NEW t \in Seq(S)
    PROVE  Gathered(f, s \o t) = Gathered(f, s) \o Gathered(f, t)
<1>1. \A y \in S : f[y] \in Seq(R)
    BY DEF Gives
<1>2. Mapped(f, s) \in Seq(Seq(R)) /\ Mapped(f, t) \in Seq(Seq(R))
    BY <1>1, MappedIsSeq
<1>3. Mapped(f, s \o t) = Mapped(f, s) \o Mapped(f, t)
    BY MappedJoined
<1> DEFINE ss == Mapped(f, s)
           tt == Mapped(f, t)
<1>4. ss \in Seq(Seq(R)) /\ tt \in Seq(Seq(R))
    BY <1>2
<1> HIDE DEF ss, tt
<1>5. FlattenSeq(ss \o tt) = FlattenSeq(ss) \o FlattenSeq(tt)
    BY <1>4, FlattenedJoined
<1> QED
    BY <1>3, <1>5 DEF Gathered, ss, tt

\* What sequences give that were put one after the other.
GatheredEach(f, ss) == [k \in DOMAIN ss |-> Gathered(f, ss[k])]

LEMMA GatheredFlattened ==
    ASSUME NEW S, NEW R, NEW f, Gives(f, S, R), NEW ss \in Seq(Seq(S))
    PROVE  Gathered(f, FlattenSeq(ss)) = FlattenSeq(GatheredEach(f, ss))
<1> DEFINE g == [s \in Seq(S) |-> Gathered(f, s)]
           T == {tt \in Seq(Seq(S)) : Gathered(f, FlattenSeq(tt)) = Gathered(g, tt)}
<1>1. Gives(g, Seq(S), R)
    BY GatheredIsSeq DEF Gives
<1>2. \A s \in Seq(S) : g[s] = Gathered(f, s)
    OBVIOUS
<1> HIDE DEF g
<1>3. <<>> \in T
    <2>1. FlattenSeq(<<>>) = <<>>
        BY FlattenedFew, EmptySeq
    <2>2. Mapped(f, <<>>) = <<>> /\ Mapped(g, <<>>) = <<>>
        BY DEF Mapped
    <2>3. <<>> \in Seq(Seq(S))
        BY EmptySeq
    <2> QED
        BY <2>1, <2>2, <2>3 DEF Gathered
<1>4. ASSUME NEW tt \in Seq(Seq(S)), NEW s \in Seq(S), tt \in T PROVE Append(tt, s) \in T
    <2>1. FlattenSeq(Append(tt, s)) = FlattenSeq(tt) \o s /\ FlattenSeq(tt) \in Seq(S)
        BY FlattenedGrows, FlattenedIsSeq
    <2> DEFINE flat == FlattenSeq(tt)
    <2>2. flat \in Seq(S) /\ Gathered(f, flat) = Gathered(g, tt)
        BY <1>4, <2>1
    <2> HIDE DEF flat
    <2>3. Gathered(f, flat \o s) = Gathered(f, flat) \o Gathered(f, s)
        BY <2>2, GatheredJoined
    <2>4. Gathered(g, Append(tt, s)) = Gathered(g, tt) \o g[s]
        BY <1>1, GatheredGrows
    <2>5. Append(tt, s) \in Seq(Seq(S))
        BY AppendProperties
    <2> QED
        BY <1>2, <2>1, <2>2, <2>3, <2>4, <2>5 DEF flat
<1> HIDE DEF T
<1>5. ss \in T
    BY <1>3, <1>4, SeqUpwards
<1>6. Mapped(g, ss) = GatheredEach(f, ss)
    <2>1. DOMAIN ss = 1 .. Len(ss) /\ \A k \in 1 .. Len(ss) : ss[k] \in Seq(S)
        BY LenProperties, ElementOfSeq
    <2> QED
        BY <1>2, <2>1 DEF Mapped, GatheredEach
<1> QED
    BY <1>5, <1>6 DEF T, Gathered

-----------------------------------------------------------------------------
(* Calls that become blocks as they are.                                    *)

\* The block has the type, the text and the place of the call.
IsMade(block, call) ==
    block.type = call.type /\ block.text = call.text /\ block.locator = call.at

\* After the old blocks there is one for each of the first calls.
Become(old, blocks, calls, count) ==
    /\ Len(blocks) = Len(old) + count
    /\ \A i \in 1 .. Len(old) : blocks[i] = old[i]
    /\ \A i \in 1 .. count : IsMade(blocks[Len(old) + i], calls[i])

\* The call has a text that Normalize leaves as it is.
IsClean(call) == Normalize(call.text) = call.text /\ call.text # <<>>

\* A line in a heading size is a block by itself.
LEMMA LargeLine ==
    ASSUME NEW lines \in Seq(PdfLines), NEW sizes, NEW k \in DOMAIN lines,
           Rounded(lines[k].size) \in sizes
    PROVE  /\ k \in BlockStarts(lines, sizes)
           /\ Rounded(LogicalBlock(lines, sizes, k).size) \in sizes
<1> DEFINE n == Len(lines)
           starts == BlockStarts(lines, sizes)
           end == BlockEnd(lines, sizes, k)
           size == Max({lines[j].size : j \in k .. end})
<1>1. /\ n \in Nat /\ DOMAIN lines = 1 .. n /\ k \in 1 .. n /\ lines[k].size \in Nat
    BY LineWordsTyped DEF PdfLines
<1>2. end \in k .. n /\ \A j \in starts : j > k => j > end
    BY BlockShape
<1>3. LogicalBlock(lines, sizes, k).size = size
    BY DEF LogicalBlock
<1>4. k \in starts
    BY DEF BlockStarts
<1> HIDE DEF n, end
<1>5. end = k
    <2>1. SUFFICES ASSUME end # k PROVE FALSE
        OBVIOUS
    <2>2. k + 1 \in 1 .. n /\ (k + 1) - 1 = k /\ k + 1 <= end /\ k + 1 > k
        BY <1>1, <1>2, <2>1
    <2>3. k + 1 \in starts
        BY <1>1, <2>2 DEF BlockStarts
    <2> HIDE DEF starts
    <2>4. k + 1 > end
        BY <1>2, <2>2, <2>3
    <2> QED
        BY <1>1, <1>2, <2>2, <2>4
<1> DEFINE S == {lines[j].size : j \in k .. end}
           top == lines[k].size
<1>6. S = {top}
    <2>1. k .. end = {k}
        BY <1>1, <1>5
    <2> QED
        BY <2>1
<1>7. top \in Nat /\ Rounded(top) \in sizes
    BY <1>1
<1> HIDE DEF top
<1>8. {top} \in SUBSET (0 .. top) /\ {top} # {}
    BY <1>7
<1>9. Max({top}) \in {top}
    BY <1>7, <1>8, MaxIsGreatest
<1>10. size = top
    BY <1>6, <1>9
<1> HIDE DEF size, starts
<1> QED
    BY <1>3, <1>4, <1>7, <1>10 DEF starts

\* The text of the headings, and of the lines in a heading size.
HeadingOf(block) == IF IsHeading(block) THEN block.text ELSE <<>>

Headings(blocks) == FlattenSeq([k \in DOMAIN blocks |-> HeadingOf(blocks[k])])

LargeWord(line, sizes) == IF Rounded(line.size) \in sizes THEN <<line.word>> ELSE <<>>

LargeWords(lines, sizes) == FlattenSeq([k \in DOMAIN lines |-> LargeWord(lines[k], sizes)])

\* The blocks of a page that are in a heading size are its lines in one.
LEMMA LargeBlocks ==
    ASSUME NEW lines \in Seq(PdfLines), NEW sizes
    PROVE  LET blocks == LogicalBlocks(lines, sizes)
           IN  FlattenSeq([b \in DOMAIN blocks |->
                              IF Rounded(blocks[b].size) \in sizes THEN blocks[b].text ELSE <<>>]) =
                   LargeWords(lines, sizes)
<1> DEFINE n == Len(lines)
           starts == BlockStarts(lines, sizes)
           parts == BlockParts(lines, sizes)
           blocks == LogicalBlocks(lines, sizes)
           B == {LogicalBlock(lines, sizes, k) : k \in starts}
           f == [block \in B |-> IF Rounded(block.size) \in sizes THEN block.text ELSE <<>>]
           large == [b \in DOMAIN blocks |->
                        IF Rounded(blocks[b].size) \in sizes THEN blocks[b].text ELSE <<>>]
<1>1. n \in Nat /\ DOMAIN lines = 1 .. n /\ starts \subseteq DOMAIN lines
    BY LineWordsTyped DEF BlockStarts
<1>2. \A k \in starts : LET block == LogicalBlock(lines, sizes, k)
                        IN  /\ block \in B /\ block.text \in Seq(Words)
                            /\ Rounded(block.size) \in sizes => /\ block.text = <<lines[k].word>>
                                                       /\ block.size = lines[k].size
    <2> SUFFICES ASSUME NEW k \in starts
                 PROVE  LET block == LogicalBlock(lines, sizes, k)
                        IN  /\ block \in B /\ block.text \in Seq(Words)
                            /\ Rounded(block.size) \in sizes => /\ block.text = <<lines[k].word>>
                                                       /\ block.size = lines[k].size
        OBVIOUS
    <2>1. k \in DOMAIN lines /\ LogicalBlock(lines, sizes, k) \in B
        BY <1>1
    <2> HIDE DEF B
    <2> QED
        BY <2>1, BlockShape
<1>3. \A block \in B : block.text \in Seq(Words)
    BY <1>2
<1>4. \A block \in B : f[block] = IF Rounded(block.size) \in sizes THEN block.text ELSE <<>>
    OBVIOUS
<1>5. Gives(f, B, Words)
    <2>1. \A block \in B : f[block] \in Seq(Words)
        BY <1>3, <1>4, EmptySeq
    <2>2. f = [block \in B |-> f[block]]
        OBVIOUS
    <2> HIDE DEF f, B
    <2> QED
        BY <2>1, <2>2 DEF Gives
<1>6. /\ \A k \in 1 .. n : k \in starts => parts[k] = <<LogicalBlock(lines, sizes, k)>>
      /\ \A k \in 1 .. n : k \notin starts => parts[k] = <<>>
      /\ parts = [k \in 1 .. n |-> parts[k]]
    BY <1>1 DEF BlockParts
<1>7. blocks = FlattenSeq(parts)
    BY BlocksFlattened
<1> HIDE DEF B, f, parts, n, starts, blocks
<1>8. \A k \in 1 .. n : parts[k] \in Seq(B) /\ Gathered(f, parts[k]) = LargeWord(lines[k], sizes)
    <2> SUFFICES ASSUME NEW k \in 1 .. n
                 PROVE  parts[k] \in Seq(B) /\ Gathered(f, parts[k]) = LargeWord(lines[k], sizes)
        OBVIOUS
    <2> DEFINE block == LogicalBlock(lines, sizes, k)
               none == <<>>
    <2>1. none \in Seq(B)
        BY EmptySeq
    <2>2. CASE k \in starts
        <3>1. block \in B /\ parts[k] = <<block>>
            BY <1>2, <1>6, <2>2
        <3>2. f[block] = LargeWord(lines[k], sizes)
            <4>1. CASE Rounded(block.size) \in sizes
                <5>1. block.text = <<lines[k].word>> /\ Rounded(lines[k].size) \in sizes
                    BY <1>2, <2>2, <4>1
                <5> HIDE DEF block
                <5> QED
                    BY <1>4, <3>1, <4>1, <5>1 DEF LargeWord
            <4>2. CASE Rounded(block.size) \notin sizes
                <5>1. Rounded(lines[k].size) \notin sizes
                    BY <1>1, <4>2, LargeLine
                <5> HIDE DEF block
                <5> QED
                    BY <1>4, <3>1, <4>2, <5>1 DEF LargeWord
            <4> QED
                BY <4>1, <4>2
        <3>3. Append(none, block) = <<block>>
            OBVIOUS
        <3> HIDE DEF block, none
        <3>4. /\ Gathered(f, Append(none, block)) = Gathered(f, none) \o f[block]
              /\ Gathered(f, <<>>) = <<>>
            BY <1>5, <2>1, <3>1, GatheredGrows
        <3>5. f[block] \in Seq(Words)
            BY <1>3, <1>4, <3>1, EmptySeq
        <3>6. <<>> \o f[block] = f[block]
            BY <3>5, ConcatEmptySeq
        <3>7. <<block>> \in Seq(B)
            BY <3>1, <3>3, <2>1, AppendProperties
        <3> QED
            BY <3>1, <3>2, <3>3, <3>4, <3>6, <3>7 DEF none
    <2>3. CASE k \notin starts
        <3>1. Rounded(lines[k].size) \notin sizes
            BY <1>1, <2>3, LargeLine DEF starts
        <3>2. Gathered(f, <<>>) = <<>>
            <4>1. Mapped(f, <<>>) = <<>>
                BY DEF Mapped
            <4>2. FlattenSeq(<<>>) = <<>>
                BY FlattenedFew, EmptySeq
            <4> QED
                BY <4>1, <4>2 DEF Gathered
        <3> QED
            BY <1>6, <2>1, <2>3, <3>1, <3>2 DEF LargeWord
    <2> QED
        BY <2>2, <2>3
<1>9. parts \in Seq(Seq(B)) /\ DOMAIN parts = 1 .. n
    <2>1. \A k \in 1 .. n : parts[k] \in Seq(B)
        BY <1>8
    <2> QED
        BY <1>1, <1>6, <2>1, FunctionIsSeq
<1>10. Gathered(f, blocks) = FlattenSeq(GatheredEach(f, parts))
    <2>1. Gathered(f, FlattenSeq(parts)) = FlattenSeq(GatheredEach(f, parts))
        BY <1>5, <1>9, GatheredFlattened
    <2> QED
        BY <1>7, <2>1
<1>11. GatheredEach(f, parts) = [k \in DOMAIN lines |-> LargeWord(lines[k], sizes)]
    BY <1>1, <1>8, <1>9 DEF GatheredEach
<1>12. blocks \in Seq(B)
    BY <1>7, <1>9, FlattenedIsSeq
<1>13. large = Mapped(f, blocks)
    <2>1. \A b \in DOMAIN blocks : blocks[b] \in B
        BY <1>12, LenProperties, ElementOfSeq
    <2> QED
        BY <1>4, <2>1 DEF Mapped
<1> HIDE DEF large
<1> QED
    BY <1>10, <1>11, <1>13 DEF Gathered, LargeWords, large, blocks

PdfPages == Seq([lines : Seq(PdfLines), image : BOOLEAN])

LEMMA PagesTyped ==
    ASSUME NEW pages \in PdfPages
    PROVE  /\ DOMAIN pages = 1 .. Len(pages) /\ Len(pages) \in Nat
           /\ \A p \in DOMAIN pages : pages[p].lines \in Seq(PdfLines)
           /\ [p \in DOMAIN pages |-> pages[p].lines] \in Seq(Seq(PdfLines))
           /\ PageLines(pages) \in Seq(PdfLines)
<1> DEFINE lines == [p \in DOMAIN pages |-> pages[p].lines]
<1>1. DOMAIN pages = 1 .. Len(pages) /\ Len(pages) \in Nat
    BY LenProperties DEF PdfPages
<1>2. \A p \in DOMAIN pages : pages[p] \in [lines : Seq(PdfLines), image : BOOLEAN]
    BY <1>1, ElementOfSeq DEF PdfPages
<1>3. \A p \in DOMAIN pages : pages[p].lines \in Seq(PdfLines)
    BY <1>2
<1>4. lines = [p \in 1 .. Len(pages) |-> lines[p]]
      /\ \A p \in 1 .. Len(pages) : lines[p] \in Seq(PdfLines)
    BY <1>1, <1>3
<1> HIDE DEF lines
<1>5. lines \in Seq(Seq(PdfLines))
    BY <1>1, <1>4, FunctionIsSeq
<1>6. FlattenSeq(lines) \in Seq(PdfLines)
    BY <1>5, FlattenedIsSeq
<1> QED
    BY <1>1, <1>3, <1>5, <1>6 DEF lines, PageLines

\* What the loader hands over for a page.
PdfSizes(pages) == HeadingSizes(PageLines(pages))

PdfBlocks(pages, p) == LogicalBlocks(pages[p].lines, PdfSizes(pages))

PdfPageCalls(pages, p) ==
    [b \in DOMAIN PdfBlocks(pages, p) |->
        PdfCall(PdfBlocks(pages, p)[b], PdfSizes(pages), [page |-> p, block |-> b])]

\* The heading sizes of a PDF are finitely many, so that each has a level.
LEMMA SizesFinite ==
    ASSUME NEW lines \in Seq(PdfLines)
    PROVE  IsFiniteSet(HeadingSizes(lines))
<1> DEFINE all == {Rounded(lines[k].size) : k \in DOMAIN lines}
<1>1. DOMAIN lines = 1 .. Len(lines) /\ Len(lines) \in Nat
    BY LenProperties
<1>2. IsFiniteSet(DOMAIN lines)
    BY <1>1, FS_Interval
<1>3. [k \in DOMAIN lines |-> Rounded(lines[k].size)] \in Surjection(DOMAIN lines, all)
    BY DEF Surjection
<1>4. IsFiniteSet(all)
    BY <1>2, <1>3, FS_Surjection DEF ExistsSurjection
<1>5. HeadingSizes(lines) \subseteq all
    BY DEF HeadingSizes
<1> QED
    BY <1>4, <1>5, FS_Subset

-----------------------------------------------------------------------------
(* How much the headings of a PDF may say.                                  *)

\* The count at a place does not depend on what comes behind it.
LEMMA CountsAgree ==
    ASSUME NEW what, NEW none, NEW s, NEW t, NEW n \in Nat, NEW m \in Nat, n <= m,
           NEW g, IsCounted(g, what, s, none, n), NEW h, IsCounted(h, what, t, none, m),
           \A k \in 1 .. n : s[k] = t[k]
    PROVE  g[n] = h[n]
<1> DEFINE T == {k \in 0 .. n : g[k] = h[k]}
<1>1. \A k \in 0 .. n : /\ k \in 0 .. m
                        /\ g[k] = IF k = 0 THEN none ELSE OneMore(what, s[k], g[k - 1])
                        /\ h[k] = IF k = 0 THEN none ELSE OneMore(what, t[k], h[k - 1])
    BY DEF IsCounted
<1>2. 0 \in T
    BY <1>1
<1>3. ASSUME NEW k \in 0 .. n - 1, k \in T PROVE k + 1 \in T
    <2>1. k + 1 \in 1 .. n /\ k + 1 \in 0 .. n /\ k + 1 # 0 /\ (k + 1) - 1 = k /\ g[k] = h[k]
        BY <1>3
    <2> QED
        BY <1>1, <2>1
<1> HIDE DEF T
<1>4. 0 .. n \subseteq T
    BY <1>2, <1>3, Upwards
<1>5. n \in T
    BY <1>4
<1> QED
    BY <1>5 DEF T

LEMMA CharactersGrow ==
    ASSUME NEW text \in Seq(Words), NEW word
    PROVE  /\ Characters(<<>>) = 0
           /\ Characters(Append(text, word)) = Characters(text) + Weight[word]
<1> DEFINE counted(t) == CHOOSE g : IsCounted(g, "characters", t, 0, Len(t))
           n == Len(text)
           more == Append(text, word)
<1>1. \A t : Characters(t) = counted(t)[Len(t)]
    BY DEF Characters, IsCounted, OneMore
<1>2. n \in Nat /\ Len(more) = n + 1 /\ more[n + 1] = word /\ \A k \in 1 .. n : more[k] = text[k]
    <2>1. text \in Seq(Words \cup {word})
        BY SeqGrows
    <2> QED
        BY <2>1, LenProperties, AppendProperties
<1> HIDE DEF n, more
<1>3. /\ IsCounted(counted(text), "characters", text, 0, n)
      /\ IsCounted(counted(more), "characters", more, 0, n + 1)
    <2>1. n + 1 \in Nat
        BY <1>2
    <2> QED
        BY <1>2, <2>1, CountExists DEF n
<1>4. IsCounted(counted(<<>>), "characters", <<>>, 0, 0)
    <2>1. Len(<<>>) = 0 /\ 0 \in Nat
        OBVIOUS
    <2> QED
        BY <2>1, CountExists
<1> DEFINE g == counted(text)
           h == counted(more)
           none == counted(<<>>)
<1>5. /\ Characters(text) = g[n] /\ Characters(more) = h[n + 1] /\ Characters(<<>>) = none[0]
      /\ IsCounted(g, "characters", text, 0, n) /\ IsCounted(h, "characters", more, 0, n + 1)
      /\ IsCounted(none, "characters", <<>>, 0, 0)
    BY <1>1, <1>2, <1>3, <1>4 DEF n
<1> HIDE DEF g, h, none, counted
<1>6. none[0] = 0
    BY <1>5 DEF IsCounted
<1>7. h[n + 1] = h[n] + Weight[word]
    <2>1. n + 1 \in 0 .. n + 1 /\ n + 1 # 0 /\ (n + 1) - 1 = n
        BY <1>2
    <2>2. h[n + 1] = OneMore("characters", more[n + 1], h[n])
        BY <1>5, <2>1 DEF IsCounted
    <2> QED
        BY <1>2, <2>2 DEF OneMore
<1>8. g[n] = h[n]
    <2>1. n \in Nat /\ n + 1 \in Nat /\ n <= n + 1 /\ \A k \in 1 .. n : text[k] = more[k]
        BY <1>2
    <2> QED
        BY <1>5, <2>1, CountsAgree
<1> QED
    BY <1>5, <1>6, <1>7, <1>8 DEF more

LEMMA CharactersAreNumber ==
    ASSUME NEW text \in Seq(Words)
    PROVE  Characters(text) \in Nat
<1> DEFINE T == {t \in Seq(Words) : Characters(t) \in Nat}
<1>1. \A word \in Words : Weight[word] \in Nat
    BY PdfAssumption
<1>2. <<>> \in T
    BY CharactersGrow, EmptySeq
<1>3. ASSUME NEW t \in Seq(Words), NEW word \in Words, t \in T PROVE Append(t, word) \in T
    <2>1. Characters(Append(t, word)) = Characters(t) + Weight[word]
        BY CharactersGrow
    <2>2. Append(t, word) \in Seq(Words)
        BY AppendProperties
    <2> QED
        BY <1>1, <1>3, <2>1, <2>2
<1> HIDE DEF T
<1>4. text \in T
    BY <1>2, <1>3, SeqUpwards
<1> QED
    BY <1>4 DEF T

LEMMA CharactersJoined ==
    ASSUME NEW s \in Seq(Words), NEW t \in Seq(Words)
    PROVE  Characters(s \o t) = Characters(s) + Characters(t)
<1> DEFINE T == {u \in Seq(Words) : Characters(s \o u) = Characters(s) + Characters(u)}
<1>1. <<>> \in T
    <2>1. s \o <<>> = s /\ <<>> \in Seq(Words)
        BY ConcatEmptySeq, EmptySeq
    <2>2. Characters(<<>>) = 0 /\ Characters(s) \in Nat
        BY <2>1, CharactersGrow, CharactersAreNumber
    <2> QED
        BY <2>1, <2>2
<1>2. ASSUME NEW u \in Seq(Words), NEW word \in Words, u \in T PROVE Append(u, word) \in T
    <2> DEFINE one == <<word>>
    <2>1. /\ one \in Seq(Words) /\ Append(u, word) = u \o one
          /\ Append(s \o u, word) = (s \o u) \o one /\ s \o u \in Seq(Words)
          /\ Append(u, word) \in Seq(Words)
        BY AppendIsConcat, ConcatProperties, AppendProperties
    <2> HIDE DEF one
    <2>2. s \o (u \o one) = (s \o u) \o one
        BY <2>1, ConcatAssociative, SMTT(30)
    <2>3. /\ Characters(Append(u, word)) = Characters(u) + Weight[word]
          /\ Characters(Append(s \o u, word)) = Characters(s \o u) + Weight[word]
        BY <2>1, CharactersGrow
    <2>4. Characters(s) \in Nat /\ Characters(u) \in Nat /\ Weight[word] \in Nat
        BY CharactersAreNumber, PdfAssumption
    <2>5. Characters(s \o u) = Characters(s) + Characters(u)
        BY <1>2
    <2>6. s \o Append(u, word) = Append(s \o u, word)
        BY <2>1, <2>2
    <2>7. Characters(s \o Append(u, word)) = Characters(s) + Characters(Append(u, word))
        BY <2>3, <2>4, <2>5, <2>6
    <2> QED
        BY <2>1, <2>7
<1> HIDE DEF T
<1>3. t \in T
    BY <1>1, <1>2, SeqUpwards
<1> QED
    BY <1>3 DEF T

\* The words of the lines, those in a heading size and the lines up to a size,
\* with one line more.
LEMMA LinesGrow ==
    ASSUME NEW lines \in Seq(PdfLines), NEW line \in PdfLines, NEW sizes, NEW size
    PROVE  /\ LineWords(lines) \in Seq(Words) /\ LineWords(<<>>) = <<>>
           /\ LineWords(Append(lines, line)) = Append(LineWords(lines), line.word)
           /\ LargeWords(lines, sizes) \in Seq(Words) /\ LargeWords(<<>>, sizes) = <<>>
           /\ LargeWords(Append(lines, line), sizes) =
                  LargeWords(lines, sizes) \o LargeWord(line, sizes)
           /\ UpTo(lines, size) \in Seq(PdfLines) /\ UpTo(<<>>, size) = <<>>
           /\ UpTo(Append(lines, line), size) =
                  UpTo(lines, size) \o (IF line.size <= size THEN <<line>> ELSE <<>>)
<1> DEFINE word == [x \in PdfLines |-> x.word]
           large == [x \in PdfLines |-> LargeWord(x, sizes)]
           few == [x \in PdfLines |-> IF x.size <= size THEN <<x>> ELSE <<>>]
<1>1. \A x \in PdfLines : x.word \in Words
    BY DEF PdfLines
<1>2. Gives(large, PdfLines, Words)
    BY <1>1, EmptySeq DEF Gives, LargeWord
<1>3. Gives(few, PdfLines, PdfLines)
    BY EmptySeq DEF Gives
<1>4. \A s \in Seq(PdfLines) : /\ LineWords(s) = Mapped(word, s)
                               /\ LargeWords(s, sizes) = Gathered(large, s)
                               /\ UpTo(s, size) = Gathered(few, s)
    <2> SUFFICES ASSUME NEW s \in Seq(PdfLines)
                 PROVE  /\ LineWords(s) = Mapped(word, s)
                        /\ LargeWords(s, sizes) = Gathered(large, s)
                        /\ UpTo(s, size) = Gathered(few, s)
        OBVIOUS
    <2>1. \A k \in DOMAIN s : s[k] \in PdfLines
        BY LenProperties, ElementOfSeq
    <2> QED
        BY <2>1 DEF LineWords, LargeWords, UpTo, Gathered, Mapped
<1>5. /\ Append(lines, line) \in Seq(PdfLines) /\ <<>> \in Seq(PdfLines)
      /\ word[line] = line.word /\ large[line] = LargeWord(line, sizes)
      /\ few[line] = IF line.size <= size THEN <<line>> ELSE <<>>
    BY AppendProperties, EmptySeq
<1> HIDE DEF word, large, few
<1>6. Mapped(word, Append(lines, line)) = Append(Mapped(word, lines), word[line])
      /\ Mapped(word, <<>>) = <<>>
    <2>1. Mapped(word, <<>>) = <<>>
        BY DEF Mapped
    <2> QED
        BY <2>1, MappedAppend
<1>7. /\ Gathered(large, <<>>) = <<>> /\ Gathered(large, lines) \in Seq(Words)
      /\ Gathered(large, Append(lines, line)) = Gathered(large, lines) \o large[line]
    BY <1>2, GatheredGrows
<1>8. /\ Gathered(few, <<>>) = <<>> /\ Gathered(few, lines) \in Seq(PdfLines)
      /\ Gathered(few, Append(lines, line)) = Gathered(few, lines) \o few[line]
    BY <1>3, GatheredGrows
<1>9. LineWords(lines) \in Seq(Words)
    BY LineWordsTyped
<1> QED
    BY <1>4, <1>5, <1>6, <1>7, <1>8, <1>9

\* Rounding keeps the order of two sizes, if it does not make them one, and two
\* that are a hundredth of a point apart stay apart.
LEMMA RoundedOrder ==
    ASSUME NEW small \in Nat, NEW large \in Nat
    PROVE  /\ Rounded(small) \in Nat
           /\ small <= large => Rounded(small) <= Rounded(large)
           /\ small + 10 <= large => Rounded(small) < Rounded(large)
BY DEF Rounded

\* Lines in sizes that round above a body size are none of those up to it.
LEMMA LargeAndSmall ==
    ASSUME NEW lines \in Seq(PdfLines), NEW body \in Nat, NEW sizes \in SUBSET Nat,
           \A size \in sizes : size > Rounded(body)
    PROVE  TotalWeight(lines) >=
               TotalWeight(UpTo(lines, body)) + Characters(LargeWords(lines, sizes))
<1> DEFINE all(l) == Characters(LineWords(l))
           small(l) == Characters(LineWords(UpTo(l, body)))
           large(l) == Characters(LargeWords(l, sizes))
           T == {l \in Seq(PdfLines) : all(l) >= small(l) + large(l)}
<1>1. <<>> \in Seq(PdfLines) /\ <<>> \in Seq(Words)
    BY EmptySeq
<1>2. <<>> \in T
    <2>1. ASSUME NEW line \in PdfLines
          PROVE  LineWords(<<>>) = <<>> /\ LargeWords(<<>>, sizes) = <<>> /\ UpTo(<<>>, body) = <<>>
        BY <1>1, LinesGrow
    <2>2. LineWords(<<>>) = <<>> /\ LargeWords(<<>>, sizes) = <<>> /\ UpTo(<<>>, body) = <<>>
        <3>1. FlattenSeq(<<>>) = <<>>
            BY FlattenedFew, <1>1
        <3> QED
            BY <3>1 DEF LineWords, LargeWords, UpTo
    <2>3. Characters(<<>>) = 0
        BY <1>1, CharactersGrow
    <2> QED
        BY <1>1, <2>2, <2>3
<1>3. ASSUME NEW l \in Seq(PdfLines), NEW line \in PdfLines, l \in T PROVE Append(l, line) \in T
    <2> DEFINE more == Append(l, line)
               w == Weight[line.word]
               u == UpTo(l, body)
               g == LargeWords(l, sizes)
    <2>1. line.word \in Words /\ line.size \in Nat /\ w \in Nat /\ more \in Seq(PdfLines)
        BY AppendProperties, PdfAssumption DEF PdfLines
    <2>2. /\ LineWords(l) \in Seq(Words) /\ LineWords(more) = Append(LineWords(l), line.word)
          /\ g \in Seq(Words) /\ LargeWords(more, sizes) = g \o LargeWord(line, sizes)
          /\ u \in Seq(PdfLines)
          /\ UpTo(more, body) = u \o (IF line.size <= body THEN <<line>> ELSE <<>>)
        BY LinesGrow
    <2> DEFINE a == all(l)
               b == small(l)
               c == large(l)
    <2>3. a \in Nat /\ b \in Nat /\ c \in Nat /\ a >= b + c
        <3>1. LineWords(u) \in Seq(Words)
            BY <2>2, LineWordsTyped
        <3> QED
            BY <1>3, <2>2, <3>1, CharactersAreNumber
    <2>4. all(more) = a + w
        BY <2>2, CharactersGrow
    <2>5. line.size <= body => small(more) = b + w /\ large(more) = c
        <3> SUFFICES ASSUME line.size <= body PROVE small(more) = b + w /\ large(more) = c
            OBVIOUS
        <3>1. Rounded(line.size) \notin sizes
            <4>1. /\ Rounded(line.size) \in Nat /\ Rounded(body) \in Nat
                  /\ Rounded(line.size) <= Rounded(body)
                BY <2>1, RoundedOrder
            <4>2. \A size \in sizes : size # Rounded(line.size)
                BY <4>1
            <4> QED
                BY <4>2
        <3>2. LargeWord(line, sizes) = <<>> /\ g \o <<>> = g
            BY <2>2, <3>1, ConcatEmptySeq DEF LargeWord
        <3> HIDE DEF u
        <3>3. UpTo(more, body) = Append(u, line)
            BY <2>2, AppendIsConcat
        <3>4. LineWords(Append(u, line)) = Append(LineWords(u), line.word) /\ LineWords(u) \in Seq(Words)
            BY <2>2, LinesGrow
        <3>5. Characters(Append(LineWords(u), line.word)) = Characters(LineWords(u)) + w
            BY <3>4, CharactersGrow
        <3> QED
            BY <2>2, <3>2, <3>3, <3>4, <3>5 DEF u
    <2>6. ~(line.size <= body) => small(more) = b /\ large(more) <= c + w /\ large(more) \in Nat
        <3> SUFFICES ASSUME ~(line.size <= body)
                     PROVE  small(more) = b /\ large(more) <= c + w /\ large(more) \in Nat
            OBVIOUS
        <3> HIDE DEF u, g
        <3>1. UpTo(more, body) = u
            BY <2>2, ConcatEmptySeq
        <3>2. CASE Rounded(line.size) \in sizes
            <4>1. LargeWords(more, sizes) = Append(g, line.word)
                BY <2>1, <2>2, <3>2, AppendIsConcat DEF LargeWord
            <4>2. Characters(Append(g, line.word)) = Characters(g) + w
                BY <2>2, CharactersGrow
            <4>3. large(more) = c + w
                BY <4>1, <4>2 DEF g
            <4> HIDE DEF c, w
            <4> QED
                BY <2>1, <2>3, <3>1, <4>3 DEF u, b
        <3>3. CASE Rounded(line.size) \notin sizes
            <4>1. LargeWords(more, sizes) = g
                BY <2>2, <3>3, ConcatEmptySeq DEF LargeWord
            <4>2. large(more) = c
                BY <4>1 DEF g
            <4>3. c \in Nat /\ w \in Nat /\ c <= c + w
                <5>1. c \in Nat /\ w \in Nat
                    BY <2>1, <2>3
                <5> HIDE DEF c, w
                <5> QED
                    BY <5>1
            <4>4. small(more) = b
                BY <3>1 DEF u
            <4> QED
                BY <4>2, <4>3, <4>4, Zenon
        <3> QED
            BY <3>2, <3>3
    <2>7. all(more) >= small(more) + large(more)
        <3> DEFINE aa == all(more)
                   bb == small(more)
                   cc == large(more)
        <3>1. /\ line.size <= body => bb = b + w /\ cc = c
              /\ ~(line.size <= body) => bb = b /\ cc <= c + w /\ cc \in Nat
              /\ aa = a + w
            BY <2>4, <2>5, <2>6
        <3>2. w \in Nat
            BY <2>1
        <3> HIDE DEF a, b, c, w, aa, bb, cc
        <3>3. aa >= bb + cc
            BY <2>3, <3>1, <3>2
        <3> QED
            BY <3>3 DEF aa, bb, cc
    <2> QED
        BY <2>1, <2>7
<1> HIDE DEF T
<1>4. lines \in T
    BY <1>2, <1>3, SeqUpwards
<1> QED
    BY <1>4 DEF T, TotalWeight, LineWords

\* All lines are up to a size that none of them exceeds.
LEMMA AllUpTo ==
    ASSUME NEW size \in Nat, NEW lines \in Seq({line \in PdfLines : line.size <= size})
    PROVE  UpTo(lines, size) = lines
<1> DEFINE S == {line \in PdfLines : line.size <= size}
           T == {l \in Seq(S) : UpTo(l, size) = l}
<1>1. \A l \in Seq(S) : l \in Seq(PdfLines)
    BY SeqGrows
<1>2. <<>> \in T
    <2>1. FlattenSeq(<<>>) = <<>>
        BY FlattenedFew, EmptySeq
    <2>2. UpTo(<<>>, size) = <<>>
        BY <2>1 DEF UpTo
    <2> QED
        BY <2>2, EmptySeq
<1>3. ASSUME NEW l \in Seq(S), NEW line \in S, l \in T PROVE Append(l, line) \in T
    <2>1. UpTo(Append(l, line), size) = UpTo(l, size) \o <<line>>
        <3>1. l \in Seq(PdfLines) /\ line \in PdfLines /\ line.size <= size
            BY <1>1
        <3>2. UpTo(Append(l, line), size) =
                  UpTo(l, size) \o (IF line.size <= size THEN <<line>> ELSE <<>>)
            BY <3>1, LinesGrow
        <3> QED
            BY <3>1, <3>2
    <2>2. Append(l, line) = l \o <<line>> /\ Append(l, line) \in Seq(S)
        BY AppendIsConcat, AppendProperties
    <2> QED
        BY <1>3, <2>1, <2>2
<1> HIDE DEF T, S
<1>4. lines \in T
    BY <1>2, <1>3, SeqUpwards DEF S
<1> QED
    BY <1>4 DEF T

\* There is a body size, and what is up to it holds half of the characters.
LEMMA BodyHoldsHalf ==
    ASSUME NEW lines \in Seq(PdfLines), NEW some \in DOMAIN lines
    PROVE  /\ BodySize(lines) \in Nat
           /\ 2 * TotalWeight(UpTo(lines, BodySize(lines))) >= TotalWeight(lines)
<1> DEFINE n == Len(lines)
           weight(size) == TotalWeight(UpTo(lines, size))
           sizes == {lines[k].size : k \in DOMAIN lines}
           S == {lines[k].size : k \in {k \in DOMAIN lines :
                    2 * TotalWeight(UpTo(lines, lines[k].size)) >= TotalWeight(lines)}}
           body == Min(S)
<1>1. n \in Nat /\ DOMAIN lines = 1 .. n /\ \A k \in 1 .. n : lines[k] \in PdfLines
    BY LineWordsTyped
<1>2. \A k \in 1 .. n : lines[k].size \in Nat
    BY <1>1 DEF PdfLines
<1> DEFINE top == Max(sizes)
<1>3. top \in sizes /\ \A size \in sizes : top >= size
    <2> DEFINE f == [k \in 1 .. n |-> lines[k].size]
    <2>1. f \in Surjection(1 .. n, sizes)
        BY <1>1 DEF Surjection
    <2>2. sizes \in SUBSET Nat /\ lines[some].size \in sizes
        BY <1>1, <1>2
    <2> HIDE DEF f, sizes
    <2>3. IsFiniteSet(sizes)
        BY <1>1, <2>1, FS_Interval, FS_Surjection
    <2>4. sizes # {}
        BY <2>2
    <2> QED
        BY <2>2, <2>3, <2>4, FiniteIsBounded, MaxIsGreatest
<1>4. PICK k \in 1 .. n : lines[k].size = top
    BY <1>1, <1>3
<1>5. top \in Nat
    BY <1>2, <1>4
<1> HIDE DEF top
<1>6. \A j \in 1 .. n : lines[j].size <= top
    <2>1. \A j \in 1 .. n : lines[j].size \in sizes
        BY <1>1
    <2> HIDE DEF sizes
    <2> QED
        BY <1>2, <1>3, <1>5, <2>1
<1>7. UpTo(lines, top) = lines
    <2>1. \A j \in 1 .. n : lines[j] \in {line \in PdfLines : line.size <= top}
        BY <1>1, <1>6
    <2>2. lines = [j \in 1 .. n |-> lines[j]]
        BY <1>1
    <2> DEFINE few == {line \in PdfLines : line.size <= top}
    <2>3. \A j \in 1 .. n : lines[j] \in few
        BY <2>1
    <2> HIDE DEF n, few
    <2>4. lines \in Seq(few)
        BY <1>1, <2>2, <2>3, FunctionIsSeq
    <2> QED
        BY <1>5, <2>4, AllUpTo DEF few
<1>8. TotalWeight(lines) \in Nat
    BY LineWordsTyped, CharactersAreNumber DEF TotalWeight, LineWords
<1>9. 2 * TotalWeight(UpTo(lines, lines[k].size)) >= TotalWeight(lines)
    BY <1>4, <1>7, <1>8
<1>10. S \in SUBSET Nat /\ S # {}
    BY <1>1, <1>2, <1>4, <1>9
<1>11. body \in S
    <2> HIDE DEF S
    <2> QED
        BY <1>10, MinIsLeast
<1>12. BodySize(lines) = body
    BY DEF BodySize
<1>13. PICK j \in DOMAIN lines :
          /\ body = lines[j].size
          /\ 2 * TotalWeight(UpTo(lines, lines[j].size)) >= TotalWeight(lines)
    BY <1>11
<1> HIDE DEF body
<1> QED
    BY <1>1, <1>2, <1>12, <1>13

\* A heading size is above the body, if the body is not so small that rounding
\* makes them one.
LEMMA HeadingsAreLarge ==
    ASSUME NEW lines \in Seq(PdfLines), BodySize(lines) >= 60, NEW size \in HeadingSizes(lines)
    PROVE  /\ size \in Nat /\ BodySize(lines) \in Nat /\ size > Rounded(BodySize(lines))
           /\ 2 * TotalWeight(UpTo(lines, BodySize(lines))) >= TotalWeight(lines)
<1> DEFINE body == BodySize(lines)
<1>1. PICK k \in DOMAIN lines :
          size = Rounded(lines[k].size) /\ 100 * lines[k].size >= 118 * body
    BY DEF HeadingSizes
<1>2. lines[k].size \in Nat
    BY LineWordsTyped DEF PdfLines
<1>3. body \in Nat /\ 2 * TotalWeight(UpTo(lines, body)) >= TotalWeight(lines)
    BY BodyHoldsHalf
<1>4. body >= 60
    OBVIOUS
<1> HIDE DEF body
<1>5. body + 10 <= lines[k].size
    BY <1>1, <1>2, <1>3, <1>4
<1>6. /\ Rounded(body) \in Nat /\ Rounded(lines[k].size) \in Nat
      /\ Rounded(body) < Rounded(lines[k].size)
    BY <1>2, <1>3, <1>5, RoundedOrder
<1> QED
    BY <1>1, <1>3, <1>6 DEF body

LEMMA LargeWordsJoined ==
    ASSUME NEW s \in Seq(PdfLines), NEW t \in Seq(PdfLines), NEW sizes
    PROVE  LargeWords(s \o t, sizes) = LargeWords(s, sizes) \o LargeWords(t, sizes)
<1> DEFINE large == [x \in PdfLines |-> LargeWord(x, sizes)]
<1>1. \A x \in PdfLines : x.word \in Words
    BY DEF PdfLines
<1>2. Gives(large, PdfLines, Words)
    BY <1>1, EmptySeq DEF Gives, LargeWord
<1>3. \A l \in Seq(PdfLines) : LargeWords(l, sizes) = Gathered(large, l)
    <2> SUFFICES ASSUME NEW l \in Seq(PdfLines)
                 PROVE  LargeWords(l, sizes) = Gathered(large, l)
        OBVIOUS
    <2>1. \A k \in DOMAIN l : l[k] \in PdfLines
        BY LenProperties, ElementOfSeq
    <2> QED
        BY <2>1 DEF LargeWords, Gathered, Mapped
<1> HIDE DEF large
<1>4. Gathered(large, s \o t) = Gathered(large, s) \o Gathered(large, t)
    BY <1>2, GatheredJoined
<1>5. s \o t \in Seq(PdfLines)
    BY ConcatProperties
<1> QED
    BY <1>3, <1>4, <1>5

\* The lines in a heading size have at most half of the characters of the
\* document, and so have those of its first pages.
LEMMA LargeIsTheMinority ==
    ASSUME NEW front \in Seq(PdfLines), NEW rest \in Seq(PdfLines),
           BodySize(front \o rest) >= 60
    PROVE  2 * Characters(LargeWords(front, HeadingSizes(front \o rest))) <=
               TotalWeight(front \o rest)
<1> DEFINE lines == front \o rest
           sizes == HeadingSizes(lines)
           body == BodySize(lines)
           all == TotalWeight(lines)
           small == TotalWeight(UpTo(lines, body))
           large == Characters(LargeWords(lines, sizes))
           first == Characters(LargeWords(front, sizes))
<1>1. lines \in Seq(PdfLines)
    BY ConcatProperties
<1>7. BodySize(lines) >= 60
    OBVIOUS
<1> HIDE DEF lines
<1>2. /\ LargeWords(front, sizes) \in Seq(Words) /\ LargeWords(rest, sizes) \in Seq(Words)
      /\ LargeWords(lines, sizes) = LargeWords(front, sizes) \o LargeWords(rest, sizes)
    <2>1. \A l \in Seq(PdfLines) : LargeWords(l, sizes) \in Seq(Words)
        <3> SUFFICES ASSUME NEW l \in Seq(PdfLines) PROVE LargeWords(l, sizes) \in Seq(Words)
            OBVIOUS
        <3> DEFINE large2 == [x \in PdfLines |-> LargeWord(x, sizes)]
        <3>1. \A x \in PdfLines : x.word \in Words
            BY DEF PdfLines
        <3>2. Gives(large2, PdfLines, Words)
            BY <3>1, EmptySeq DEF Gives, LargeWord
        <3>3. \A k \in DOMAIN l : l[k] \in PdfLines
            BY LenProperties, ElementOfSeq
        <3>4. LargeWords(l, sizes) = Gathered(large2, l)
            BY <3>3 DEF LargeWords, Gathered, Mapped
        <3> HIDE DEF large2
        <3> QED
            BY <3>2, <3>4, GatheredIsSeq
    <2>2. LargeWords(front \o rest, sizes) = LargeWords(front, sizes) \o LargeWords(rest, sizes)
        BY LargeWordsJoined
    <2> QED
        BY <2>1, <2>2 DEF lines
<1>3. /\ first \in Nat /\ Characters(LargeWords(rest, sizes)) \in Nat
      /\ large = first + Characters(LargeWords(rest, sizes))
    BY <1>2, CharactersAreNumber, CharactersJoined
<1>4. all \in Nat
    BY <1>1, LineWordsTyped, CharactersAreNumber DEF TotalWeight, LineWords
<1>5. CASE sizes = {}
    <2>1. \A k \in DOMAIN front : LargeWord(front[k], sizes) = <<>>
        BY <1>5 DEF LargeWord
    <2>2. LargeWords(front, sizes) = <<>>
        <3> DEFINE T == {l \in Seq(PdfLines) : LargeWords(l, sizes) = <<>>}
        <3>1. <<>> \in T
            <4>1. FlattenSeq(<<>>) = <<>>
                BY FlattenedFew, EmptySeq
            <4> QED
                BY <4>1, EmptySeq DEF LargeWords
        <3>2. ASSUME NEW l \in Seq(PdfLines), NEW line \in PdfLines, l \in T
              PROVE  Append(l, line) \in T
            <4> DEFINE none == {}
            <4>1. LargeWords(Append(l, line), sizes) = LargeWords(l, sizes) \o LargeWord(line, sizes)
                BY LinesGrow
            <4>2. LargeWord(line, sizes) = <<>> /\ <<>> \o <<>> = <<>>
                BY <1>5, ConcatEmptySeq, EmptySeq DEF LargeWord
            <4> QED
                BY <3>2, <4>1, <4>2, AppendProperties
        <3> HIDE DEF T
        <3>3. front \in T
            BY <3>1, <3>2, SeqUpwards
        <3> QED
            BY <3>3 DEF T
    <2>3. first = 0
        BY <2>2, CharactersGrow, EmptySeq
    <2> QED
        BY <1>4, <2>3 DEF lines
<1>6. CASE sizes # {}
    <2>1. PICK size : size \in sizes
        BY <1>6
    <2>2. \A s \in sizes : s \in Nat /\ body \in Nat /\ s > Rounded(body) /\ 2 * small >= all
        BY <1>1, <1>7, HeadingsAreLarge
    <2>3. body \in Nat /\ 2 * small >= all /\ sizes \in SUBSET Nat
        BY <2>1, <2>2
    <2> HIDE DEF sizes, body
    <2>4. all >= small + large
        BY <1>1, <2>2, <2>3, LargeAndSmall
    <2>5. small \in Nat
        <3>1. UpTo(lines, body) \in Seq(PdfLines)
            <4> DEFINE few == [x \in PdfLines |-> IF x.size <= body THEN <<x>> ELSE <<>>]
            <4>1. Gives(few, PdfLines, PdfLines)
                BY EmptySeq DEF Gives
            <4>2. \A k \in DOMAIN lines : lines[k] \in PdfLines
                BY <1>1, LenProperties, ElementOfSeq
            <4>3. UpTo(lines, body) = Gathered(few, lines)
                BY <4>2 DEF UpTo, Gathered, Mapped
            <4> HIDE DEF few
            <4> QED
                BY <1>1, <4>1, <4>3, GatheredIsSeq
        <3> QED
            BY <3>1, LineWordsTyped, CharactersAreNumber DEF TotalWeight, LineWords
    <2> HIDE DEF small, all, large, first
    <2>6. 2 * first <= all
        <3> DEFINE last == Characters(LargeWords(rest, sizes))
        <3>1. /\ first \in Nat /\ last \in Nat /\ small \in Nat /\ all \in Nat
              /\ large = first + last /\ 2 * small >= all /\ all >= small + large
            BY <1>3, <1>4, <2>3, <2>4, <2>5
        <3>2. \A s, a, f, r \in Nat : 2 * s >= a /\ a >= s + (f + r) => 2 * f <= a
            BY SMT
        <3> HIDE DEF last
        <3> QED
            BY <3>1, <3>2, Zenon
    <2> QED
        BY <2>6 DEF first, all, lines, sizes
<1> QED
    BY <1>5, <1>6

-----------------------------------------------------------------------------
(* Parts of a sequence.                                                     *)

\* A part of a sequence.
IsPart(s, all, first, last) ==
    /\ s = [k \in 1 .. last - first + 1 |-> s[k]]
    /\ \A k \in 1 .. last - first + 1 : s[k] = all[first + k - 1]

LEMMA PartIsSubSeq ==
    ASSUME NEW S, NEW all \in Seq(S), NEW first \in 1 .. Len(all) + 1,
           NEW last \in first - 1 .. Len(all), NEW s, IsPart(s, all, first, last)
    PROVE  s = SubSeq(all, first, last) /\ s \in Seq(S)
<1> DEFINE n == Len(all)
           count == last - first + 1
           cut == SubSeq(all, first, last)
<1>1. n \in Nat /\ \A k \in 1 .. n : all[k] \in S
    BY LenProperties, ElementOfSeq
<1> HIDE DEF n
<1>2. first \in 1 .. n + 1 /\ last \in first - 1 .. n
    BY DEF n
<1>3. /\ first \in Int /\ last \in Int /\ count \in Nat /\ last - first + 1 = count
      /\ (first <= last => last - first + 1 = count) /\ (~(first <= last) => count = 0)
    BY <1>1, <1>2
<1>4. \A k \in first .. last : all[k] \in S
    BY <1>1, <1>2
<1>5. cut \in Seq(S) /\ Len(cut) = count /\ \A k \in 1 .. count : cut[k] = all[first + k - 1]
    BY <1>3, <1>4, SubSeqProperties
<1>6. cut = [k \in 1 .. count |-> cut[k]]
    BY <1>5
<1> HIDE DEF cut
<1>7. s = [k \in 1 .. count |-> s[k]] /\ \A k \in 1 .. count : s[k] = all[first + k - 1]
    BY DEF IsPart
<1> HIDE DEF count
<1>8. cut = s
    BY <1>5, <1>6, <1>7
<1> QED
    BY <1>5, <1>8 DEF cut

\* The first n of these sequences, one after the other.
FlattenedTo(ss, n) == FlattenSeq([k \in 1 .. n |-> ss[k]])

LEMMA FirstOnes ==
    ASSUME NEW S, NEW ss \in Seq(S), NEW n \in 0 .. Len(ss)
    PROVE  [k \in 1 .. n |-> ss[k]] = SubSeq(ss, 1, n) /\ SubSeq(ss, 1, n) \in Seq(S)
<1> DEFINE first == [k \in 1 .. n |-> ss[k]]
<1>1. Len(ss) \in Nat /\ n \in Nat /\ 1 \in 1 .. Len(ss) + 1 /\ n \in 1 - 1 .. Len(ss)
      /\ n - 1 + 1 = n
    BY LenProperties
<1>2. first = [k \in 1 .. n |-> first[k]] /\ \A k \in 1 .. n : first[k] = ss[k] /\ 1 + k - 1 = k
    BY <1>1
<1> HIDE DEF first
<1>3. IsPart(first, ss, 1, n)
    BY <1>1, <1>2 DEF IsPart
<1>4. first = SubSeq(ss, 1, n) /\ first \in Seq(S)
    BY <1>1, <1>3, PartIsSubSeq, SMTT(30)
<1> QED
    BY <1>4 DEF first

LEMMA FlattenedToSplits ==
    ASSUME NEW S, NEW ss \in Seq(Seq(S)), NEW n \in 0 .. Len(ss)
    PROVE  /\ FlattenedTo(ss, n) \in Seq(S)
           /\ \E rest \in Seq(S) : FlattenSeq(ss) = FlattenedTo(ss, n) \o rest
<1> DEFINE V == Seq(S)
           front == SubSeq(ss, 1, n)
           back == SubSeq(ss, n + 1, Len(ss))
<1>1. Len(ss) \in Nat /\ n \in Nat /\ 1 \in 1 .. Len(ss) + 1 /\ n \in 1 - 1 .. Len(ss)
      /\ Len(ss) \in n .. Len(ss) /\ n + 1 \in 1 .. Len(ss) + 1 /\ Len(ss) \in n + 1 - 1 .. Len(ss)
    BY LenProperties
<1>2. FlattenedTo(ss, n) = FlattenSeq(front) /\ front \in Seq(V)
    BY FirstOnes DEF FlattenedTo
<1>3. \A k \in n + 1 .. Len(ss) : ss[k] \in V
    BY <1>1, ElementOfSeq
<1> HIDE DEF V
<1>4. ss \in Seq(V)
    BY DEF V
<1>5. back \in Seq(V)
    <2>1. n + 1 \in Int /\ Len(ss) \in Int
        BY <1>1
    <2> QED
        BY <1>3, <2>1, SubSeqProperties
<1>6. front \o back = SubSeq(ss, 1, Len(ss))
    BY <1>1, <1>4, ConcatAdjacentSubSeq
<1>7. SubSeq(ss, 1, Len(ss)) = ss
    BY <1>4, SubSeqFull
<1> HIDE DEF front, back
<1>8. front \in Seq(Seq(S)) /\ back \in Seq(Seq(S))
    BY <1>2, <1>5 DEF V
<1>9. FlattenSeq(front \o back) = FlattenSeq(front) \o FlattenSeq(back)
    BY <1>8, FlattenedJoined
<1>10. FlattenSeq(front) \in Seq(S) /\ FlattenSeq(back) \in Seq(S)
    BY <1>8, FlattenedIsSeq
<1> QED
    BY <1>2, <1>6, <1>7, <1>9, <1>10, Zenon

LEMMA FlattenedToGrows ==
    ASSUME NEW S, NEW ss \in Seq(Seq(S)), NEW n \in 1 .. Len(ss)
    PROVE  /\ FlattenedTo(ss, n - 1) \in Seq(S) /\ ss[n] \in Seq(S)
           /\ FlattenedTo(ss, n) = FlattenedTo(ss, n - 1) \o ss[n]
<1> DEFINE front == [k \in 1 .. n - 1 |-> ss[k]]
           more == [k \in 1 .. n |-> ss[k]]
<1>1. Len(ss) \in Nat /\ n \in Nat /\ n - 1 \in 0 .. Len(ss) /\ n \in 0 .. Len(ss) /\ n - 1 \in Nat
    BY LenProperties
<1>2. ss[n] \in Seq(S)
    BY ElementOfSeq
<1>3. front \in Seq(Seq(S))
    BY <1>1, FirstOnes
<1>4. Len(front) = n - 1
    BY <1>1, <1>3, LenProperties
<1>5. more = Append(front, ss[n])
    BY <1>1, <1>4
<1> HIDE DEF front, more
<1>6. FlattenSeq(Append(front, ss[n])) = FlattenSeq(front) \o ss[n] /\ FlattenSeq(front) \in Seq(S)
    BY <1>2, <1>3, FlattenedGrows, FlattenedIsSeq
<1> QED
    BY <1>2, <1>5, <1>6 DEF FlattenedTo, front, more

-----------------------------------------------------------------------------
(* The values of a sheet and the blocks of its rows.                        *)

\* Counted on from a number that is not 0, or from the start, is not 0.
LEMMA NumberIsPositive ==
    ASSUME NEW given, NEW k \in Nat \ {0}, \A i \in 1 .. k : given[i] \in Nat \ {0},
           NumberOf(given, k) \in Nat
    PROVE  NumberOf(given, k) >= 1
<1> DEFINE known == {i \in 1 .. k : given[i] # NotGiven}
<1>1. CASE known = {}
    BY <1>1 DEF NumberOf
<1>2. CASE known # {}
    <2>1. known \in SUBSET (0 .. k)
        OBVIOUS
    <2>2. Max(known) \in known
        BY <1>2, <2>1, MaxIsGreatest
    <2> DEFINE m == Max(known)
               first == given[m]
    <2>3. NumberOf(given, k) = first + k - m
        BY <1>2 DEF NumberOf
    <2>4. m \in 1 .. k /\ first \in Nat \ {0}
        BY <2>2
    <2> HIDE DEF m, first
    <2> QED
        BY <2>3, <2>4
<1> QED
    BY <1>1, <1>2

\* What _read_rows has seen to.
LEMMA GoodSheet ==
    ASSUME NEW sheet \in Sheets, ~IsBadSheet(sheet), NEW k \in DOMAIN sheet.rows
    PROVE  /\ RowNumbers(sheet)[k] \in 1 .. MaxMatrixRows
           /\ \A i \in DOMAIN sheet.rows : RowNumbers(sheet)[i] = RowNumbers(sheet)[k] => i = k
           /\ \A j \in DOMAIN sheet.rows[k].cells :
                 /\ ColumnNumbers(sheet.rows[k])[j] \in 1 .. MaxMatrixColumns
                 /\ \A i \in DOMAIN sheet.rows[k].cells :
                       ColumnNumbers(sheet.rows[k])[i] = ColumnNumbers(sheet.rows[k])[j] => i = j
<1> DEFINE row == sheet.rows[k]
           numbers == RowNumbers(sheet)
           columns == ColumnNumbers(row)
           given == [i \in DOMAIN row.cells |-> row.cells[i].column]
<1>1. IsInjective(numbers) /\ ~IsBadRow(row, numbers[k])
    BY DEF IsBadSheet
<1>2. /\ numbers[k] \in 1 .. MaxMatrixRows /\ IsInjective(columns)
      /\ \A j \in DOMAIN row.cells : ~(columns[j] > MaxMatrixColumns)
    BY <1>1 DEF IsBadRow
<1>3. DOMAIN numbers = DOMAIN sheet.rows /\ row \in XlsxRows
    BY RowsNumbered
<1>4. /\ DOMAIN columns = DOMAIN row.cells /\ DOMAIN row.cells = 1 .. Len(row.cells)
      /\ Len(row.cells) \in Nat
      /\ \A j \in DOMAIN row.cells : /\ row.cells[j] \in XlsxCells
                                     /\ columns[j] = NumberOf(given, j)
                                     /\ columns[j] \in Nat
    <2> HIDE DEF row
    <2> QED
        BY <1>3, ColumnsNumbered
<1>5. \A i \in DOMAIN sheet.rows : numbers[i] = numbers[k] => i = k
    BY <1>1, <1>3 DEF IsInjective
<1>6. ASSUME NEW j \in DOMAIN row.cells
      PROVE  /\ columns[j] \in 1 .. MaxMatrixColumns
             /\ \A i \in DOMAIN row.cells : columns[i] = columns[j] => i = j
    <2>1. \A i \in DOMAIN row.cells : columns[i] = columns[j] => i = j
        BY <1>2, <1>4, <1>6 DEF IsInjective
    <2>2. j \in Nat \ {0} /\ 1 .. j \subseteq DOMAIN row.cells
        BY <1>4, <1>6
    <2>3. \A i \in 1 .. j : given[i] \in Nat \ {0}
        <3>1. \A i \in DOMAIN row.cells : row.cells[i].column \in Nat \ {0}
            BY <1>4 DEF XlsxCells
        <3> QED
            BY <2>2, <3>1
    <2>4. columns[j] = NumberOf(given, j) /\ columns[j] \in Nat /\ ~(columns[j] > MaxMatrixColumns)
        BY <1>2, <1>4, <1>6
    <2> HIDE DEF given, columns
    <2>5. NumberOf(given, j) >= 1
        BY <2>2, <2>3, <2>4, NumberIsPositive
    <2>6. MaxMatrixColumns \in Nat
        BY XlsxAssumption
    <2> DEFINE c == columns[j]
    <2>7. c \in Nat /\ c >= 1 /\ ~(c > MaxMatrixColumns)
        BY <2>4, <2>5
    <2> HIDE DEF c
    <2>8. c \in 1 .. MaxMatrixColumns
        BY <2>6, <2>7
    <2> QED
        BY <2>1, <2>8 DEF c
<1> QED
    BY <1>2, <1>5, <1>6

\* No two cells of a good sheet have one place.
LEMMA OneCellAtPlace ==
    ASSUME NEW sheet \in Sheets, ~IsBadSheet(sheet),
           NEW c \in AllCells(sheet), NEW d \in AllCells(sheet), c.place = d.place
    PROVE  c = d
<1> DEFINE cell(k, j) == [place |-> <<RowNumbers(sheet)[k], ColumnNumbers(sheet.rows[k])[j]>>,
                          cell |-> sheet.rows[k].cells[j]]
<1>1. PICK k \in DOMAIN sheet.rows : \E j \in DOMAIN sheet.rows[k].cells : c = cell(k, j)
    BY DEF AllCells
<1>1a. PICK j \in DOMAIN sheet.rows[k].cells : c = cell(k, j)
    BY <1>1
<1>2. PICK l \in DOMAIN sheet.rows : \E i \in DOMAIN sheet.rows[l].cells : d = cell(l, i)
    BY DEF AllCells
<1>2a. PICK i \in DOMAIN sheet.rows[l].cells : d = cell(l, i)
    BY <1>2
<1>3. RowNumbers(sheet)[l] = RowNumbers(sheet)[k]
      /\ ColumnNumbers(sheet.rows[l])[i] = ColumnNumbers(sheet.rows[k])[j]
    BY <1>1a, <1>2a
<1>4. l = k
    BY <1>3, GoodSheet
<1>5. i = j
    BY <1>3, <1>4, GoodSheet
<1> QED
    BY <1>1a, <1>2a, <1>4, <1>5

ValueAt(cells, place) == [row |-> place[1], column |-> place[2], text |-> cells[place].text]

Inhabited(cells) == {place \in DOMAIN cells : cells[place].text \in Words}

\* What the file means is what is read of it: every value at its place.
LEMMA ValuesAre ==
    ASSUME NEW sheet \in Sheets, ~IsBadSheet(sheet)
    PROVE  Values(sheet) = {ValueAt(CellsOf(sheet), place) : place \in Inhabited(CellsOf(sheet))}
<1> DEFINE cells == CellsOf(sheet)
           numbers == RowNumbers(sheet)
           columns(k) == ColumnNumbers(sheet.rows[k])
           meant(k, j) == [row |-> numbers[k], column |-> columns(k)[j],
                           text |-> sheet.rows[k].cells[j].text]
           entry(k, j) == [place |-> <<numbers[k], columns(k)[j]>>, cell |-> sheet.rows[k].cells[j]]
<1>1. \A k \in DOMAIN sheet.rows :
          /\ numbers[k] = NumberOf([i \in DOMAIN sheet.rows |-> sheet.rows[i].number], k)
          /\ sheet.rows[k] \in XlsxRows
    BY RowsNumbered
<1>2. ASSUME NEW k \in DOMAIN sheet.rows, NEW j \in DOMAIN sheet.rows[k].cells
      PROVE  columns(k)[j] = NumberOf([i \in DOMAIN sheet.rows[k].cells |->
                                          sheet.rows[k].cells[i].column], j)
    <2> DEFINE row == sheet.rows[k]
    <2>1. row \in XlsxRows /\ j \in DOMAIN row.cells
        BY <1>1, <1>2
    <2> HIDE DEF row
    <2>2. ColumnNumbers(row)[j] = NumberOf([i \in DOMAIN row.cells |-> row.cells[i].column], j)
        BY <2>1, ColumnsNumbered
    <2> QED
        BY <2>2 DEF row
<1>3. Meant(sheet) = UNION {{meant(k, j) : j \in DOMAIN sheet.rows[k].cells} : k \in DOMAIN sheet.rows}
    <2> DEFINE given(k, j) ==
                   [row |-> NumberOf([i \in DOMAIN sheet.rows |-> sheet.rows[i].number], k),
                    column |-> NumberOf([i \in DOMAIN sheet.rows[k].cells |->
                                            sheet.rows[k].cells[i].column], j),
                    text |-> sheet.rows[k].cells[j].text]
               ofRow(k) == {given(k, j) : j \in DOMAIN sheet.rows[k].cells}
               same(k) == {meant(k, j) : j \in DOMAIN sheet.rows[k].cells}
    <2>1. Meant(sheet) = UNION {ofRow(k) : k \in DOMAIN sheet.rows}
        BY DEF Meant
    <2>2. ASSUME NEW k \in DOMAIN sheet.rows PROVE ofRow(k) = same(k)
        <3>1. \A j \in DOMAIN sheet.rows[k].cells : given(k, j) = meant(k, j)
            BY <1>1, <1>2
        <3> HIDE DEF given, meant
        <3> QED
            BY <3>1
    <2> HIDE DEF ofRow, same
    <2>3. Meant(sheet) = UNION {same(k) : k \in DOMAIN sheet.rows}
        BY <2>1, <2>2
    <2> QED
        BY <2>3 DEF same
<1>4. AllCells(sheet) =
          UNION {{entry(k, j) : j \in DOMAIN sheet.rows[k].cells} : k \in DOMAIN sheet.rows}
    BY DEF AllCells
<1>5. ASSUME NEW c \in Values(sheet)
      PROVE  \E place \in Inhabited(cells) : c = ValueAt(cells, place)
    <2>1. c \in Meant(sheet) /\ c.text \in Words /\ <<c.row, c.column>> \notin Continuations(sheet)
        BY DEF Values
    <2>2. PICK k \in DOMAIN sheet.rows : \E j \in DOMAIN sheet.rows[k].cells : c = meant(k, j)
        BY <1>3, <2>1
    <2>2a. PICK j \in DOMAIN sheet.rows[k].cells : c = meant(k, j)
        BY <2>2
    <2>3. entry(k, j) \in AllCells(sheet) /\ entry(k, j).place = <<c.row, c.column>>
          /\ entry(k, j).cell.text = c.text
        BY <1>4, <2>2a
    <2> DEFINE e == entry(k, j)
               place == <<c.row, c.column>>
    <2>4. e \in AllCells(sheet) /\ e.place = place /\ e.cell.text = c.text
        BY <2>3
    <2> HIDE DEF e
    <2>5. place \in DOMAIN cells
        BY <2>1, <2>4, CellsOfTyped
    <2>6. PICK d \in AllCells(sheet) : d.place = place /\ d.cell = cells[place]
        BY <2>5, CellsOfTyped
    <2>7. d = e
        BY <2>4, <2>6, OneCellAtPlace
    <2>8. cells[place].text = c.text
        BY <2>4, <2>6, <2>7
    <2>9. place \in Inhabited(cells)
        BY <2>1, <2>5, <2>8 DEF Inhabited
    <2>10. c = [row |-> c.row, column |-> c.column, text |-> c.text]
        BY <2>2a
    <2>11. c = ValueAt(cells, place)
        BY <2>8, <2>10 DEF ValueAt
    <2> QED
        BY <2>9, <2>11
<1>6. ASSUME NEW place \in Inhabited(cells)
      PROVE  ValueAt(cells, place) \in Values(sheet)
    <2>1. place \in DOMAIN cells /\ cells[place].text \in Words
        BY DEF Inhabited
    <2>2. PICK d \in AllCells(sheet) : d.place = place /\ d.cell = cells[place]
        BY <2>1, CellsOfTyped
    <2>3. PICK k \in DOMAIN sheet.rows : \E j \in DOMAIN sheet.rows[k].cells : d = entry(k, j)
        BY <1>4, <2>2
    <2>3a. PICK j \in DOMAIN sheet.rows[k].cells : d = entry(k, j)
        BY <2>3
    <2>4. place = <<numbers[k], columns(k)[j]>> /\ cells[place] = sheet.rows[k].cells[j]
        BY <2>2, <2>3a
    <2>5. ValueAt(cells, place) = meant(k, j) /\ meant(k, j) \in Meant(sheet)
        BY <1>3, <2>4 DEF ValueAt
    <2>6. place \notin Continuations(sheet)
        BY <2>1, CellsOfTyped
    <2>7. meant(k, j).text \in Words /\ <<meant(k, j).row, meant(k, j).column>> = place
        BY <2>1, <2>4
    <2> QED
        BY <2>5, <2>6, <2>7 DEF Values
<1> QED
    BY <1>5, <1>6

\* The value at a place, whether there is one or not.
ReadAt(sheet, row, column) ==
    [row |-> row, column |-> column, text |-> TextAt(CellsOf(sheet), <<row, column>>)]

LEMMA TextsAt ==
    ASSUME NEW sheet \in Sheets, NEW row, NEW column
    PROVE  LET text == TextAt(CellsOf(sheet), <<row, column>>)
           IN  /\ text \in Letters
               /\ column \in Populated(CellsOf(sheet), row) <=> text \in Words
<1> DEFINE cells == CellsOf(sheet)
           place == <<row, column>>
<1>1. \A p \in DOMAIN cells : p \in Nat \X Nat /\ cells[p] \in XlsxCells
    BY CellsOfTyped
<1> HIDE DEF cells
<1>2. \A p \in DOMAIN cells : cells[p].text \in Letters
    BY <1>1 DEF XlsxCells, Letters
<1>3. TextAt(cells, place) \in Letters
    BY <1>2 DEF TextAt, Letters
<1>4. ASSUME column \in Populated(cells, row) PROVE TextAt(cells, place) \in Words
    <2>1. PICK p \in DOMAIN cells : p[1] = row /\ cells[p].text \in Words /\ p[2] = column
        BY <1>4 DEF Populated
    <2>2. p = place
        BY <1>1, <2>1
    <2> QED
        BY <2>1, <2>2 DEF TextAt
<1>5. ASSUME TextAt(cells, place) \in Words PROVE column \in Populated(cells, row)
    <2>1. place \in DOMAIN cells /\ cells[place].text \in Words
        BY <1>5, EmptyCellAssumption DEF TextAt
    <2>2. place[1] = row /\ place[2] = column
        OBVIOUS
    <2> HIDE DEF place
    <2> QED
        BY <2>1, <2>2 DEF Populated
<1> QED
    BY <1>3, <1>4, <1>5 DEF cells

\* The values of a row are those at its populated columns.
LEMMA ValuesOfRow ==
    ASSUME NEW sheet \in Sheets, ~IsBadSheet(sheet), NEW row
    PROVE  /\ \A c : c \in ValuesIn(sheet, row) <=>
                         \E column \in Populated(CellsOf(sheet), row) : c = ReadAt(sheet, row, column)
           /\ Cardinality(ValuesIn(sheet, row)) = Cardinality(Populated(CellsOf(sheet), row))
<1> DEFINE cells == CellsOf(sheet)
           some == Populated(cells, row)
           values == ValuesIn(sheet, row)
           f == [column \in some |-> ReadAt(sheet, row, column)]
<1>1. Values(sheet) = {ValueAt(cells, place) : place \in Inhabited(cells)}
    BY ValuesAre
<1>2. \A p \in DOMAIN cells : p \in Nat \X Nat
    BY CellsOfTyped
<1>3. IsFiniteSet(some)
    BY PopulatedTyped
<1>4. \A column : TextAt(cells, <<row, column>>) = ReadAt(sheet, row, column).text
    BY DEF ReadAt
<1> HIDE DEF cells
<1>5. ASSUME NEW c \in values PROVE \E column \in some : c = ReadAt(sheet, row, column)
    <2>1. c.row = row /\ c \in Values(sheet)
        BY DEF ValuesIn
    <2>2. PICK place \in Inhabited(cells) : c = ValueAt(cells, place)
        BY <1>1, <2>1
    <2>3. place \in DOMAIN cells /\ cells[place].text \in Words /\ place \in Nat \X Nat
        BY <1>2, <2>2 DEF Inhabited
    <2>4. place[1] = row /\ place = <<row, place[2]>>
        BY <2>1, <2>2, <2>3 DEF ValueAt
    <2>5. place[2] \in some
        BY <2>3, <2>4 DEF Populated
    <2>6. c = [row |-> row, column |-> place[2], text |-> TextAt(cells, <<row, place[2]>>)]
        BY <2>2, <2>3, <2>4 DEF ValueAt, TextAt
    <2> QED
        BY <2>5, <2>6 DEF ReadAt, cells
<1>6. ASSUME NEW column \in some PROVE ReadAt(sheet, row, column) \in values
    <2>1. PICK place \in DOMAIN cells : place[1] = row /\ cells[place].text \in Words /\ place[2] = column
        BY DEF Populated
    <2>2. place = <<row, column>> /\ place \in Inhabited(cells)
        BY <1>2, <2>1 DEF Inhabited
    <2>3. ValueAt(cells, place) = [row |-> row, column |-> column, text |-> TextAt(cells, <<row, column>>)]
        BY <2>1, <2>2 DEF ValueAt, TextAt
    <2>4. ValueAt(cells, place) = ReadAt(sheet, row, column)
        BY <2>3 DEF ReadAt, cells
    <2>5. ValueAt(cells, place) \in Values(sheet) /\ ValueAt(cells, place).row = row
        BY <1>1, <2>2, <2>3
    <2> QED
        BY <2>4, <2>5 DEF ValuesIn
<1> HIDE DEF some, values
<1>7. f \in Bijection(some, values)
    <2>1. \A column \in some : f[column] = ReadAt(sheet, row, column) /\ f[column].column = column
        BY DEF ReadAt
    <2>2. f \in [some -> values]
        BY <1>6
    <2>3. \A c \in values : \E column \in some : f[column] = c
        BY <1>5, <2>1
    <2> HIDE DEF f
    <2> QED
        BY <2>1, <2>2, <2>3 DEF Bijection, Injection, Surjection, IsInjective
<1> HIDE DEF f
<1>8. Cardinality(values) = Cardinality(some)
    BY <1>3, <1>7, FS_Bijection DEF ExistsBijection
<1> QED
    BY <1>5, <1>6, <1>8 DEF some, values, cells

RowsMeant(sheet) == {c.row : c \in Values(sheet)}

HeadersMeant(sheet) == {n \in RowsMeant(sheet) : Cardinality(ValuesIn(sheet, n)) >= 2}

\* The header that the loader chooses is the first row with two values.
LEMMA HeadersAgree ==
    ASSUME NEW sheet \in Sheets, ~IsBadSheet(sheet)
    PROVE  /\ HeadersMeant(sheet) = HeaderRows(sheet, CellsOf(sheet))
           /\ \A n \in RowsMeant(sheet) : /\ n \in ToSet(RowNumbers(sheet))
                                          /\ Populated(CellsOf(sheet), n) # {}
                                          /\ n \in 1 .. MaxMatrixRows
<1> DEFINE cells == CellsOf(sheet)
           numbers == RowNumbers(sheet)
<1>1. ASSUME NEW n \in RowsMeant(sheet)
      PROVE  n \in ToSet(numbers) /\ Populated(cells, n) # {}
    <2>1. PICK c \in Values(sheet) : c.row = n
        BY DEF RowsMeant
    <2>2. c \in ValuesIn(sheet, n)
        BY <2>1 DEF ValuesIn
    <2>3. PICK column \in Populated(cells, n) : c = ReadAt(sheet, n, column)
        BY <2>2, ValuesOfRow
    <2>4. PICK place \in DOMAIN cells : place[1] = n
        BY <2>3 DEF Populated
    <2>5. n \in ToSet(numbers)
        BY <2>4, CellsOfTyped
    <2> QED
        BY <2>3, <2>5
<1>2. ASSUME NEW n, Populated(cells, n) # {} PROVE n \in RowsMeant(sheet)
    <2>1. PICK column \in Populated(cells, n) : TRUE
        BY <1>2
    <2>2. ReadAt(sheet, n, column) \in ValuesIn(sheet, n)
        BY <2>1, ValuesOfRow
    <2> QED
        BY <2>2 DEF RowsMeant, ValuesIn
<1>3. \A n : Cardinality(ValuesIn(sheet, n)) = Cardinality(Populated(cells, n))
    BY ValuesOfRow
<1>4. \A n : Cardinality(Populated(cells, n)) >= 2 => Populated(cells, n) # {}
    BY FS_EmptySet
<1>5. ASSUME NEW n \in ToSet(numbers) PROVE n \in 1 .. MaxMatrixRows
    <2>1. DOMAIN numbers = DOMAIN sheet.rows
        BY RowsNumbered
    <2>2. PICK k \in DOMAIN sheet.rows : n = numbers[k]
        BY <2>1 DEF ToSet
    <2> QED
        BY <2>2, GoodSheet
<1>6. HeadersMeant(sheet) = HeaderRows(sheet, cells)
    <2>1. ASSUME NEW n \in HeadersMeant(sheet) PROVE n \in HeaderRows(sheet, cells)
        BY <1>1, <1>3 DEF HeadersMeant, HeaderRows
    <2>2. ASSUME NEW n \in HeaderRows(sheet, cells) PROVE n \in HeadersMeant(sheet)
        BY <1>2, <1>3, <1>4 DEF HeadersMeant, HeaderRows
    <2> QED
        BY <2>1, <2>2
<1> QED
    BY <1>1, <1>5, <1>6

\* A text without a blank line is normal as it is.
LEMMA NormalWithoutBlank ==
    ASSUME NEW S, Blank \notin S, NEW t \in Seq(S)
    PROVE  Normalize(t) = t
<1> DEFINE inked == {i \in DOMAIN t : t[i] # Blank}
           n == Len(t)
<1>1. n \in Nat /\ DOMAIN t = 1 .. n /\ \A i \in 1 .. n : t[i] \in S
    BY LenProperties, ElementOfSeq
<1>2. inked = 1 .. n
    BY <1>1
<1>3. Normalize(t) = IF inked = {} THEN <<>> ELSE SubSeq(t, Min(inked), Max(inked))
    BY DEF Normalize
<1>4. CASE n = 0
    <2>1. inked = {} /\ t = <<>>
        BY <1>1, <1>2, <1>4, EmptySeq
    <2> QED
        BY <1>3, <2>1
<1>5. CASE n # 0
    <2>1. inked \in SUBSET Nat /\ inked \in SUBSET (0 .. n) /\ 1 \in inked /\ n \in inked
        BY <1>1, <1>2, <1>5
    <2>2. inked # {}
        BY <2>1
    <2> DEFINE low == Min(inked)
               high == Max(inked)
    <2>3. low \in inked /\ low <= 1 /\ high \in inked /\ high >= n
        BY <1>1, <2>1, <2>2, MinIsLeast, MaxIsGreatest
    <2> HIDE DEF low, high
    <2>4. low = 1 /\ high = n
        BY <1>1, <1>2, <2>3
    <2>5. SubSeq(t, 1, Len(t)) = t
        BY SubSeqFull
    <2> QED
        BY <1>3, <2>2, <2>4, <2>5 DEF low, high
<1> QED
    BY <1>4, <1>5

\* The header of a sheet that has one, and what is called for a row below it.
HeaderOf(sheet) == Min(HeaderRows(sheet, CellsOf(sheet)))

CallOf(sheet, row) == RowCall(sheet, CellsOf(sheet), HeaderOf(sheet), row)

RowsOf(sheet) == DataRows(sheet, CellsOf(sheet), HeaderOf(sheet))

EmptyIfBlank(text) == IF text = Blank THEN EmptyCell ELSE text

\* The text pairs count columns from left on: those of the header with those of
\* the row.
IsPaired(text, sheet, row, left, count) ==
    /\ left \in 1 .. MaxMatrixColumns /\ count \in Nat \ {0}
    /\ left .. left + count - 1 = Populated(CellsOf(sheet), HeaderOf(sheet))
    /\ Len(text) = count + count
    /\ \A k \in 1 .. count :
          /\ text[k] = TextAt(CellsOf(sheet), <<HeaderOf(sheet), left + k - 1>>)
          /\ text[count + k] = EmptyIfBlank(TextAt(CellsOf(sheet), <<row, left + k - 1>>))

LEMMA RowIsPaired ==
    ASSUME NEW sheet \in Sheets, ~IsRefused(sheet), HeaderRows(sheet, CellsOf(sheet)) # {}, NEW row
    PROVE  /\ \E left, count : IsPaired(CallOf(sheet, row).text, sheet, row, left, count)
           /\ IsClean(CallOf(sheet, row))
           /\ CallOf(sheet, row).at = [sheet |-> sheet.name, row |-> row]
           /\ CallOf(sheet, row).type = "TABLE"
<1> DEFINE cells == CellsOf(sheet)
           header == HeaderOf(sheet)
           columns == HeaderColumns(cells, header)
           some == Populated(cells, header)
           c == Cardinality(columns)
           left == Min(columns)
           at(r, k) == TextAt(cells, <<r, left + k - 1>>)
           heads == [k \in 1 .. c |-> at(header, k)]
           own == [k \in 1 .. c |-> EmptyIfBlank(at(row, k))]
           text == heads \o own
<1>1. ~IsBadSheet(sheet) /\ columns = some
    BY DEF IsRefused, HeaderOf, IsBadHeader
<1>2. /\ header \in HeaderRows(sheet, cells) /\ columns # {} /\ columns \in SUBSET Nat /\ c \in Nat
      /\ left \in columns /\ columns = left .. left + c - 1
    BY HeaderFound DEF HeaderOf
<1>3. CallOf(sheet, row) = Call("TABLE", 0, text, [sheet |-> sheet.name, row |-> row])
    <2>1. \A r : RowTexts(cells, r, columns) = [k \in 1 .. c |-> at(r, k)]
        BY DEF RowTexts
    <2>2. [k \in 1 .. c |-> IF RowTexts(cells, row, columns)[k] = Blank THEN EmptyCell
                            ELSE RowTexts(cells, row, columns)[k]] = own
        BY <2>1 DEF EmptyIfBlank
    <2>3. RowTexts(cells, header, columns) = heads
        BY <2>1
    <2> HIDE DEF heads, own
    <2> QED
        BY <2>2, <2>3 DEF CallOf, RowCall
<1>4. left \in 1 .. MaxMatrixColumns
    <2>1. PICK p \in DOMAIN cells : p[1] = header /\ p[2] = left
        BY <1>1, <1>2 DEF Populated
    <2>2. PICK e \in AllCells(sheet) : e.place = p
        BY CellsOfTyped
    <2>3. PICK k \in DOMAIN sheet.rows : \E j \in DOMAIN sheet.rows[k].cells :
              e.place = <<RowNumbers(sheet)[k], ColumnNumbers(sheet.rows[k])[j]>>
        BY DEF AllCells
    <2>4. PICK j \in DOMAIN sheet.rows[k].cells :
              e.place = <<RowNumbers(sheet)[k], ColumnNumbers(sheet.rows[k])[j]>>
        BY <2>3
    <2>5. left = ColumnNumbers(sheet.rows[k])[j]
        BY <2>1, <2>2, <2>4
    <2> QED
        BY <1>1, <2>5, GoodSheet
<1> HIDE DEF columns, left, c
<1>5. c # 0
    BY <1>2
<1>6. \A k \in 1 .. c : left + k - 1 \in columns
    BY <1>2
<1>7. ASSUME NEW k \in 1 .. c
      PROVE  at(header, k) \in Words /\ EmptyIfBlank(at(row, k)) \in Words \cup {EmptyCell}
    <2>1. \A r, column : /\ TextAt(cells, <<r, column>>) \in Letters
                         /\ column \in Populated(cells, r) => TextAt(cells, <<r, column>>) \in Words
        BY TextsAt
    <2> DEFINE column == left + k - 1
    <2>2. column \in some
        BY <1>1, <1>6
    <2> HIDE DEF column, cells, header
    <2>3. TextAt(cells, <<header, column>>) \in Words
        BY <2>1, <2>2
    <2>4. EmptyIfBlank(TextAt(cells, <<row, column>>)) \in Words \cup {EmptyCell}
        BY <2>1 DEF EmptyIfBlank, Letters
    <2> QED
        BY <2>3, <2>4 DEF column
<1> DEFINE T == Words \cup {EmptyCell}
<1>8. /\ heads = [k \in 1 .. c |-> heads[k]] /\ own = [k \in 1 .. c |-> own[k]]
      /\ \A k \in 1 .. c : heads[k] \in T /\ own[k] \in T
    BY <1>7
<1>9. \A k \in 1 .. c : heads[k] = at(header, k) /\ own[k] = EmptyIfBlank(at(row, k))
    OBVIOUS
<1>10. Blank \notin T
    BY EmptyCellAssumption, DocumentAssumption
<1> HIDE DEF heads, own, T, at
<1>11. heads \in Seq(T) /\ Len(heads) = c /\ own \in Seq(T) /\ Len(own) = c
    BY <1>2, <1>8, FunctionIsSeq
<1>12. /\ text \in Seq(T) /\ Len(text) = c + c
       /\ \A i \in 1 .. c + c : text[i] = IF i <= c THEN heads[i] ELSE own[i - c]
    <2>1. /\ heads \o own \in Seq(T) /\ Len(heads \o own) = Len(heads) + Len(own)
          /\ \A i \in 1 .. Len(heads) + Len(own) :
                 (heads \o own)[i] = IF i <= Len(heads) THEN heads[i] ELSE own[i - Len(heads)]
        BY <1>11, ConcatProperties
    <2> QED
        BY <1>11, <2>1
<1> HIDE DEF text
<1>13. ASSUME NEW k \in 1 .. c PROVE text[k] = heads[k] /\ text[c + k] = own[k]
    <2>1. k \in 1 .. c + c /\ k <= c /\ c + k \in 1 .. c + c /\ ~(c + k <= c) /\ c + k - c = k
        BY <1>2
    <2>2. text[k] = heads[k]
        BY <1>12, <2>1
    <2> DEFINE i == c + k
    <2>3. i \in 1 .. c + c /\ ~(i <= c) /\ i - c = k
        BY <1>2
    <2> HIDE DEF i
    <2>4. text[i] = own[i - c]
        BY <1>12, <2>3
    <2>5. text[i] = own[k]
        BY <2>3, <2>4
    <2> QED
        BY <2>2, <2>5 DEF i
<1>14. IsPaired(text, sheet, row, left, c)
    BY <1>1, <1>2, <1>4, <1>5, <1>9, <1>12, <1>13 DEF IsPaired, at
<1>15. Normalize(text) = text /\ text # <<>>
    <2>1. Len(text) # 0
        BY <1>2, <1>5, <1>12
    <2> QED
        BY <1>10, <1>12, <2>1, NormalWithoutBlank, EmptySeq
<1> QED
    BY <1>3, <1>14, <1>15 DEF IsClean, Call

\* A block with the text and the place of a row's call pairs its values.
LEMMA PairedRow ==
    ASSUME NEW sheet \in Sheets, ~IsRefused(sheet), HeaderRows(sheet, CellsOf(sheet)) # {},
           NEW block, block.locator.row \in RowsOf(sheet),
           block.text = CallOf(sheet, block.locator.row).text
    PROVE  Pairs(block, sheet)
<1> DEFINE cells == CellsOf(sheet)
           header == HeaderOf(sheet)
           columns == HeaderColumns(cells, header)
           text == block.text
           row == block.locator.row
           count == Len(block.text) \div 2
<1>1. PICK left, width : IsPaired(text, sheet, row, left, width)
    BY RowIsPaired
<1>2. IsPaired(text, sheet, row, left, count)
    <2>1. Len(text) = width + width /\ width \in Nat
        BY <1>1 DEF IsPaired
    <2>2. (width + width) \div 2 = width
        BY <2>1
    <2>3. count = width
        BY <2>1, <2>2
    <2> HIDE DEF count, text, row
    <2> QED
        BY <1>1, <2>3
<1> HIDE DEF count, row
<1>3. ~IsBadSheet(sheet) /\ columns = Populated(cells, header) /\ ~HasStray(sheet, cells, header)
    BY DEF IsRefused, HeaderOf, IsBadHeader
<1>4. header \in HeaderRows(sheet, cells) /\ header \in Nat
    BY HeaderFound DEF HeaderOf
<1>5. row \in ToSet(RowNumbers(sheet)) /\ row > header
    BY DEF RowsOf, DataRows, row
<1>6. Populated(cells, row) \subseteq Populated(cells, header)
    BY <1>3, <1>5 DEF HasStray
<1>7. /\ left \in 1 .. MaxMatrixColumns /\ left \in Nat /\ count \in Nat
      /\ left .. left + count - 1 = Populated(cells, header)
      /\ Len(text) = count + count
      /\ \A k \in 1 .. count :
            /\ text[k] = TextAt(cells, <<header, left + k - 1>>)
            /\ text[count + k] = EmptyIfBlank(TextAt(cells, <<row, left + k - 1>>))
    BY <1>2 DEF IsPaired
<1>8. header \in {c.row : c \in Values(sheet)}
    BY <1>3, <1>4, HeadersAgree DEF HeadersMeant, RowsMeant
<1>10. \A r, c : c \in ValuesIn(sheet, r) <=>
                     \E column \in Populated(cells, r) : c = ReadAt(sheet, r, column)
    BY <1>3, ValuesOfRow
<1>11. \A column : /\ TextAt(cells, <<row, column>>) \in Letters
                   /\ column \in Populated(cells, row) <=> TextAt(cells, <<row, column>>) \in Words
    BY TextsAt
<1>12. \A r, column : ReadAt(sheet, r, column) =
                          [row |-> r, column |-> column, text |-> TextAt(cells, <<r, column>>)]
    BY DEF ReadAt
<1>13. ASSUME NEW column \in Populated(cells, header)
       PROVE  column - left + 1 \in 1 .. count /\ left + (column - left + 1) - 1 = column
    BY <1>7
<1>14. \A k \in 1 .. count : left + k - 1 \in Populated(cells, header)
    BY <1>7
<1> HIDE DEF cells, header, columns, text
<1> DEFINE above(k) == [row |-> header, column |-> left + k - 1, text |-> text[k]]
           beside(k) == [row |-> row, column |-> left + k - 1, text |-> text[count + k]]
<1>15. {above(k) : k \in 1 .. count} = ValuesIn(sheet, header)
    <2>1. ASSUME NEW k \in 1 .. count PROVE above(k) \in ValuesIn(sheet, header)
        <3>1. above(k) = ReadAt(sheet, header, left + k - 1)
            BY <1>7, <1>12
        <3> HIDE DEF above
        <3> QED
            BY <1>10, <1>14, <3>1
    <2>2. ASSUME NEW c \in ValuesIn(sheet, header) PROVE \E k \in 1 .. count : c = above(k)
        <3>1. PICK column \in Populated(cells, header) : c = ReadAt(sheet, header, column)
            BY <1>10
        <3> DEFINE k == column - left + 1
        <3>2. k \in 1 .. count /\ left + k - 1 = column
            BY <1>13
        <3> HIDE DEF k
        <3>3. c = above(k)
            BY <1>7, <1>12, <3>1, <3>2
        <3> QED
            BY <3>2, <3>3
    <2> HIDE DEF above
    <2> QED
        BY <2>1, <2>2
<1>16. ValuesIn(sheet, row) = {c \in {beside(k) : k \in 1 .. count} : c.text # EmptyCell}
    <2>1. ASSUME NEW k \in 1 .. count, beside(k).text # EmptyCell
          PROVE  beside(k) \in ValuesIn(sheet, row)
        <3> DEFINE column == left + k - 1
                   value == TextAt(cells, <<row, column>>)
        <3>1. beside(k).text = EmptyIfBlank(value) /\ value \in Letters
            BY <1>7, <1>11
        <3> HIDE DEF value
        <3>2. value \in Words /\ EmptyIfBlank(value) = value
            BY <2>1, <3>1, DocumentAssumption DEF EmptyIfBlank, Letters
        <3>3. column \in Populated(cells, row)
            BY <1>11, <3>2 DEF value
        <3>4. beside(k) = ReadAt(sheet, row, column)
            BY <1>7, <1>12, <3>2 DEF value
        <3> HIDE DEF column, beside
        <3> QED
            BY <1>10, <3>3, <3>4
    <2>2. ASSUME NEW c \in ValuesIn(sheet, row)
          PROVE  \E k \in 1 .. count : c = beside(k) /\ c.text # EmptyCell
        <3>1. PICK column \in Populated(cells, row) : c = ReadAt(sheet, row, column)
            BY <1>10
        <3> DEFINE k == column - left + 1
                   value == TextAt(cells, <<row, column>>)
        <3>2. k \in 1 .. count /\ left + k - 1 = column
            BY <1>6, <1>13
        <3> HIDE DEF k
        <3>3. value \in Words
            BY <1>11
        <3>4. text[count + k] = EmptyIfBlank(value)
            BY <1>7, <3>2
        <3>5. c = [row |-> row, column |-> column, text |-> value]
            BY <1>12, <3>1
        <3> HIDE DEF value
        <3>6. EmptyIfBlank(value) = value /\ value # EmptyCell
            BY <3>3, DocumentAssumption, EmptyCellAssumption DEF EmptyIfBlank
        <3>7. c = beside(k) /\ c.text # EmptyCell
            BY <3>2, <3>4, <3>5, <3>6
        <3> QED
            BY <3>2, <3>7
    <2> HIDE DEF beside
    <2> QED
        BY <2>1, <2>2
<1>18. header < row
    BY <1>4, <1>5, RowsNumbered DEF ToSet
<1> QED
    BY <1>7, <1>8, <1>15, <1>16, <1>18 DEF Pairs, text, row, count

\* The calls for a sheet: one for each of its rows below the header.
LEMMA CallsOfRows ==
    ASSUME NEW sheet \in Sheets, ~IsRefused(sheet)
    PROVE  /\ \A k \in DOMAIN SheetCalls(sheet) :
                 /\ HeaderRows(sheet, CellsOf(sheet)) # {}
                 /\ \E row \in RowsOf(sheet) : SheetCalls(sheet)[k] = CallOf(sheet, row)
           /\ \A row \in RowsOf(sheet) : HeaderRows(sheet, CellsOf(sheet)) # {} =>
                  \E k \in DOMAIN SheetCalls(sheet) : SheetCalls(sheet)[k] = CallOf(sheet, row)
<1> DEFINE calls == SheetCalls(sheet)
           headers == HeaderRows(sheet, CellsOf(sheet))
           rows == RowsOf(sheet)
           S == {CallOf(sheet, row) : row \in rows}
           parts == [n \in 1 .. MaxMatrixRows |->
                        IF n \in rows THEN <<CallOf(sheet, n)>> ELSE <<>>]
<1>1. calls = IF headers = {} THEN <<>> ELSE FlattenSeq(parts)
    BY DEF SheetCalls, CallOf, RowsOf, HeaderOf
<1>2. CASE headers = {}
    <2>1. DOMAIN calls = {}
        BY <1>1, <1>2
    <2> QED
        BY <1>2, <2>1
<1>3. CASE headers # {}
    <2>1. \A n \in 1 .. MaxMatrixRows : parts[n] \in Seq(S)
        <3>1. \A n \in rows : CallOf(sheet, n) \in S
            OBVIOUS
        <3> HIDE DEF S
        <3>2. \A n \in rows : <<CallOf(sheet, n)>> \in Seq(S)
            BY <3>1
        <3> QED
            BY <3>2, EmptySeq
    <2>2. parts = [n \in 1 .. MaxMatrixRows |-> parts[n]]
        OBVIOUS
    <2>3. MaxMatrixRows \in Nat
        BY XlsxAssumption
    <2>4. \A n \in rows : n \in 1 .. MaxMatrixRows /\ parts[n] = <<CallOf(sheet, n)>>
        <3>1. ~IsBadSheet(sheet)
            BY DEF IsRefused
        <3>2. ASSUME NEW n \in rows PROVE n \in 1 .. MaxMatrixRows
            <4>1. n \in ToSet(RowNumbers(sheet))
                BY DEF RowsOf, DataRows
            <4>2. PICK k \in DOMAIN sheet.rows : n = RowNumbers(sheet)[k]
                BY <4>1, RowsNumbered DEF ToSet
            <4> QED
                BY <3>1, <4>2, GoodSheet
        <3> QED
            BY <3>2
    <2> DEFINE V == Seq(S)
    <2> HIDE DEF parts, S, V
    <2>5. parts \in Seq(V) /\ Len(parts) = MaxMatrixRows
        BY <2>1, <2>2, <2>3, FunctionIsSeq DEF V
    <2>6. parts \in Seq(Seq(S))
        BY <2>5 DEF V
    <2>7. calls \in Seq(S) /\ calls = FlattenSeq(parts)
        BY <1>1, <1>3, <2>6, FlattenedIsSeq
    <2> HIDE DEF calls
    <2>8. \A k \in DOMAIN calls : calls[k] \in S
        BY <2>7, LenProperties, ElementOfSeq
    <2>9. ASSUME NEW row \in rows PROVE \E k \in DOMAIN calls : calls[k] = CallOf(sheet, row)
        <3> DEFINE before == FlattenedTo(parts, row - 1)
                   upTo == FlattenedTo(parts, row)
                   here == parts[row]
        <3>1. row \in 1 .. Len(parts) /\ row \in 0 .. Len(parts)
            BY <2>3, <2>4, <2>5
        <3>2. /\ before \in Seq(S) /\ here \in Seq(S) /\ upTo = before \o here
            BY <2>6, <3>1, FlattenedToGrows
        <3>3. upTo \in Seq(S) /\ \E rest \in Seq(S) : FlattenSeq(parts) = upTo \o rest
            BY <2>6, <3>1, FlattenedToSplits
        <3>4. PICK rest \in Seq(S) : FlattenSeq(parts) = upTo \o rest
            BY <3>3
        <3>5. here = <<CallOf(sheet, row)>>
            BY <2>4
        <3> HIDE DEF before, upTo, here
        <3> DEFINE k == Len(before) + 1
                   call == CallOf(sheet, row)
        <3>6. /\ Len(before) \in Nat /\ Len(rest) \in Nat /\ Len(upTo) = Len(before) + Len(here)
              /\ \A i \in 1 .. Len(before) + Len(here) :
                    upTo[i] = IF i <= Len(before) THEN before[i] ELSE here[i - Len(before)]
            BY <3>2, <3>4, ConcatProperties, LenProperties
        <3> HIDE DEF call
        <3>7. Len(here) = 1 /\ here[1] = call
            BY <3>5 DEF call
        <3>8. Len(upTo) = k /\ upTo[k] = call /\ k \in Nat /\ k >= 1
            BY <3>6, <3>7
        <3> HIDE DEF k
        <3>9. /\ Len(calls) = Len(upTo) + Len(rest)
              /\ \A i \in 1 .. Len(upTo) + Len(rest) :
                    calls[i] = IF i <= Len(upTo) THEN upTo[i] ELSE rest[i - Len(upTo)]
            BY <2>7, <3>3, <3>4, ConcatProperties
        <3>10. calls[k] = call /\ k \in 1 .. Len(calls)
            BY <3>6, <3>8, <3>9
        <3>11. DOMAIN calls = 1 .. Len(calls)
            BY <2>7, LenProperties
        <3> QED
            BY <3>10, <3>11 DEF call
    <2> QED
        BY <1>3, <2>8, <2>9 DEF S, calls
<1> QED
    BY <1>2, <1>3

LEMMA PagesKeepColumns ==
    ASSUME WellTree(tree)
    PROVE  HtmlColumnsKept
<1> DEFINE nodes == tree.nodes
<1>1. AreNodes(nodes)
    BY DEF WellTree
<1> HIDE DEF nodes
<1>2. ASSUME NEW n \in DOMAIN nodes
      PROVE  \A i, j \in DOMAIN Placed(nodes, n) :
                 i < j => <<Placed(nodes, n)[j].row, Placed(nodes, n)[j].column>>
                              \notin Covered(Placed(nodes, n)[i])
    BY <1>1, PlacedTyped
<1> QED
    BY <1>2 DEF HtmlColumnsKept, nodes

-----------------------------------------------------------------------------
(* How often a word is said.                                                *)

\* A word occurs in two texts one after the other as often as in both.
LEMMA OccurrencesGrow ==
    ASSUME NEW S, NEW s \in Seq(S), NEW x \in S, NEW w
    PROVE  /\ Occurrences(s, w) \in Nat
           /\ Occurrences(Append(s, x), w) = Occurrences(s, w) + (IF x = w THEN 1 ELSE 0)
<1> DEFINE n == Len(s)
           more == Append(s, x)
           now == {k \in 1 .. n : s[k] = w}
           then == {k \in DOMAIN more : more[k] = w}
<1>1. n \in Nat /\ DOMAIN s = 1 .. n
    BY LenProperties
<1>2. DOMAIN more = 1 .. n + 1 /\ more[n + 1] = x /\ \A k \in 1 .. n : more[k] = s[k]
    BY AppendProperties, LenProperties
<1> HIDE DEF n, more
<1>3. IsFiniteSet(now)
    <2>1. IsFiniteSet(1 .. n)
        BY <1>1, FS_Interval
    <2> QED
        BY <2>1, FS_Subset
<1>4. then = IF x = w THEN now \cup {n + 1} ELSE now
    <2>1. \A k \in 1 .. n + 1 : k = n + 1 \/ k \in 1 .. n
        BY <1>1
    <2>2. n + 1 \in 1 .. n + 1 /\ \A k \in 1 .. n : k \in 1 .. n + 1
        BY <1>1
    <2> QED
        BY <1>2, <2>1, <2>2
<1>5. n + 1 \notin now
    BY <1>1
<1>6. Occurrences(s, w) = Cardinality(now) /\ Occurrences(more, w) = Cardinality(then)
    BY <1>1 DEF Occurrences
<1> HIDE DEF now, then
<1>7. Cardinality(now) \in Nat /\ Cardinality(now \cup {n + 1}) = Cardinality(now) + 1
    BY <1>3, <1>5, FS_CardinalityType, FS_AddElement
<1> QED
    BY <1>4, <1>6, <1>7 DEF more

LEMMA AppendJoined ==
    ASSUME NEW S, NEW s \in Seq(S), NEW t \in Seq(S), NEW x \in S
    PROVE  s \o Append(t, x) = Append(s \o t, x)
<1> DEFINE one == <<x>>
<1>1. one \in Seq(S) /\ s \o t \in Seq(S)
    BY ConcatProperties
<1>2. Append(t, x) = t \o one /\ Append(s \o t, x) = (s \o t) \o one
    BY <1>1, AppendIsConcat
<1> HIDE DEF one
<1> QED
    BY <1>1, <1>2, ConcatAssociative

LEMMA OccurrencesFew ==
    ASSUME NEW w
    PROVE  /\ Occurrences(<<>>, w) = 0
           /\ Occurrences(<<w>>, w) = 1
           /\ \A x : x # w => Occurrences(<<x>>, w) = 0
<1>1. \A k \in {} : FALSE
    OBVIOUS
<1>2. Cardinality({}) = 0 /\ Cardinality({1}) = 1
    BY FS_EmptySet, FS_Singleton
<1>3. Occurrences(<<>>, w) = 0
    <2>1. {k \in DOMAIN <<>> : <<>>[k] = w} = {}
        OBVIOUS
    <2> QED
        BY <1>2, <2>1 DEF Occurrences
<1>4. Occurrences(<<w>>, w) = 1
    <2>1. {k \in DOMAIN <<w>> : <<w>>[k] = w} = {1}
        OBVIOUS
    <2> QED
        BY <1>2, <2>1 DEF Occurrences
<1>5. ASSUME NEW x, x # w PROVE Occurrences(<<x>>, w) = 0
    <2>1. {k \in DOMAIN <<x>> : <<x>>[k] = w} = {}
        BY <1>5
    <2> QED
        BY <1>2, <2>1 DEF Occurrences
<1> QED
    BY <1>3, <1>4, <1>5

LEMMA OccurrencesJoined ==
    ASSUME NEW S, NEW s \in Seq(S), NEW t \in Seq(S), NEW w
    PROVE  /\ Occurrences(s, w) \in Nat
           /\ Occurrences(s \o t, w) = Occurrences(s, w) + Occurrences(t, w)
<1> DEFINE T == {u \in Seq(S) : /\ Occurrences(s, w) \in Nat
                                /\ Occurrences(u, w) \in Nat
                                /\ Occurrences(s \o u, w) = Occurrences(s, w) + Occurrences(u, w)}
           many == Occurrences(s, w)
<1>1. <<>> \in T
    <2>1. Occurrences(<<>>, w) = 0
        BY OccurrencesFew
    <2>2. s \o <<>> = s /\ <<>> \in Seq(S)
        BY ConcatEmptySeq, EmptySeq
    <2>3. many \in Nat
        <3>1. IsFiniteSet({k \in DOMAIN s : s[k] = w})
            <4>1. DOMAIN s = 1 .. Len(s) /\ Len(s) \in Nat
                BY LenProperties
            <4>2. IsFiniteSet(DOMAIN s)
                BY <4>1, FS_Interval
            <4> QED
                BY <4>2, FS_Subset
        <3> QED
            BY <3>1, FS_CardinalityType DEF Occurrences
    <2> HIDE DEF many
    <2>4. many = many + 0
        BY <2>3
    <2> QED
        BY <2>1, <2>2, <2>3, <2>4 DEF many
<1>2. ASSUME NEW u \in Seq(S), u \in T, NEW x \in S PROVE Append(u, x) \in T
    <2> DEFINE one == IF x = w THEN 1 ELSE 0
               now == Occurrences(u, w)
               both == Occurrences(s \o u, w)
    <2>1. s \o u \in Seq(S) /\ Append(u, x) \in Seq(S)
        BY ConcatProperties, AppendProperties
    <2>2. s \o Append(u, x) = Append(s \o u, x)
        BY AppendJoined
    <2>3. /\ Occurrences(Append(u, x), w) = now + one
          /\ Occurrences(Append(s \o u, x), w) = both + one
        <3> DEFINE v == s \o u
        <3>1. v \in Seq(S) /\ u \in Seq(S) /\ x \in S
            BY <2>1
        <3> HIDE DEF v
        <3>2. Occurrences(Append(u, x), w) = Occurrences(u, w) + (IF x = w THEN 1 ELSE 0)
            BY ONLY <3>1, OccurrencesGrow
        <3>3. Occurrences(Append(v, x), w) = Occurrences(v, w) + (IF x = w THEN 1 ELSE 0)
            BY ONLY <3>1, OccurrencesGrow
        <3> QED
            BY ONLY <3>2, <3>3 DEF v, now, both, one
    <2>4. many \in Nat /\ now \in Nat /\ both = many + now /\ one \in Nat
        BY <1>2
    <2> HIDE DEF one, now, both, many
    <2>5. both + one = many + (now + one) /\ now + one \in Nat
        BY <2>4
    <2> QED
        BY <2>1, <2>2, <2>3, <2>4, <2>5 DEF many
<1> HIDE DEF T
<1>3. t \in T
    BY <1>1, <1>2, SeqUpwards
<1> QED
    BY <1>3 DEF T

\* Of the nodes with this word, the text has each of the first set once, and no
\* more than the second.
Counted(w, text, least, most) ==
    /\ text \in Seq(Letters)
    /\ IsFiniteSet(most) /\ least \subseteq most
    /\ Cardinality(least) <= Occurrences(text, w)
    /\ Occurrences(text, w) <= Cardinality(most)

LEMMA CountedWider ==
    ASSUME NEW w, NEW text, NEW least, NEW most, Counted(w, text, least, most),
           NEW l, NEW m, l \subseteq least, most \subseteq m, IsFiniteSet(m)
    PROVE  Counted(w, text, l, m)
<1>1. /\ IsFiniteSet(most) /\ IsFiniteSet(least) /\ IsFiniteSet(l)
      /\ text \in Seq(Letters) /\ l \subseteq m
      /\ Cardinality(least) <= Occurrences(text, w)
      /\ Occurrences(text, w) <= Cardinality(most)
    BY FS_Subset DEF Counted
<1>2. Cardinality(l) <= Cardinality(least) /\ Cardinality(most) <= Cardinality(m)
    BY <1>1, FS_Subset
<1>3. /\ Cardinality(l) \in Nat /\ Cardinality(least) \in Nat /\ Cardinality(most) \in Nat
      /\ Cardinality(m) \in Nat
    BY <1>1, FS_CardinalityType
<1>4. Occurrences(text, w) \in Nat
    BY <1>1, OccurrencesJoined
<1>5. Cardinality(l) <= Occurrences(text, w) /\ Occurrences(text, w) <= Cardinality(m)
    BY <1>1, <1>2, <1>3, <1>4
<1> QED
    BY <1>1, <1>5 DEF Counted

LEMMA CountedFew ==
    ASSUME NEW w
    PROVE  /\ Counted(w, <<>>, {}, {})
           /\ \A n : w \in Letters => Counted(w, <<w>>, {n}, {n})
           /\ \A x \in Letters : x # w => Counted(w, <<x>>, {}, {})
<1>1. Cardinality({}) = 0 /\ IsFiniteSet({}) /\ \A n : Cardinality({n}) = 1 /\ IsFiniteSet({n})
    BY FS_EmptySet, FS_Singleton
<1>2. <<>> \in Seq(Letters) /\ \A x \in Letters : <<x>> \in Seq(Letters)
    BY EmptySeq
<1> QED
    BY <1>1, <1>2, OccurrencesFew DEF Counted

LEMMA CountedJoined ==
    ASSUME NEW w, NEW s, NEW ls, NEW ms, Counted(w, s, ls, ms),
           NEW t, NEW lt, NEW mt, Counted(w, t, lt, mt), ms \cap mt = {}
    PROVE  Counted(w, s \o t, ls \cup lt, ms \cup mt)
<1>1. /\ s \in Seq(Letters) /\ t \in Seq(Letters)
      /\ IsFiniteSet(ms) /\ IsFiniteSet(mt) /\ IsFiniteSet(ls) /\ IsFiniteSet(lt)
      /\ ls \cap lt = {} /\ ls \cup lt \subseteq ms \cup mt
    BY FS_Subset DEF Counted
<1>2. /\ s \o t \in Seq(Letters)
      /\ Occurrences(s \o t, w) = Occurrences(s, w) + Occurrences(t, w)
      /\ Occurrences(s, w) \in Nat /\ Occurrences(t, w) \in Nat
    BY <1>1, OccurrencesJoined, ConcatProperties
<1>3. /\ IsFiniteSet(ms \cup mt)
      /\ Cardinality(ms \cup mt) = Cardinality(ms) + Cardinality(mt)
    <2>1. Cardinality(ms \cap mt) = 0
        BY FS_EmptySet
    <2>2. Cardinality(ms) \in Nat /\ Cardinality(mt) \in Nat
        BY <1>1, FS_CardinalityType
    <2>3. /\ IsFiniteSet(ms \cup mt)
          /\ Cardinality(ms \cup mt) = Cardinality(ms) + Cardinality(mt) - Cardinality(ms \cap mt)
        BY <1>1, FS_Union
    <2> QED
        BY <2>1, <2>2, <2>3
<1>4. Cardinality(ls \cup lt) = Cardinality(ls) + Cardinality(lt)
    <2>1. Cardinality(ls \cap lt) = 0
        BY <1>1, FS_EmptySet
    <2>2. Cardinality(ls) \in Nat /\ Cardinality(lt) \in Nat
        BY <1>1, FS_CardinalityType
    <2>3. Cardinality(ls \cup lt) = Cardinality(ls) + Cardinality(lt) - Cardinality(ls \cap lt)
        BY <1>1, FS_Union
    <2> QED
        BY <2>1, <2>2, <2>3
<1>5. /\ Cardinality(ls) \in Nat /\ Cardinality(lt) \in Nat
      /\ Cardinality(ms) \in Nat /\ Cardinality(mt) \in Nat
    BY <1>1, FS_CardinalityType
<1>6. /\ Cardinality(ls) <= Occurrences(s, w) /\ Occurrences(s, w) <= Cardinality(ms)
      /\ Cardinality(lt) <= Occurrences(t, w) /\ Occurrences(t, w) <= Cardinality(mt)
    BY DEF Counted
<1>7. /\ Cardinality(ls \cup lt) <= Occurrences(s \o t, w)
      /\ Occurrences(s \o t, w) <= Cardinality(ms \cup mt)
    BY <1>2, <1>3, <1>4, <1>5, <1>6
<1> QED
    BY <1>1, <1>2, <1>3, <1>7 DEF Counted

\* The first elements of a sequence of parts, with one more.
FirstParts(parts, n) == [k \in 1 .. n |-> parts[k]]

LEMMA FirstPartsGrow ==
    ASSUME NEW V, NEW parts, NEW k \in Nat, \A i \in 1 .. k + 1 : parts[i] \in V
    PROVE  /\ FirstParts(parts, 0) = <<>>
           /\ FirstParts(parts, k) \in Seq(V)
           /\ FirstParts(parts, k + 1) = Append(FirstParts(parts, k), parts[k + 1])
<1> DEFINE front == FirstParts(parts, k)
           next == FirstParts(parts, k + 1)
           x == parts[k + 1]
<1>1. FirstParts(parts, 0) = <<>>
    <2>1. 1 .. 0 = {}
        OBVIOUS
    <2> QED
        BY <2>1 DEF FirstParts
<1>2. /\ front = [i \in 1 .. k |-> front[i]] /\ next = [i \in 1 .. k + 1 |-> next[i]]
      /\ \A i \in 1 .. k : front[i] = parts[i]
      /\ \A i \in 1 .. k + 1 : next[i] = parts[i]
    BY DEF FirstParts
<1>3. /\ \A i \in 1 .. k : i \in 1 .. k + 1
      /\ k + 1 \in 1 .. k + 1 /\ k + 1 \in Nat
    OBVIOUS
<1>4. /\ \A i \in 1 .. k : front[i] \in V
      /\ \A i \in 1 .. k + 1 : next[i] \in V
    BY <1>2, <1>3
<1>5. x \in V /\ next[k + 1] = x
    BY <1>2, <1>3
<1> HIDE DEF front, next, x
<1>6. front \in Seq(V) /\ Len(front) = k
    BY <1>2, <1>4, FunctionIsSeq
<1> DEFINE m == k + 1
<1>7. m \in Nat /\ next = [i \in 1 .. m |-> next[i]] /\ \A i \in 1 .. m : next[i] \in V
    BY <1>2, <1>3, <1>4
<1> HIDE DEF m
<1>8. next \in Seq(V) /\ Len(next) = m
    BY <1>7, FunctionIsSeq
<1>9. /\ Append(front, x) \in Seq(V) /\ Len(Append(front, x)) = k + 1
      /\ \A i \in 1 .. k : Append(front, x)[i] = front[i]
      /\ Append(front, x)[k + 1] = x
    BY <1>5, <1>6, AppendProperties
<1>10. \A i \in 1 .. k + 1 : i \in 1 .. k \/ i = k + 1
    OBVIOUS
<1>11. \A i \in 1 .. Len(next) : next[i] = Append(front, x)[i]
    BY <1>2, <1>3, <1>5, <1>8, <1>9, <1>10 DEF m
<1>12. next = Append(front, x)
    BY <1>8, <1>9, <1>11, SeqEqual DEF m
<1> QED
    BY <1>1, <1>6, <1>12 DEF front, next, x

\* What is counted is a text, or calls of the builder by what they say.
CountedAs(kind, w, s, least, most) ==
    Counted(w, IF kind = "calls" THEN Spoken(s) ELSE s, least, most)

\* Texts, or calls: no two of them have a node in common.
ArePieces(kind, S, w, parts, least, most, n) ==
    /\ parts = [k \in 1 .. n |-> parts[k]]
    /\ IF kind = "calls" THEN Saying(S, Letters) ELSE S = Letters
    /\ \A k \in 1 .. n : parts[k] \in Seq(S) /\ CountedAs(kind, w, parts[k], least[k], most[k])
    /\ \A j, k \in 1 .. n : j # k => most[j] \cap most[k] = {}

Together(sets, n) == UNION {sets[k] : k \in 1 .. n}

LEMMA PiecesCounted ==
    ASSUME NEW kind, NEW S, NEW w, NEW n \in Nat, NEW parts, NEW least, NEW most,
           ArePieces(kind, S, w, parts, least, most, n)
    PROVE  /\ FlattenSeq(parts) \in Seq(S)
           /\ CountedAs(kind, w, FlattenSeq(parts), Together(least, n), Together(most, n))
<1> DEFINE V == Seq(S)
           L(k) == Together(least, k)
           M(k) == Together(most, k)
           front(k) == FirstParts(parts, k)
           all(k) == FlattenSeq(front(k))
           T == {k \in 0 .. n : all(k) \in Seq(S) /\ CountedAs(kind, w, all(k), L(k), M(k))}
<1>1. /\ \A k \in 1 .. n : parts[k] \in V /\ CountedAs(kind, w, parts[k], least[k], most[k])
      /\ \A j, k \in 1 .. n : j # k => most[j] \cap most[k] = {}
      /\ IF kind = "calls" THEN Saying(S, Letters) ELSE S = Letters
      /\ parts = front(n)
    BY DEF ArePieces, FirstParts
<1>2. 0 \in T
    <2>1. front(0) = <<>>
        <3>1. 1 .. 0 = {}
            OBVIOUS
        <3> QED
            BY <3>1 DEF FirstParts
    <2>2. all(0) = <<>>
        BY <2>1, FlattenedFew, EmptySeq
    <2>3. L(0) = {} /\ M(0) = {}
        BY DEF Together
    <2>4. <<>> \in Seq(S) /\ Spoken(<<>>) = <<>>
        <3>1. Spoken(<<>>) = FlattenSeq(<<>>)
            BY DEF Spoken
        <3> QED
            BY <3>1, FlattenedFew, EmptySeq
    <2> HIDE DEF L, M, all
    <2>5. CountedAs(kind, w, <<>>, {}, {})
        BY <2>4, CountedFew DEF CountedAs
    <2>6. all(0) \in Seq(S) /\ CountedAs(kind, w, all(0), L(0), M(0))
        BY <2>2, <2>3, <2>4, <2>5
    <2>7. 0 \in 0 .. n
        OBVIOUS
    <2> QED
        BY <2>6, <2>7
<1>3. ASSUME NEW k \in 0 .. n - 1, k \in T PROVE k + 1 \in T
    <2> DEFINE f == front(k)
               x == parts[k + 1]
               now == all(k)
               ls == L(k)
               ms == M(k)
               lx == least[k + 1]
               mx == most[k + 1]
    <2>1. k \in Nat /\ k + 1 \in 1 .. n /\ k + 1 \in 0 .. n /\ \A i \in 1 .. k + 1 : i \in 1 .. n
        OBVIOUS
    <2>2. x \in V /\ CountedAs(kind, w, x, lx, mx)
        BY <1>1, <2>1
    <2>3. now \in Seq(S) /\ CountedAs(kind, w, now, ls, ms)
        BY <1>3
    <2>4. \A i \in 1 .. k + 1 : parts[i] \in V
        BY <1>1, <2>1
    <2>5. f \in Seq(V) /\ front(k + 1) = Append(f, x)
        <3> HIDE DEF V
        <3> QED
            BY <2>1, <2>4, FirstPartsGrow
    <2>6. all(k + 1) = now \o x
        <3> HIDE DEF f, x
        <3>1. FlattenSeq(Append(f, x)) = FlattenSeq(f) \o x
            BY <2>2, <2>5, FlattenedGrows
        <3> QED
            BY <2>5, <3>1 DEF f
    <2>7. L(k + 1) = ls \cup lx /\ M(k + 1) = ms \cup mx
        <3>1. 1 .. k + 1 = (1 .. k) \cup {k + 1}
            OBVIOUS
        <3> QED
            BY <3>1 DEF Together
    <2>8. ms \cap mx = {}
        <3>1. \A i \in 1 .. k : i \in 1 .. n /\ i # k + 1
            BY <2>1
        <3>2. \A i \in 1 .. k : most[i] \cap mx = {}
            BY <1>1, <2>1, <3>1
        <3> HIDE DEF mx
        <3> QED
            BY <3>2 DEF Together
    <2> HIDE DEF x, now, ls, ms, lx, mx, f, all, L, M
    <2>9. CountedAs(kind, w, now \o x, ls \cup lx, ms \cup mx)
        <3>1. CASE kind = "calls"
            <4>1. Saying(S, Letters)
                BY <1>1, <3>1
            <4>2. Spoken(now \o x) = Spoken(now) \o Spoken(x)
                BY <2>2, <2>3, <4>1, SpokenJoined
            <4> QED
                BY <2>2, <2>3, <2>8, <3>1, <4>2, CountedJoined DEF CountedAs
        <3>2. CASE kind # "calls"
            BY <2>2, <2>3, <2>8, <3>2, CountedJoined DEF CountedAs
        <3> QED
            BY <3>1, <3>2
    <2>10. now \o x \in Seq(S)
        BY <2>2, <2>3, ConcatProperties
    <2> QED
        BY <2>1, <2>6, <2>7, <2>9, <2>10
<1> HIDE DEF T
<1>4. 0 .. n \subseteq T
    BY <1>2, <1>3, Upwards
<1>5. n \in T
    BY <1>4
<1> QED
    BY <1>1, <1>5 DEF T

-----------------------------------------------------------------------------
(* The order of the nodes of a tree, and what is shown under each.          *)

\* Text and void elements hold nothing.
Childless == VoidTags \cup {"#text"}

\* Each node but the first, the document, is once the child of its parent, which
\* was there before it.
IsFamily(nodes) ==
    /\ AreNodes(nodes) /\ nodes # <<>> /\ nodes[1].tag = "document"
    /\ \A n \in DOMAIN nodes : n # 1 =>
          /\ nodes[n].parent \in 1 .. n - 1
          /\ \E k \in DOMAIN nodes[nodes[n].parent].kids : nodes[nodes[n].parent].kids[k] = n
    /\ \A n \in DOMAIN nodes :
          /\ \A k \in DOMAIN nodes[n].kids : nodes[nodes[n].kids[k]].parent = n
          /\ \A j, k \in DOMAIN nodes[n].kids : nodes[n].kids[j] = nodes[n].kids[k] => j = k
          /\ nodes[n].tag \in Childless => nodes[n].kids = <<>>
          /\ nodes[n].across \in Nat \ {0} /\ nodes[n].down \in Nat \ {0}

\* A child more leaves it a family.
LEMMA FamilyGrows ==
    ASSUME NEW nodes, IsFamily(nodes), NEW more, AreNodes(more),
           NEW parent, NEW node \in HtmlNodes, OneMoreNode(nodes, more, parent, node),
           node.kids = <<>>, node.across \in Nat \ {0}, node.down \in Nat \ {0},
           nodes[parent].tag \notin Childless
    PROVE  IsFamily(more)
<1> DEFINE N == Len(nodes)
           old == nodes[parent].kids
           c == Len(old)
<1>1. /\ N \in Nat \ {0} /\ DOMAIN nodes = 1 .. N /\ DOMAIN more = 1 .. N + 1
      /\ parent \in 1 .. N
    <2>1. nodes \in Seq(HtmlNodes) /\ more \in Seq(HtmlNodes) /\ nodes # <<>>
        BY DEF IsFamily, AreNodes
    <2>2. Len(more) = Len(nodes) + 1 /\ parent \in DOMAIN nodes
        BY DEF OneMoreNode
    <2> QED
        BY <2>1, <2>2, LenProperties, EmptySeq
<1>2. ASSUME NEW m \in 1 .. N
      PROVE  nodes[m] \in HtmlNodes /\ nodes[m].kids \in Seq(Nat)
    BY <1>1, KidsAreNodes DEF IsFamily
<1>3. /\ c \in Nat /\ DOMAIN old = 1 .. c
      /\ DOMAIN Append(old, N + 1) = 1 .. c + 1 /\ Append(old, N + 1)[c + 1] = N + 1
      /\ \A k \in 1 .. c : Append(old, N + 1)[k] = old[k]
    <2>1. old \in Seq(Nat) /\ N + 1 \in Nat
        BY <1>1, <1>2
    <2> HIDE DEF old, N
    <2> QED
        BY <2>1, AppendProperties, LenProperties
<1>4. /\ more[N + 1].kids = <<>> /\ more[N + 1].parent = parent
      /\ more[N + 1].across \in Nat \ {0} /\ more[N + 1].down \in Nat \ {0}
    <2>1. more[N + 1] = [node EXCEPT !.parent = parent]
        BY DEF OneMoreNode
    <2> QED
        BY <2>1 DEF HtmlNodes
<1>5. ASSUME NEW m \in 1 .. N
      PROVE  /\ more[m].parent = nodes[m].parent /\ more[m].tag = nodes[m].tag
             /\ more[m].across = nodes[m].across /\ more[m].down = nodes[m].down
             /\ more[m].kids = IF m = parent THEN Append(old, N + 1) ELSE nodes[m].kids
    <2>1. more[m] = IF m = parent THEN [nodes[parent] EXCEPT !.kids = Append(old, N + 1)]
                    ELSE nodes[m]
        BY <1>1 DEF OneMoreNode
    <2>2. nodes[parent] \in HtmlNodes
        BY <1>1, <1>2
    <2> HIDE DEF N, old
    <2> QED
        BY <2>1, <2>2 DEF HtmlNodes
<1>6. \A m \in 1 .. N : \A k \in DOMAIN nodes[m].kids : nodes[m].kids[k] \in m + 1 .. N
    BY <1>1 DEF IsFamily, AreNodes
<1> HIDE DEF N, c
<1>7. ASSUME NEW n \in 1 .. N + 1, n # 1
      PROVE  /\ more[n].parent \in 1 .. n - 1
             /\ \E k \in DOMAIN more[more[n].parent].kids : more[more[n].parent].kids[k] = n
    <2>1. CASE n = N + 1
        <3>1. more[parent].kids = Append(old, N + 1)
            BY <1>1, <1>5
        <3>2. c + 1 \in 1 .. c + 1
            BY <1>3
        <3>3. more[n].parent = parent
            BY <1>4, <2>1
        <3>4. more[parent].kids[c + 1] = n /\ c + 1 \in DOMAIN more[parent].kids
            BY <1>3, <2>1, <3>1, <3>2
        <3>5. parent \in 1 .. n - 1
            BY <1>1, <2>1
        <3> QED
            BY <3>3, <3>4, <3>5
    <2>2. CASE n # N + 1
        <3>1. n \in 1 .. N
            BY <1>1, <2>2
        <3> DEFINE p == nodes[n].parent
        <3>2. p \in 1 .. n - 1 /\ \E k \in DOMAIN nodes[p].kids : nodes[p].kids[k] = n
            BY <1>1, <1>7, <3>1 DEF IsFamily
        <3>3. PICK k \in DOMAIN nodes[p].kids : nodes[p].kids[k] = n
            BY <3>2
        <3>4. p \in 1 .. N /\ more[n].parent = p
            BY <1>1, <1>5, <3>1, <3>2
        <3> HIDE DEF p
        <3>5. k \in DOMAIN more[p].kids /\ more[p].kids[k] = n
            <4>1. CASE p = parent
                <5>1. more[p].kids = Append(old, N + 1) /\ k \in 1 .. c /\ k \in 1 .. c + 1
                    <6>1. more[p].kids = Append(old, N + 1)
                        BY <1>5, <3>4, <4>1
                    <6>2. k \in 1 .. c
                        BY <1>3, <4>1
                    <6> QED
                        BY <1>3, <6>1, <6>2
                <5> QED
                    BY <1>3, <3>3, <4>1, <5>1
            <4>2. CASE p # parent
                BY <1>5, <3>3, <3>4, <4>2
            <4> QED
                BY <4>1, <4>2
        <3> QED
            BY <3>2, <3>4, <3>5
    <2> QED
        BY <2>1, <2>2
<1>8. ASSUME NEW n \in 1 .. N + 1
      PROVE  /\ \A k \in DOMAIN more[n].kids : more[more[n].kids[k]].parent = n
             /\ \A j, k \in DOMAIN more[n].kids : more[n].kids[j] = more[n].kids[k] => j = k
             /\ more[n].tag \in Childless => more[n].kids = <<>>
             /\ more[n].across \in Nat \ {0} /\ more[n].down \in Nat \ {0}
    <2>1. CASE n = N + 1
        <3>1. more[n].kids = <<>> /\ DOMAIN <<>> = {}
            BY <1>4, <2>1, EmptySeq
        <3> QED
            BY <1>4, <2>1, <3>1
    <2>2. CASE n \in 1 .. N
        <3>1. /\ \A k \in DOMAIN nodes[n].kids : nodes[nodes[n].kids[k]].parent = n
              /\ \A j, k \in DOMAIN nodes[n].kids : nodes[n].kids[j] = nodes[n].kids[k] => j = k
              /\ nodes[n].tag \in Childless => nodes[n].kids = <<>>
              /\ nodes[n].across \in Nat \ {0} /\ nodes[n].down \in Nat \ {0}
            BY <1>1, <2>2 DEF IsFamily
        <3>2. \A k \in DOMAIN nodes[n].kids :
                  /\ nodes[n].kids[k] \in 1 .. N /\ nodes[n].kids[k] # N + 1
                  /\ more[nodes[n].kids[k]].parent = n
            <4> SUFFICES ASSUME NEW k \in DOMAIN nodes[n].kids
                         PROVE  /\ nodes[n].kids[k] \in 1 .. N /\ nodes[n].kids[k] # N + 1
                                /\ more[nodes[n].kids[k]].parent = n
                OBVIOUS
            <4>1. nodes[n].kids[k] \in n + 1 .. N
                BY <1>6, <2>2
            <4>2. nodes[n].kids[k] \in 1 .. N /\ nodes[n].kids[k] # N + 1
                BY <1>1, <2>2, <4>1
            <4> QED
                BY <1>5, <3>1, <4>2
        <3>3. CASE n = parent
            <4>1. more[n].kids = Append(old, N + 1) /\ nodes[n].kids = old
                BY <1>5, <2>2, <3>3
            <4>2. \A k \in 1 .. c + 1 : k \in 1 .. c \/ k = c + 1
                BY <1>3
            <4>3. \A k \in DOMAIN more[n].kids : more[more[n].kids[k]].parent = n
                BY <1>3, <1>4, <3>2, <3>3, <4>1, <4>2
            <4>4. \A j, k \in DOMAIN more[n].kids : more[n].kids[j] = more[n].kids[k] => j = k
                BY <1>3, <3>1, <3>2, <4>1, <4>2
            <4> QED
                BY <1>5, <2>2, <3>1, <3>3, <4>3, <4>4
        <3>4. CASE n # parent
            BY <1>5, <2>2, <3>1, <3>2, <3>4
        <3> QED
            BY <3>3, <3>4
    <2>3. n = N + 1 \/ n \in 1 .. N
        BY <1>1
    <2> QED
        BY <2>1, <2>2, <2>3
<1>9. more # <<>> /\ more[1].tag = "document"
    <2>1. more # <<>>
        BY <1>1, EmptySeq
    <2>2. 1 \in 1 .. N
        BY <1>1
    <2> QED
        BY <1>5, <2>1, <2>2 DEF IsFamily
<1> QED
    BY <1>1, <1>7, <1>8, <1>9 DEF IsFamily

\* A tree whose nodes are a family, and in which nothing that is open is childless.
IsGrown(t) ==
    /\ WellTree(t)
    /\ IsFamily(t.nodes)
    /\ \A k \in DOMAIN t.open : t.nodes[t.open[k]].tag \notin Childless

LEMMA NoTreeIsGrown == IsGrown(NoTree)
<1> DEFINE nodes == <<Root>>
           open == <<1>>
<1>1. /\ Root.kids = <<>> /\ Root.across = 1 /\ Root.down = 1 /\ Root.tag = "document"
      /\ DOMAIN Root.kids = {}
    BY EmptySeq DEF Root
<1>2. DOMAIN nodes = {1} /\ nodes[1] = Root /\ nodes # <<>> /\ DOMAIN open = {1} /\ open[1] = 1
    OBVIOUS
<1>3. NoTree.nodes = nodes /\ NoTree.open = open
    BY DEF NoTree
<1>4. AreNodes(nodes)
    BY <1>3, NoTreeIsWell DEF WellTree
<1>5. Root.tag \notin Childless
    BY <1>1 DEF Childless, VoidTags
<1> HIDE DEF nodes, open
<1>6. IsFamily(nodes)
    BY <1>1, <1>2, <1>4 DEF IsFamily
<1> QED
    BY <1>2, <1>3, <1>5, <1>6, NoTreeIsWell DEF IsGrown

\* It stays so when a text or an element is added to it, or elements are closed.
LEMMA GrownByNode ==
    ASSUME NEW t, IsGrown(t), NEW node \in HtmlNodes, node.kids = <<>>,
           node.across \in Nat \ {0}, node.down \in Nat \ {0}
    PROVE  /\ IsGrown(WithNode(t, node))
           /\ WithNode(t, node).nodes[Len(WithNode(t, node).nodes)].tag = node.tag
           /\ Len(WithNode(t, node).nodes) \in DOMAIN WithNode(t, node).nodes
<1> DEFINE more == WithNode(t, node).nodes
           parent == Last(t.open)
<1>1. /\ WellTree(WithNode(t, node)) /\ WithNode(t, node).open = t.open
      /\ Len(more) = Len(t.nodes) + 1
      /\ OneMoreNode(t.nodes, more, parent, node)
    BY NodeAdded DEF IsGrown
<1> HIDE DEF more
<1>2. /\ Len(t.open) \in DOMAIN t.open /\ Len(t.nodes) \in Nat
      /\ DOMAIN t.nodes = 1 .. Len(t.nodes)
      /\ \A k \in DOMAIN t.open : t.open[k] \in DOMAIN t.nodes
      /\ AreNodes(more) /\ DOMAIN more = 1 .. Len(more)
    <2>1. t.open \in Seq(Nat) /\ t.open # <<>> /\ t.nodes \in Seq(HtmlNodes)
        BY DEF IsGrown, WellTree
    <2>2. AreNodes(more)
        BY <1>1 DEF WellTree, more
    <2> QED
        BY <2>1, <2>2, LenProperties, EmptySeq DEF IsGrown, WellTree, AreNodes
<1>3. t.nodes[parent].tag \notin Childless
    BY <1>2 DEF IsGrown, Last
<1> HIDE DEF parent
<1>4. IsFamily(more)
    BY <1>1, <1>2, <1>3, FamilyGrows DEF IsGrown
<1>5. ASSUME NEW k \in DOMAIN t.open PROVE more[t.open[k]].tag \notin Childless
    <2> DEFINE m == t.open[k]
    <2>1. m \in DOMAIN t.nodes /\ t.nodes[m].tag \notin Childless
        BY <1>2 DEF IsGrown
    <2>2. more[m] = IF m = parent
                    THEN [t.nodes[parent] EXCEPT !.kids = Append(@, Len(t.nodes) + 1)]
                    ELSE t.nodes[m]
        BY <1>1, <2>1 DEF OneMoreNode
    <2> HIDE DEF m
    <2>3. t.nodes[m] \in HtmlNodes
        BY <2>1, KidsAreNodes DEF IsGrown, WellTree
    <2>4. more[m].tag = t.nodes[m].tag
        BY <2>2, <2>3 DEF HtmlNodes
    <2> QED
        BY <2>1, <2>4 DEF m
<1>6. IsGrown(WithNode(t, node))
    BY <1>1, <1>4, <1>5 DEF IsGrown, more
<1>7. more[Len(more)].tag = node.tag /\ Len(more) \in DOMAIN more
    <2>1. more[Len(more)] = [node EXCEPT !.parent = parent]
        BY <1>1 DEF OneMoreNode
    <2>2. Len(more) \in 1 .. Len(more)
        BY <1>1, <1>2
    <2> QED
        BY <1>2, <2>1, <2>2 DEF HtmlNodes
<1> QED
    BY <1>6, <1>7 DEF more

LEMMA GrownByCut ==
    ASSUME NEW t, IsGrown(t), NEW c \in 1 .. Len(t.open)
    PROVE  IsGrown([t EXCEPT !.open = SubSeq(@, 1, c)])
<1> DEFINE cut == SubSeq(t.open, 1, c)
           less == [t EXCEPT !.open = SubSeq(@, 1, c)]
<1>1. WellTree(less) /\ less.nodes = t.nodes
    BY OpenCut DEF IsGrown
<1>2. less = [nodes |-> t.nodes, open |-> cut]
    BY OpenUpdate DEF IsGrown
<1>3. less.open = cut
    BY <1>2
<1>4. t.open \in Seq(Nat) /\ Len(t.open) \in Nat /\ DOMAIN t.open = 1 .. Len(t.open)
    BY LenProperties DEF IsGrown, WellTree
<1>5. Len(cut) = c /\ cut \in Seq(Nat) /\ \A k \in 1 .. c : cut[k] = t.open[k]
    <2>1. \A k \in 1 .. c : t.open[k] \in Nat
        BY <1>4, ElementOfSeq
    <2> QED
        BY <1>4, <2>1, SubSeqProperties
<1> HIDE DEF cut, less
<1>6. \A k \in DOMAIN cut : k \in DOMAIN t.open /\ cut[k] = t.open[k]
    BY <1>4, <1>5, LenProperties
<1> QED
    BY <1>1, <1>3, <1>6 DEF IsGrown, less

LEMMA GrownByEnd ==
    ASSUME NEW t, IsGrown(t), NEW tag
    PROVE  IsGrown(EndTag(t, tag))
<1> DEFINE matching == {k \in 2 .. Len(t.open) : TagAt(t, k) = tag}
<1>1. Len(t.open) \in Nat
    BY LenProperties DEF WellTree, IsGrown
<1>2. CASE matching = {}
    BY <1>2 DEF EndTag
<1>3. CASE matching # {}
    <2>1. matching \in SUBSET (0 .. Len(t.open))
        BY <1>1
    <2>2. Max(matching) \in matching
        BY <1>1, <1>3, <2>1, MaxIsGreatest
    <2>3. Max(matching) - 1 \in 1 .. Len(t.open)
        BY <1>1, <2>2
    <2>4. EndTag(t, tag) = [t EXCEPT !.open = SubSeq(@, 1, Max(matching) - 1)]
        BY <1>3 DEF EndTag
    <2> HIDE DEF matching
    <2> QED
        BY <2>3, <2>4, GrownByCut
<1> QED
    BY <1>2, <1>3

LEMMA GrownByStart ==
    ASSUME NEW t, IsGrown(t), NEW event, event.tag \in STRING, event.tag # "#text",
           event.across \in Nat, event.down \in Nat
    PROVE  IsGrown(StartTag(t, event))
<1> DEFINE c == Unclosed(t, event.tag)
           closed == [t EXCEPT !.open = SubSeq(@, 1, c)]
           node == [Root EXCEPT !.tag = event.tag, !.across = Span(event.across),
                                !.down = Span(event.down)]
           started == WithNode(closed, node)
           last == Len(started.nodes)
           open == Append(started.open, last)
<1>1. IsGrown(closed)
    <2>1. c \in 1 .. Len(t.open)
        BY UnclosedIsOpen DEF IsGrown
    <2> HIDE DEF c
    <2> QED
        BY <2>1, GrownByCut
<1>2. /\ node \in HtmlNodes /\ node.kids = <<>> /\ node.tag = event.tag
      /\ node.across \in Nat \ {0} /\ node.down \in Nat \ {0}
    <2>1. Span(event.across) \in Nat \ {0} /\ Span(event.down) \in Nat \ {0}
        BY SpanAllowed
    <2> QED
        BY <2>1, EmptySeq DEF Root, HtmlNodes
<1> HIDE DEF closed, node
<1>3. /\ IsGrown(started) /\ started.nodes[last].tag = event.tag
      /\ last \in DOMAIN started.nodes
    BY <1>1, <1>2, GrownByNode
<1>4. StartTag(t, event) = IF event.tag \in VoidTags THEN started
                           ELSE [started EXCEPT !.open = open]
    BY DEF StartTag, closed, node, c
<1>5. WellTree(StartTag(t, event))
    BY StartTagKept DEF IsGrown
<1> HIDE DEF started, last
<1>6. CASE event.tag \notin VoidTags
    <2>1. StartTag(t, event) = [nodes |-> started.nodes, open |-> open]
        BY <1>3, <1>4, <1>6, OpenUpdate DEF IsGrown
    <2>2. event.tag \notin Childless
        BY <1>6 DEF Childless
    <2>3. /\ started.open \in Seq(Nat) /\ Len(started.open) \in Nat
          /\ DOMAIN started.open = 1 .. Len(started.open)
          /\ DOMAIN started.nodes = 1 .. Len(started.nodes) /\ last \in Nat
        BY <1>3, LenProperties DEF IsGrown, WellTree, last
    <2>4. /\ DOMAIN open = 1 .. Len(started.open) + 1 /\ open[Len(started.open) + 1] = last
          /\ \A k \in 1 .. Len(started.open) : open[k] = started.open[k]
        BY <2>3, AppendProperties, LenProperties
    <2> HIDE DEF open
    <2>5. ASSUME NEW k \in DOMAIN open PROVE started.nodes[open[k]].tag \notin Childless
        <3>1. k = Len(started.open) + 1 \/ k \in 1 .. Len(started.open)
            BY <2>3, <2>4
        <3>2. CASE k = Len(started.open) + 1
            BY <1>3, <2>2, <2>4, <3>2
        <3>3. CASE k \in 1 .. Len(started.open)
            BY <1>3, <2>3, <2>4, <3>3 DEF IsGrown
        <3> QED
            BY <3>1, <3>2, <3>3
    <2>6. IsFamily(started.nodes)
        BY <1>3 DEF IsGrown
    <2>7. StartTag(t, event).nodes = started.nodes /\ StartTag(t, event).open = open
        BY <2>1
    <2> QED
        BY <1>5, <2>5, <2>6, <2>7 DEF IsGrown
<1>7. CASE event.tag \in VoidTags
    BY <1>3, <1>4, <1>7
<1> QED
    BY <1>6, <1>7

\* What holds of the first node, and of each node whose parent it holds of, holds of all.
LEMMA FromTheRoot ==
    ASSUME NEW nodes, IsFamily(nodes), NEW T, 1 \in T,
           \A m \in DOMAIN nodes : m # 1 /\ nodes[m].parent \in T => m \in T
    PROVE  DOMAIN nodes \subseteq T
<1> DEFINE N == Len(nodes)
           P == {j \in 0 .. N : \A m \in 1 .. j : m \in T}
<1>1. N \in Nat /\ DOMAIN nodes = 1 .. N
    BY LenProperties DEF IsFamily, AreNodes
<1>2. \A m \in 1 .. N : m # 1 => nodes[m].parent \in 1 .. m - 1
    BY <1>1 DEF IsFamily
<1> HIDE DEF N
<1>3. 0 \in P
    BY <1>1
<1>4. ASSUME NEW j \in 0 .. N - 1, j \in P PROVE j + 1 \in P
    <2>1. j + 1 \in 1 .. N /\ j + 1 \in 0 .. N /\ j \in Nat
        BY <1>1
    <2>2. j + 1 \in T
        <3>1. CASE j + 1 = 1
            BY <3>1
        <3>2. CASE j + 1 # 1
            <4>1. nodes[j + 1].parent \in 1 .. j
                BY <1>2, <2>1, <3>2
            <4>2. nodes[j + 1].parent \in T
                BY <1>4, <4>1
            <4> QED
                BY <1>1, <2>1, <3>2, <4>2
        <3> QED
            BY <3>1, <3>2
    <2>3. \A m \in 1 .. j + 1 : m = j + 1 \/ m \in 1 .. j
        BY <2>1
    <2> QED
        BY <1>4, <2>1, <2>2, <2>3
<1> HIDE DEF P
<1>5. 0 .. N \subseteq P
    BY <1>1, <1>3, <1>4, Upwards
<1>6. N \in P
    BY <1>1, <1>5
<1> QED
    BY <1>1, <1>6 DEF P

IsAbove(g, nodes, n) ==
    g = [m \in 1 .. n |-> IF m = 1 THEN {} ELSE {nodes[m].parent} \cup g[nodes[m].parent]]

LEMMA AboveExists ==
    ASSUME NEW nodes, IsFamily(nodes)
    PROVE  \E g : IsAbove(g, nodes, Len(nodes))
<1> DEFINE N == Len(nodes)
           T == {j \in 0 .. N : \E g : IsAbove(g, nodes, j)}
<1>1. N \in Nat /\ DOMAIN nodes = 1 .. N
    BY LenProperties DEF IsFamily, AreNodes
<1>2. \A m \in 1 .. N : m # 1 => nodes[m].parent \in 1 .. m - 1
    BY <1>1 DEF IsFamily
<1> HIDE DEF N
<1>3. 0 \in T
    <2>1. IsAbove(<<>>, nodes, 0)
        <3>1. 1 .. 0 = {}
            OBVIOUS
        <3> QED
            BY <3>1 DEF IsAbove
    <2> QED
        BY <1>1, <2>1
<1>4. ASSUME NEW j \in 0 .. N - 1, j \in T PROVE j + 1 \in T
    <2> DEFINE n == j + 1
    <2>1. n \in 1 .. N /\ n \in 0 .. N /\ j \in Nat
        BY <1>1
    <2>2. PICK g : IsAbove(g, nodes, j)
        BY <1>4
    <2> DEFINE own == IF n = 1 THEN {} ELSE {nodes[n].parent} \cup g[nodes[n].parent]
               more == [m \in 1 .. n |-> IF m = n THEN own ELSE g[m]]
    <2>3. ASSUME NEW m \in 1 .. n
          PROVE  more[m] = IF m = 1 THEN {} ELSE {nodes[m].parent} \cup more[nodes[m].parent]
        <3> DEFINE p == nodes[m].parent
        <3>1. m # 1 => p \in 1 .. j /\ p # n /\ more[p] = g[p]
            <4>1. m \in 1 .. N
                <5>1. n \in 1 .. N /\ N \in Nat
                    BY <1>1, <2>1
                <5> HIDE DEF n, own, p
                <5> QED
                    BY <5>1
            <4>2. m # 1 => p \in 1 .. m - 1
                BY <1>2, <4>1
            <4>3. m # 1 => p \in 1 .. j /\ p # n /\ p \in 1 .. n
                BY <2>1, <4>2
            <4> HIDE DEF own, p, n
            <4> QED
                BY <4>3
        <3>2. CASE m = n
            <4>1. more[m] = own
                BY <3>2
            <4> HIDE DEF more
            <4> QED
                BY <3>1, <3>2, <4>1
        <3>3. CASE m # n
            <4>1. m \in 1 .. j /\ more[m] = g[m]
                BY <2>1, <3>3
            <4>2. g[m] = IF m = 1 THEN {} ELSE {p} \cup g[p]
                BY <2>2, <4>1 DEF IsAbove
            <4> HIDE DEF more
            <4> QED
                BY <3>1, <4>1, <4>2
        <3> QED
            BY <3>2, <3>3
    <2>4. IsAbove(more, nodes, n)
        <3> DEFINE given == [m \in 1 .. n |->
                       IF m = 1 THEN {} ELSE {nodes[m].parent} \cup more[nodes[m].parent]]
        <3>1. more = [m \in 1 .. n |-> more[m]]
            OBVIOUS
        <3> HIDE DEF more
        <3>2. \A m \in 1 .. n : more[m] = given[m]
            BY <2>3
        <3>3. more = given
            BY <3>1, <3>2
        <3> QED
            BY <3>3 DEF IsAbove
    <2> QED
        BY <2>1, <2>4
<1> HIDE DEF T
<1>5. 0 .. N \subseteq T
    BY <1>1, <1>3, <1>4, Upwards
<1>6. N \in T
    BY <1>1, <1>5
<1> QED
    BY <1>6 DEF T, N

\* Above a node are its parent and what is above that.
LEMMA AboveGiven ==
    ASSUME NEW nodes, IsFamily(nodes), NEW m \in DOMAIN nodes
    PROVE  Above(nodes)[m] = IF m = 1 THEN {}
                             ELSE {nodes[m].parent} \cup Above(nodes)[nodes[m].parent]
<1> DEFINE chosen == CHOOSE g : IsAbove(g, nodes, Len(nodes))
<1>1. DOMAIN nodes = 1 .. Len(nodes)
    BY LenProperties DEF IsFamily, AreNodes
<1>2. IsAbove(chosen, nodes, Len(nodes))
    BY AboveExists
<1>3. Above(nodes) = chosen
    BY <1>1 DEF Above, IsAbove
<1> HIDE DEF chosen
<1> QED
    BY <1>1, <1>2, <1>3 DEF IsAbove

\* It was there before, above it is what is above those, and each two of them are
\* one above the other.
LEMMA AboveOrdered ==
    ASSUME NEW nodes, IsFamily(nodes), NEW x \in DOMAIN nodes
    PROVE  /\ Above(nodes)[x] \subseteq 1 .. x - 1
           /\ Above(nodes)[x] \subseteq DOMAIN nodes
           /\ x # 1 => 1 \in Above(nodes)[x]
           /\ \A m \in Above(nodes)[x] : Above(nodes)[m] \subseteq Above(nodes)[x]
           /\ \A m, r \in Above(nodes)[x] : m < r => m \in Above(nodes)[r]
           /\ \A c, d \in {x} \cup Above(nodes)[x] :
                 c # 1 /\ d # 1 /\ nodes[c].parent = nodes[d].parent => c = d
<1> DEFINE above == Above(nodes)
           T == {y \in DOMAIN nodes :
                    /\ above[y] \subseteq 1 .. y - 1
                    /\ above[y] \subseteq DOMAIN nodes
                    /\ y # 1 => 1 \in above[y]
                    /\ \A m \in above[y] : above[m] \subseteq above[y]
                    /\ \A m, r \in above[y] : m < r => m \in above[r]
                    /\ \A c, d \in {y} \cup above[y] :
                          c # 1 /\ d # 1 /\ nodes[c].parent = nodes[d].parent => c = d}
<1>1. DOMAIN nodes = 1 .. Len(nodes) /\ Len(nodes) \in Nat \ {0}
    BY LenProperties, EmptySeq DEF IsFamily, AreNodes
<1>2. \A y \in DOMAIN nodes :
          above[y] = IF y = 1 THEN {} ELSE {nodes[y].parent} \cup above[nodes[y].parent]
    BY AboveGiven
<1>3. \A y \in DOMAIN nodes : y # 1 => nodes[y].parent \in 1 .. y - 1
    BY DEF IsFamily
<1> HIDE DEF above
<1>4. 1 \in T
    <2>1. 1 \in DOMAIN nodes
        <3> HIDE DEF T
        <3> QED
            BY <1>1
    <2>2. above[1] = {}
        <3> HIDE DEF T
        <3> QED
            BY <1>2, <2>1
    <2> QED
        BY <2>1, <2>2
<1>5. ASSUME NEW y \in DOMAIN nodes, y # 1, nodes[y].parent \in T PROVE y \in T
    <2> DEFINE p == nodes[y].parent
    <2>1. /\ p \in 1 .. y - 1 /\ p \in DOMAIN nodes /\ y \in Nat /\ above[y] = {p} \cup above[p]
          /\ p \in Nat /\ p < y
        <3> HIDE DEF T
        <3>1. p \in 1 .. y - 1
            BY <1>3, <1>5
        <3>2. above[y] = {p} \cup above[p]
            BY <1>2, <1>5
        <3>3. y \in 1 .. Len(nodes)
            BY <1>1
        <3> HIDE DEF p
        <3> QED
            BY <1>1, <3>1, <3>2, <3>3
    <2>2. /\ above[p] \subseteq 1 .. p - 1 /\ above[p] \subseteq DOMAIN nodes
          /\ p # 1 => 1 \in above[p]
          /\ \A m \in above[p] : above[m] \subseteq above[p]
          /\ \A m, r \in above[p] : m < r => m \in above[r]
          /\ \A c, d \in {p} \cup above[p] :
                c # 1 /\ d # 1 /\ nodes[c].parent = nodes[d].parent => c = d
        BY <1>5
    <2> HIDE DEF T
    <2>3. above[y] \subseteq 1 .. y - 1 /\ above[y] \subseteq DOMAIN nodes /\ 1 \in above[y]
        BY <2>1, <2>2
    <2>4. \A m \in above[y] : above[m] \subseteq above[y]
        BY <2>1, <2>2
    <2>5. ASSUME NEW m \in above[y], NEW r \in above[y], m < r PROVE m \in above[r]
        <3>1. CASE r = p
            BY <2>1, <2>5, <3>1
        <3>2. CASE r # p
            <4>1. r \in above[p] /\ r \in 1 .. p - 1
                BY <2>1, <2>2, <3>2
            <4>2. m # p
                BY <2>1, <2>5, <4>1
            <4> QED
                BY <2>1, <2>2, <2>5, <4>1, <4>2
        <3> QED
            BY <3>1, <3>2
    <2>6. ASSUME NEW c \in {y} \cup above[y], NEW d \in {y} \cup above[y], c # 1, d # 1,
                 nodes[c].parent = nodes[d].parent
          PROVE  c = d
        <3>1. ASSUME NEW e \in above[y], e # 1 PROVE nodes[e].parent # p
            <4>1. e \in 1 .. p /\ e \in DOMAIN nodes
                BY <2>1, <2>2
            <4>2. nodes[e].parent \in 1 .. e - 1
                BY <1>3, <3>1, <4>1
            <4> QED
                BY <2>1, <4>1, <4>2
        <3>2. CASE c = y \/ d = y
            BY <2>6, <3>1, <3>2
        <3>3. CASE c # y /\ d # y
            BY <2>1, <2>2, <2>6, <3>3
        <3> QED
            BY <3>2, <3>3
    <2> QED
        BY <2>3, <2>4, <2>5, <2>6 DEF T
<1> HIDE DEF T
<1>6. DOMAIN nodes \subseteq T
    BY <1>4, <1>5, FromTheRoot
<1> QED
    BY <1>6 DEF T, above

\* n is x, or x is under it.
Holds(nodes, n, x) == n = x \/ n \in Above(nodes)[x]

\* Between a node and one above it is a child of that.
LEMMA KidBetween ==
    ASSUME NEW nodes, IsFamily(nodes), NEW x \in DOMAIN nodes, NEW n \in Above(nodes)[x]
    PROVE  \E k \in DOMAIN nodes[n].kids : Holds(nodes, nodes[n].kids[k], x)
<1> DEFINE above == Above(nodes)
           T == {y \in DOMAIN nodes : \A m \in above[y] :
                    \E k \in DOMAIN nodes[m].kids :
                        nodes[m].kids[k] = y \/ nodes[m].kids[k] \in above[y]}
<1>1. \A y \in DOMAIN nodes :
          above[y] = IF y = 1 THEN {} ELSE {nodes[y].parent} \cup above[nodes[y].parent]
    BY AboveGiven
<1>2. \A y \in DOMAIN nodes : y # 1 =>
          \E k \in DOMAIN nodes[nodes[y].parent].kids : nodes[nodes[y].parent].kids[k] = y
    BY DEF IsFamily
<1>3. 1 \in DOMAIN nodes
    BY LenProperties, EmptySeq DEF IsFamily, AreNodes
<1> HIDE DEF above
<1>4. 1 \in T
    <2>1. above[1] = {}
        BY <1>1, <1>3
    <2> QED
        BY <1>3, <2>1
<1>5. ASSUME NEW y \in DOMAIN nodes, y # 1, nodes[y].parent \in T PROVE y \in T
    <2> DEFINE p == nodes[y].parent
    <2>1. above[y] = {p} \cup above[p]
        BY <1>1, <1>5
    <2>2. \A m \in above[p] : \E k \in DOMAIN nodes[m].kids :
              nodes[m].kids[k] = p \/ nodes[m].kids[k] \in above[p]
        BY <1>5
    <2>3. \E k \in DOMAIN nodes[p].kids : nodes[p].kids[k] = y
        BY <1>2, <1>5
    <2> HIDE DEF p
    <2>4. ASSUME NEW m \in above[y]
          PROVE  \E k \in DOMAIN nodes[m].kids :
                     nodes[m].kids[k] = y \/ nodes[m].kids[k] \in above[y]
        <3>1. CASE m = p
            BY <2>3, <3>1
        <3>2. CASE m # p
            BY <2>1, <2>2, <3>2
        <3> QED
            BY <3>1, <3>2
    <2> QED
        BY <2>4
<1> HIDE DEF T
<1>6. DOMAIN nodes \subseteq T
    BY <1>4, <1>5, FromTheRoot
<1> QED
    BY <1>6 DEF T, above, Holds

\* What is under a child is under its parent, and under no other child of it.
LEMMA UnderKid ==
    ASSUME NEW nodes, IsFamily(nodes), NEW n \in DOMAIN nodes, NEW x \in DOMAIN nodes,
           NEW k \in DOMAIN nodes[n].kids, Holds(nodes, nodes[n].kids[k], x)
    PROVE  /\ n \in Above(nodes)[x] /\ n < nodes[n].kids[k]
           /\ \A m \in Above(nodes)[x] : m > n => m >= nodes[n].kids[k]
           /\ \A j \in DOMAIN nodes[n].kids : Holds(nodes, nodes[n].kids[j], x) => j = k
<1> DEFINE above == Above(nodes)
           kids == nodes[n].kids
           c == kids[k]
<1>1. /\ \A j \in DOMAIN kids : kids[j] \in DOMAIN nodes /\ kids[j] > n
      /\ DOMAIN nodes = 1 .. Len(nodes) /\ Len(nodes) \in Nat
    BY KidsAreNodes DEF IsFamily
<1>2. /\ \A j \in DOMAIN kids : nodes[kids[j]].parent = n
      /\ \A i, j \in DOMAIN kids : kids[i] = kids[j] => i = j
    BY DEF IsFamily
<1>3. /\ c \in DOMAIN nodes /\ c > n /\ nodes[c].parent = n /\ c # 1
    BY <1>1, <1>2
<1>4. /\ above[c] = {n} \cup above[n] /\ above[n] \subseteq 1 .. n - 1
    <2> HIDE DEF c
    <2>1. above[c] = {n} \cup above[n]
        BY <1>3, AboveGiven
    <2>2. above[n] \subseteq 1 .. n - 1
        BY AboveOrdered
    <2> QED
        BY <2>1, <2>2
<1>5. /\ above[x] \subseteq DOMAIN nodes
      /\ \A m \in above[x] : above[m] \subseteq above[x]
      /\ \A m, r \in above[x] : m < r => m \in above[r]
      /\ \A i, j \in {x} \cup above[x] :
            i # 1 /\ j # 1 /\ nodes[i].parent = nodes[j].parent => i = j
    BY AboveOrdered
<1>6. c = x \/ c \in above[x]
    BY DEF Holds
<1> HIDE DEF c, above
<1>7. n \in above[x]
    BY <1>4, <1>5, <1>6
<1>8. ASSUME NEW m \in above[x], m > n PROVE m >= c
    <2>1. m \in Nat /\ c \in Nat /\ n \in Nat
        BY <1>1, <1>3, <1>5
    <2>2. m \notin above[c]
        BY <1>4, <1>8, <2>1
    <2>3. CASE c = x
        BY <2>2, <2>3
    <2>4. CASE c \in above[x]
        BY <1>5, <2>1, <2>2, <2>4
    <2> QED
        BY <1>6, <2>3, <2>4
<1>9. ASSUME NEW j \in DOMAIN kids, Holds(nodes, kids[j], x) PROVE j = k
    <2>1. kids[j] = x \/ kids[j] \in above[x]
        BY <1>9 DEF Holds, above
    <2>2. nodes[kids[j]].parent = n /\ kids[j] # 1
        BY <1>1, <1>2
    <2>3. kids[j] = c
        BY <1>3, <1>5, <1>6, <2>1, <2>2
    <2> QED
        BY <1>2, <2>3 DEF c
<1> QED
    BY <1>3, <1>7, <1>8, <1>9 DEF c, above

\* The texts with this word under a node, but for those in dropped elements,
Shown(nodes, w, n) ==
    {x \in DOMAIN nodes :
        /\ nodes[x].tag = "#text" /\ nodes[x].word = w /\ Holds(nodes, n, x)
        /\ \A m \in Above(nodes)[x] : m >= n => nodes[m].tag \notin DroppedTags}

\* and those of them that each table has in a cell of a row.
IsInCell(nodes, t, x) ==
    \E row, cell \in Above(nodes)[x] :
        /\ t < row /\ nodes[row].tag = "tr"
        /\ row < cell /\ nodes[cell].tag \in CellTags
        /\ \A m \in Above(nodes)[x] : t < m /\ m < cell => nodes[m].tag # "table"

Safe(nodes, w, n) ==
    {x \in Shown(nodes, w, n) : \A t \in Above(nodes)[x] :
        t >= n /\ nodes[t].tag = "table" => IsInCell(nodes, t, x)}

\* Those under some children of a node.
ShownIn(nodes, w, n, places) == UNION {Shown(nodes, w, nodes[n].kids[k]) : k \in places}

SafeIn(nodes, w, n, places) == UNION {Safe(nodes, w, nodes[n].kids[k]) : k \in places}

LEMMA ShownFinite ==
    ASSUME NEW nodes, AreNodes(nodes), NEW w, NEW n, NEW places
    PROVE  /\ IsFiniteSet(Shown(nodes, w, n)) /\ Safe(nodes, w, n) \subseteq Shown(nodes, w, n)
           /\ IsFiniteSet(ShownIn(nodes, w, n, places))
           /\ SafeIn(nodes, w, n, places) \subseteq ShownIn(nodes, w, n, places)
<1>1. IsFiniteSet(DOMAIN nodes)
    <2>1. DOMAIN nodes = 1 .. Len(nodes) /\ Len(nodes) \in Nat
        BY LenProperties DEF AreNodes
    <2> QED
        BY <2>1, FS_Interval
<1>2. \A m : Shown(nodes, w, m) \subseteq DOMAIN nodes /\ Safe(nodes, w, m) \subseteq Shown(nodes, w, m)
    BY DEF Shown, Safe
<1>3. ShownIn(nodes, w, n, places) \subseteq DOMAIN nodes
    BY <1>2 DEF ShownIn
<1>4. SafeIn(nodes, w, n, places) \subseteq ShownIn(nodes, w, n, places)
    BY <1>2 DEF ShownIn, SafeIn
<1> QED
    BY <1>1, <1>2, <1>3, <1>4, FS_Subset

\* Different children have different texts under them.
LEMMA ShownApart ==
    ASSUME NEW nodes, IsFamily(nodes), NEW w, NEW n \in DOMAIN nodes,
           NEW some \in SUBSET DOMAIN nodes[n].kids, NEW others \in SUBSET DOMAIN nodes[n].kids,
           some \cap others = {}
    PROVE  ShownIn(nodes, w, n, some) \cap ShownIn(nodes, w, n, others) = {}
<1>1. ASSUME NEW x \in ShownIn(nodes, w, n, some) \cap ShownIn(nodes, w, n, others)
      PROVE  FALSE
    <2>1. PICK j \in some : x \in Shown(nodes, w, nodes[n].kids[j])
        BY <1>1 DEF ShownIn
    <2>2. PICK k \in others : x \in Shown(nodes, w, nodes[n].kids[k])
        BY <1>1 DEF ShownIn
    <2>3. x \in DOMAIN nodes /\ Holds(nodes, nodes[n].kids[j], x) /\ Holds(nodes, nodes[n].kids[k], x)
        BY <2>1, <2>2 DEF Shown
    <2>4. j = k
        BY <2>3, UnderKid
    <2> QED
        BY <2>4
<1> QED
    BY <1>1

\* What is under a node is under its children, unless it is dropped.
LEMMA ShownSplit ==
    ASSUME NEW nodes, IsFamily(nodes), NEW w, NEW n \in DOMAIN nodes, nodes[n].tag # "#text"
    PROVE  /\ nodes[n].tag \notin DroppedTags =>
                  Shown(nodes, w, n) = ShownIn(nodes, w, n, DOMAIN nodes[n].kids)
           /\ nodes[n].tag \in DroppedTags => Shown(nodes, w, n) = {}
           /\ Safe(nodes, w, n) \subseteq SafeIn(nodes, w, n, DOMAIN nodes[n].kids)
<1> DEFINE kids == nodes[n].kids
<1>1. /\ \A k \in DOMAIN kids : kids[k] \in DOMAIN nodes
      /\ DOMAIN nodes = 1 .. Len(nodes) /\ Len(nodes) \in Nat
    BY KidsAreNodes DEF IsFamily
<1>2. ASSUME NEW x \in Shown(nodes, w, n)
      PROVE  /\ n \in Above(nodes)[x] /\ nodes[n].tag \notin DroppedTags
             /\ \E k \in DOMAIN kids : x \in Shown(nodes, w, kids[k]) /\ n < kids[k]
    <2>1. x \in DOMAIN nodes /\ nodes[x].tag = "#text" /\ Holds(nodes, n, x)
        BY <1>2 DEF Shown
    <2>2. n \in Above(nodes)[x]
        BY <2>1 DEF Holds
    <2>3. PICK k \in DOMAIN kids : Holds(nodes, kids[k], x)
        BY <2>1, <2>2, KidBetween
    <2>4. n < kids[k] /\ kids[k] \in Nat /\ n \in Nat /\ Above(nodes)[x] \subseteq Nat
        BY <1>1, <2>1, <2>3, UnderKid, AboveOrdered
    <2>5. nodes[n].tag \notin DroppedTags
        BY <1>2, <2>2, <2>4 DEF Shown
    <2> DEFINE c == kids[k]
    <2>6. c \in Nat /\ n < c /\ Holds(nodes, c, x)
        BY <2>3, <2>4
    <2> HIDE DEF c
    <2>7. \A m \in Above(nodes)[x] : m >= c => m >= n
        BY <2>4, <2>6
    <2>8. x \in Shown(nodes, w, c)
        BY <1>2, <2>6, <2>7 DEF Shown
    <2> QED
        BY <2>2, <2>4, <2>5, <2>8 DEF c
<1>3. ASSUME NEW k \in DOMAIN kids, NEW x \in Shown(nodes, w, kids[k]),
             nodes[n].tag \notin DroppedTags
      PROVE  x \in Shown(nodes, w, n)
    <2> DEFINE c == kids[k]
    <2>1. x \in DOMAIN nodes /\ Holds(nodes, c, x)
        BY <1>3 DEF Shown
    <2>2. n \in Above(nodes)[x] /\ n < c /\ \A m \in Above(nodes)[x] : m > n => m >= c
        BY <2>1, UnderKid
    <2>3. Above(nodes)[x] \subseteq Nat /\ n \in Nat
        BY <1>1, <2>1, AboveOrdered
    <2>4. \A m \in Above(nodes)[x] : m >= c => nodes[m].tag \notin DroppedTags
        BY <1>3 DEF Shown
    <2> HIDE DEF c
    <2>5. \A m \in Above(nodes)[x] : m >= n => m = n \/ m >= c
        BY <2>2, <2>3
    <2>6. \A m \in Above(nodes)[x] : m >= n => nodes[m].tag \notin DroppedTags
        BY <1>3, <2>4, <2>5
    <2> QED
        BY <1>3, <2>2, <2>6 DEF Shown, Holds
<1>4. ASSUME NEW x \in Safe(nodes, w, n)
      PROVE  \E k \in DOMAIN kids : x \in Safe(nodes, w, kids[k])
    <2>1. x \in Shown(nodes, w, n) /\ x \in DOMAIN nodes
        BY <1>4 DEF Safe, Shown
    <2>2. PICK k \in DOMAIN kids : x \in Shown(nodes, w, kids[k]) /\ n < kids[k]
        BY <1>2, <2>1
    <2> DEFINE c == kids[k]
    <2>3. c \in Nat /\ n \in Nat /\ Above(nodes)[x] \subseteq Nat
        BY <1>1, <2>1, AboveOrdered
    <2>4. n < c /\ x \in Shown(nodes, w, c)
        BY <2>2
    <2> HIDE DEF c
    <2>5. \A t \in Above(nodes)[x] : t >= c => t >= n
        BY <2>3, <2>4
    <2>6. x \in Safe(nodes, w, c)
        BY <1>4, <2>4, <2>5 DEF Safe
    <2> QED
        BY <2>6 DEF c
<1>5. nodes[n].tag \notin DroppedTags =>
          Shown(nodes, w, n) = ShownIn(nodes, w, n, DOMAIN nodes[n].kids)
    BY <1>2, <1>3 DEF ShownIn
<1>6. Safe(nodes, w, n) \subseteq SafeIn(nodes, w, n, DOMAIN nodes[n].kids)
    BY <1>4 DEF SafeIn
<1> QED
    BY <1>2, <1>5, <1>6

LEMMA ShownOfText ==
    ASSUME NEW nodes, IsFamily(nodes), NEW w, NEW n \in DOMAIN nodes, nodes[n].tag = "#text"
    PROVE  Shown(nodes, w, n) = IF nodes[n].word = w THEN {n} ELSE {}
<1>1. nodes[n].kids = <<>>
    BY DEF IsFamily, Childless
<1>2. ASSUME NEW x \in Shown(nodes, w, n) PROVE x = n
    <2>1. x \in DOMAIN nodes /\ Holds(nodes, n, x)
        BY DEF Shown
    <2>2. n \notin Above(nodes)[x]
        BY <1>1, <2>1, KidBetween
    <2> QED
        BY <2>1, <2>2 DEF Holds
<1>3. Above(nodes)[n] \subseteq 1 .. n - 1 /\ n \in Nat
    <2>1. DOMAIN nodes = 1 .. Len(nodes)
        BY LenProperties DEF IsFamily, AreNodes
    <2> QED
        BY <2>1, AboveOrdered
<1>4. \A m \in Above(nodes)[n] : ~(m >= n)
    BY <1>3
<1>5. nodes[n].word = w => n \in Shown(nodes, w, n)
    BY <1>4 DEF Shown, Holds
<1>6. n \in Shown(nodes, w, n) => nodes[n].word = w
    BY DEF Shown
<1> QED
    BY <1>2, <1>5, <1>6

-----------------------------------------------------------------------------
(* The walk over the children of a container.                               *)

\* The last place before k at which the text before it ends, and the places from
\* which text waits at k.
BreakBefore(breaks, k) == Max({0} \cup {b \in breaks : b < k})

Waiting(breaks, inline, k) == {j \in 1 .. k - 1 : j > BreakBefore(breaks, k) /\ j \in inline}

\* Each text waits at one place, the next break or the end.
LEMMA WaitingOnce ==
    ASSUME NEW m \in Nat, NEW breaks \in SUBSET (1 .. m), NEW inline \in SUBSET (1 .. m),
           breaks \cap inline = {}
    PROVE  /\ \A k \in 1 .. m + 1 : Waiting(breaks, inline, k) \in SUBSET (1 .. m)
           /\ \A k \in 1 .. m + 1 : Waiting(breaks, inline, k) \in SUBSET inline
           /\ \A j \in breaks, k \in 1 .. m + 1 : j < k =>
                 Waiting(breaks, inline, j) \cap Waiting(breaks, inline, k) = {}
           /\ \A i \in inline : \E k \in breaks \cup {m + 1} : i \in Waiting(breaks, inline, k)
<1>1. ASSUME NEW k \in 1 .. m + 1
      PROVE  LET last == BreakBefore(breaks, k)
             IN  /\ last = 0 \/ (last \in breaks /\ last < k)
                 /\ last \in Nat /\ \A b \in breaks : b < k => b <= last
    <2> DEFINE S == {0} \cup {b \in breaks : b < k}
    <2>1. S \in SUBSET (0 .. m) /\ 0 \in S
        <3>1. 0 \in 0 .. m /\ \A b \in breaks : b \in 0 .. m
            OBVIOUS
        <3> QED
            BY <3>1
    <2>2. Max(S) \in S /\ \A b \in S : Max(S) >= b
        BY <2>1, MaxIsGreatest
    <2> DEFINE last == Max(S)
    <2>3. BreakBefore(breaks, k) = last
        BY DEF BreakBefore
    <2> HIDE DEF last
    <2>4. last \in S /\ \A b \in S : last >= b
        BY <2>2 DEF last
    <2> QED
        BY <2>1, <2>3, <2>4
<1>2. ASSUME NEW j \in breaks, NEW k \in 1 .. m + 1, j < k,
             NEW i \in Waiting(breaks, inline, j) \cap Waiting(breaks, inline, k)
      PROVE  FALSE
    <2>1. j <= BreakBefore(breaks, k) /\ BreakBefore(breaks, k) \in Nat
        BY <1>1, <1>2
    <2>2. i \in 1 .. j - 1 /\ i > BreakBefore(breaks, k)
        BY DEF Waiting
    <2> QED
        BY <2>1, <2>2
<1>3. ASSUME NEW i \in inline
      PROVE  \E k \in breaks \cup {m + 1} : i \in Waiting(breaks, inline, k)
    <2> DEFINE after == {k \in breaks \cup {m + 1} : k > i}
    <2>1. after \in SUBSET Nat /\ m + 1 \in after
        <3>1. m + 1 \in Nat /\ m + 1 > i /\ \A b \in breaks : b \in Nat
            OBVIOUS
        <3> QED
            BY <3>1
    <2> DEFINE k == Min(after)
    <2>2. k \in after /\ \A b \in after : k <= b
        BY <2>1, MinIsLeast
    <2> HIDE DEF k
    <2>3. k \in breaks \cup {m + 1} /\ k > i /\ k \in 1 .. m + 1 /\ i \in 1 .. m
        BY <2>2
    <2> DEFINE stop == BreakBefore(breaks, k)
    <2>4. stop = 0 \/ (stop \in breaks /\ stop < k)
        BY <1>1, <2>3
    <2> HIDE DEF stop
    <2>5. stop < i
        <3>1. CASE stop = 0
            BY <2>3, <3>1
        <3>2. CASE stop \in breaks /\ stop < k
            <4>1. stop \notin after /\ stop \in 1 .. m /\ stop # i
                BY <2>2, <2>3, <3>2
            <4> QED
                BY <2>3, <3>2, <4>1
        <3> QED
            BY <2>4, <3>1, <3>2
    <2>6. i \in 1 .. k - 1
        BY <2>3
    <2>7. i > stop
        BY <2>3, <2>4, <2>5
    <2>8. i \in Waiting(breaks, inline, k)
        BY <2>6, <2>7 DEF Waiting, stop
    <2> QED
        BY <2>3, <2>8
<1>4. ASSUME NEW k \in 1 .. m + 1
      PROVE  Waiting(breaks, inline, k) \in SUBSET (1 .. m)
             /\ Waiting(breaks, inline, k) \in SUBSET inline
    BY DEF Waiting
<1> QED
    BY <1>2, <1>3, <1>4

-----------------------------------------------------------------------------
(* Each cell of a table is found once.                                      *)

\* Each two elements are in this relation.
AreApart(R, s) == \A i, j \in DOMAIN s : i # j => <<s[i], s[j]>> \in R

LEMMA ApartJoined ==
    ASSUME NEW S, NEW R, NEW s \in Seq(S), NEW t \in Seq(S), AreApart(R, s), AreApart(R, t),
           \A x \in ToSet(s), y \in ToSet(t) : <<x, y>> \in R /\ <<y, x>> \in R
    PROVE  AreApart(R, s \o t) /\ ToSet(s \o t) = ToSet(s) \cup ToSet(t)
<1> DEFINE a == Len(s)
           b == Len(t)
           all == s \o t
<1>1. a \in Nat /\ b \in Nat /\ DOMAIN s = 1 .. a /\ DOMAIN t = 1 .. b
    BY LenProperties
<1>2. /\ DOMAIN all = 1 .. a + b
      /\ \A i \in 1 .. a : all[i] = s[i]
      /\ \A i \in a + 1 .. a + b : all[i] = t[i - a] /\ i - a \in 1 .. b
    <2>1. all \in Seq(S) /\ Len(all) = a + b
        BY ConcatProperties
    <2>2. DOMAIN all = 1 .. a + b
        BY <2>1, LenProperties
    <2>3. \A i \in 1 .. a + b : all[i] = IF i <= a THEN s[i] ELSE t[i - a]
        BY ConcatProperties
    <2> HIDE DEF all, a, b
    <2> QED
        BY <1>1, <2>2, <2>3
<1>3. \A i \in 1 .. a + b : i \in 1 .. a \/ i \in a + 1 .. a + b
    BY <1>1
<1>4. /\ \A i \in 1 .. a : i \in 1 .. a + b /\ s[i] \in ToSet(s)
      /\ \A i \in 1 .. b : i + a \in a + 1 .. a + b /\ i + a \in 1 .. a + b
                           /\ (i + a) - a = i /\ t[i] \in ToSet(t)
    BY <1>1 DEF ToSet
<1> HIDE DEF all, a, b
<1>5. ASSUME NEW i \in 1 .. a + b, NEW j \in 1 .. a + b, i # j PROVE <<all[i], all[j]>> \in R
    <2>1. CASE i \in 1 .. a /\ j \in 1 .. a
        BY <1>1, <1>2, <1>5, <2>1 DEF AreApart
    <2>2. CASE i \in 1 .. a /\ j \in a + 1 .. a + b
        BY <1>2, <1>4, <2>2
    <2>3. CASE i \in a + 1 .. a + b /\ j \in 1 .. a
        BY <1>2, <1>4, <2>3
    <2>4. CASE i \in a + 1 .. a + b /\ j \in a + 1 .. a + b
        <3>1. i - a # j - a
            BY <1>1, <1>5, <2>4
        <3> QED
            BY <1>1, <1>2, <2>4, <3>1 DEF AreApart
    <2> QED
        BY <1>3, <2>1, <2>2, <2>3, <2>4
<1>6. ToSet(all) \subseteq ToSet(s) \cup ToSet(t)
    <2> SUFFICES ASSUME NEW i \in 1 .. a + b PROVE all[i] \in ToSet(s) \cup ToSet(t)
        BY <1>2 DEF ToSet
    <2> QED
        BY <1>2, <1>3, <1>4
<1>7. ToSet(s) \subseteq ToSet(all) /\ ToSet(t) \subseteq ToSet(all)
    <2>1. \A i \in 1 .. a + b : all[i] \in ToSet(all)
        BY <1>2 DEF ToSet
    <2>2. ASSUME NEW x \in ToSet(s) PROVE x \in ToSet(all)
        <3>1. PICK i \in 1 .. a : x = s[i]
            BY <1>1 DEF ToSet
        <3> QED
            BY <1>2, <1>4, <2>1, <3>1
    <2>3. ASSUME NEW x \in ToSet(t) PROVE x \in ToSet(all)
        <3>1. PICK i \in 1 .. b : x = t[i]
            BY <1>1 DEF ToSet
        <3>2. all[i + a] = t[i] /\ i + a \in 1 .. a + b
            BY <1>2, <1>4
        <3> QED
            BY <2>1, <3>1, <3>2
    <2> QED
        BY <2>2, <2>3
<1>8. AreApart(R, all)
    BY <1>2, <1>5 DEF AreApart
<1> QED
    BY <1>6, <1>7, <1>8 DEF all

\* Lists whose elements are apart, in each and from one to the other.
AreListsApart(S, R, lists, n) ==
    /\ lists = [k \in 1 .. n |-> lists[k]]
    /\ \A k \in 1 .. n : lists[k] \in Seq(S) /\ AreApart(R, lists[k])
    /\ \A j, k \in 1 .. n : j # k =>
          \A x \in ToSet(lists[j]), y \in ToSet(lists[k]) : <<x, y>> \in R

ElementsOf(lists, n) == UNION {ToSet(lists[k]) : k \in 1 .. n}

LEMMA ListsApart ==
    ASSUME NEW S, NEW R, NEW n \in Nat, NEW lists, AreListsApart(S, R, lists, n)
    PROVE  /\ AreApart(R, FlattenSeq(lists))
           /\ ToSet(FlattenSeq(lists)) = ElementsOf(lists, n)
<1> DEFINE V == Seq(S)
           front(k) == FirstParts(lists, k)
           all(k) == FlattenSeq(front(k))
           T == {k \in 0 .. n : /\ all(k) \in Seq(S) /\ AreApart(R, all(k))
                                /\ ToSet(all(k)) = ElementsOf(lists, k)}
<1>1. /\ \A k \in 1 .. n : lists[k] \in V /\ AreApart(R, lists[k])
      /\ \A j, k \in 1 .. n : j # k =>
             \A x \in ToSet(lists[j]), y \in ToSet(lists[k]) : <<x, y>> \in R
      /\ lists = front(n)
    BY DEF AreListsApart, FirstParts
<1>2. 0 \in T
    <2>1. front(0) = <<>>
        <3>1. 1 .. 0 = {}
            OBVIOUS
        <3> QED
            BY <3>1 DEF FirstParts
    <2>2. all(0) = <<>>
        BY <2>1, FlattenedFew, EmptySeq
    <2>3. ElementsOf(lists, 0) = {} /\ <<>> \in Seq(S) /\ DOMAIN <<>> = {}
        BY EmptySeq DEF ElementsOf
    <2>4. AreApart(R, <<>>) /\ ToSet(<<>>) = {}
        BY <2>3 DEF AreApart, ToSet
    <2>5. 0 \in 0 .. n
        OBVIOUS
    <2> HIDE DEF all
    <2> QED
        BY <2>2, <2>3, <2>4, <2>5
<1>3. ASSUME NEW k \in 0 .. n - 1, k \in T PROVE k + 1 \in T
    <2> DEFINE f == front(k)
               x == lists[k + 1]
               now == all(k)
    <2>1. k \in Nat /\ k + 1 \in 1 .. n /\ k + 1 \in 0 .. n /\ \A i \in 1 .. k + 1 : i \in 1 .. n
        OBVIOUS
    <2>2. x \in V /\ AreApart(R, x)
        BY <1>1, <2>1
    <2>3. now \in Seq(S) /\ AreApart(R, now) /\ ToSet(now) = ElementsOf(lists, k)
        BY <1>3
    <2>4. \A i \in 1 .. k + 1 : lists[i] \in V
        BY <1>1, <2>1
    <2>5. f \in Seq(V) /\ front(k + 1) = Append(f, x)
        <3> HIDE DEF V
        <3> QED
            BY <2>1, <2>4, FirstPartsGrow
    <2>6. all(k + 1) = now \o x
        <3> HIDE DEF f, x
        <3>1. FlattenSeq(Append(f, x)) = FlattenSeq(f) \o x
            BY <2>2, <2>5, FlattenedGrows
        <3> QED
            BY <2>5, <3>1 DEF f
    <2>7. ElementsOf(lists, k + 1) = ElementsOf(lists, k) \cup ToSet(x)
        <3>1. 1 .. k + 1 = (1 .. k) \cup {k + 1}
            OBVIOUS
        <3> QED
            BY <3>1 DEF ElementsOf
    <2>8. \A a \in ToSet(now), b \in ToSet(x) : <<a, b>> \in R /\ <<b, a>> \in R
        <3> SUFFICES ASSUME NEW a \in ToSet(now), NEW b \in ToSet(x)
                     PROVE  <<a, b>> \in R /\ <<b, a>> \in R
            OBVIOUS
        <3>1. PICK i \in 1 .. k : a \in ToSet(lists[i])
            BY <2>3 DEF ElementsOf
        <3>2. i \in 1 .. n /\ i # k + 1
            BY <2>1
        <3> QED
            BY <1>1, <2>1, <3>1, <3>2
    <2> HIDE DEF x, now, f, all
    <2>9. AreApart(R, now \o x) /\ ToSet(now \o x) = ToSet(now) \cup ToSet(x)
        BY <2>2, <2>3, <2>8, ApartJoined
    <2>10. now \o x \in Seq(S)
        BY <2>2, <2>3, ConcatProperties
    <2> QED
        BY <2>1, <2>3, <2>6, <2>7, <2>9, <2>10
<1> HIDE DEF T
<1>4. 0 .. n \subseteq T
    BY <1>2, <1>3, Upwards
<1>5. n \in T
    BY <1>4
<1> QED
    BY <1>1, <1>5 DEF T

LEMMA HoldsOn ==
    ASSUME NEW nodes, IsFamily(nodes), NEW x \in DOMAIN nodes, NEW n, NEW m,
           Holds(nodes, n, m), Holds(nodes, m, x)
    PROVE  Holds(nodes, n, x)
BY AboveOrdered DEF Holds

\* No node is under both.
Strangers(nodes) ==
    {pair \in (DOMAIN nodes) \X (DOMAIN nodes) : \A x \in DOMAIN nodes :
        ~(Holds(nodes, pair[1], x) /\ Holds(nodes, pair[2], x))}

LEMMA StrangersAre ==
    ASSUME NEW nodes, NEW x \in DOMAIN nodes, NEW y \in DOMAIN nodes
    PROVE  <<x, y>> \in Strangers(nodes) <=>
               \A z \in DOMAIN nodes : ~(Holds(nodes, x, z) /\ Holds(nodes, y, z))
<1> DEFINE pair == <<x, y>>
<1>1. pair \in (DOMAIN nodes) \X (DOMAIN nodes) /\ pair[1] = x /\ pair[2] = y
    OBVIOUS
<1> HIDE DEF pair
<1>2. pair \in Strangers(nodes) <=>
          \A z \in DOMAIN nodes : ~(Holds(nodes, pair[1], z) /\ Holds(nodes, pair[2], z))
    BY <1>1 DEF Strangers
<1> QED
    BY <1>1, <1>2 DEF pair

\* Nothing between the two is of these tags.
IsClear(nodes, n, x, tags) == \A m \in Above(nodes)[x] : m > n => nodes[m].tag \notin tags

\* The nodes in the list are under n, and whatever is under n in these tags, not
\* dropped and not beyond a table, is under one of them.
AreNearest(nodes, n, tags, list) ==
    /\ list \in Seq(DOMAIN nodes)
    /\ AreApart(Strangers(nodes), list)
    /\ \A e \in ToSet(list) : /\ e \in DOMAIN nodes /\ nodes[e].tag \in tags
                              /\ n \in Above(nodes)[e] /\ IsClear(nodes, n, e, DroppedTags)
    /\ \A r \in DOMAIN nodes :
          /\ n \in Above(nodes)[r] /\ nodes[r].tag \in tags
          /\ IsClear(nodes, n, r, DroppedTags \cup {"table"})
          => \E e \in ToSet(list) : Holds(nodes, e, r)

LEMMA NearestFound ==
    ASSUME NEW nodes, IsFamily(nodes), NEW tags,
           tags \cap (DroppedTags \cup {"#text", "table"}) = {}, NEW n \in DOMAIN nodes
    PROVE  AreNearest(nodes, n, tags, Nearest(nodes, tags)[n])
<1> DEFINE found == Nearest(nodes, tags)
           T == {m \in DOMAIN nodes : AreNearest(nodes, m, tags, found[m])}
<1>1. AreNodes(nodes)
    BY DEF IsFamily
<1>2. ASSUME NEW m \in DOMAIN nodes, \A k \in DOMAIN nodes[m].kids : nodes[m].kids[k] \in T
      PROVE  m \in T
    <2> DEFINE kids == nodes[m].kids
               ofKids == OfKids(found, nodes, m)
               c == Len(kids)
               D == DOMAIN nodes
               R == Strangers(nodes)
               parts == [k \in DOMAIN kids |->
                            LET tag == nodes[kids[k]].tag
                            IN  IF tag \in DroppedTags \cup {"#text"} THEN <<>>
                                ELSE IF tag \in tags THEN <<kids[k]>>
                                ELSE IF tag = "table" THEN <<>>
                                ELSE ofKids[k]]
    <2>1. /\ c \in Nat /\ DOMAIN kids = 1 .. c /\ \A k \in 1 .. c : kids[k] \in D /\ kids[k] > m
          /\ D = 1 .. Len(nodes) /\ m \in Nat
        BY <1>1, KidsAreNodes
    <2>2. found[m] = FlattenSeq(parts)
        <3>1. found[m] = NearestOf(nodes, m, tags, ofKids)
            BY <1>1, NearestGiven
        <3> HIDE DEF ofKids
        <3> QED
            BY <3>1 DEF NearestOf
    <2>3. parts = [k \in 1 .. c |-> parts[k]]
        BY <2>1
    <2>4. \A k \in 1 .. c : AreNearest(nodes, kids[k], tags, ofKids[k])
        BY <1>2, <2>1 DEF OfKids
    <2>5. ASSUME NEW k \in 1 .. c
          PROVE  \/ /\ parts[k] = <<>> /\ nodes[kids[k]].tag \notin tags
                    /\ nodes[kids[k]].tag \in DroppedTags \cup {"#text", "table"}
                 \/ parts[k] = <<kids[k]>> /\ nodes[kids[k]].tag \in tags
                 \/ /\ parts[k] = ofKids[k] /\ nodes[kids[k]].tag \notin tags
                    /\ nodes[kids[k]].tag \notin DroppedTags \cup {"#text", "table"}
        <3> DEFINE tag == nodes[kids[k]].tag
                   part == parts[k]
        <3>1. part = IF tag \in DroppedTags \cup {"#text"} THEN <<>>
                     ELSE IF tag \in tags THEN <<kids[k]>>
                     ELSE IF tag = "table" THEN <<>>
                     ELSE ofKids[k]
            BY <2>1
        <3> HIDE DEF parts, ofKids, c, part, tag
        <3>2. \/ /\ part = <<>> /\ tag \notin tags
                 /\ tag \in DroppedTags \cup {"#text", "table"}
              \/ part = <<kids[k]>> /\ tag \in tags
              \/ /\ part = ofKids[k] /\ tag \notin tags
                 /\ tag \notin DroppedTags \cup {"#text", "table"}
            <4>1. CASE tag \in DroppedTags \cup {"#text"}
                BY <3>1, <4>1
            <4>2. CASE tag \notin DroppedTags \cup {"#text"} /\ tag \in tags
                BY <3>1, <4>2
            <4>3. CASE tag \notin DroppedTags \cup {"#text"} /\ tag \notin tags
                BY <3>1, <4>3
            <4> QED
                BY <4>1, <4>2, <4>3
        <3> QED
            BY <3>2 DEF part, tag
    <2> HIDE DEF T, found, ofKids, parts, c
    <2>6. ASSUME NEW k \in 1 .. c
          PROVE  /\ parts[k] \in Seq(D) /\ AreApart(R, parts[k])
                 /\ \A e \in ToSet(parts[k]) :
                        /\ e \in D /\ nodes[e].tag \in tags /\ Holds(nodes, kids[k], e)
                        /\ m \in Above(nodes)[e] /\ IsClear(nodes, m, e, DroppedTags)
        <3> DEFINE kid == kids[k]
        <3>1. /\ kid \in D /\ kid > m /\ kid \in Nat
              /\ AreNearest(nodes, kid, tags, ofKids[k])
            BY <2>1, <2>4
        <3>2. \A e \in D : Holds(nodes, kid, e) =>
                  /\ m \in Above(nodes)[e] /\ Above(nodes)[e] \subseteq D
                  /\ \A a \in Above(nodes)[e] : a > m => a >= kid
            BY <2>1, UnderKid, AboveOrdered
        <3>3. CASE parts[k] = <<>>
            <4>1. <<>> \in Seq(D) /\ DOMAIN <<>> = {}
                BY EmptySeq
            <4>2. ToSet(<<>>) = {} /\ AreApart(R, <<>>)
                BY <4>1 DEF ToSet, AreApart
            <4> QED
                BY <3>3, <4>1, <4>2
        <3>4. CASE parts[k] = <<kid>> /\ nodes[kid].tag \in tags
            <4> DEFINE one == <<kid>>
            <4>1. DOMAIN one = {1} /\ one[1] = kid /\ one \in Seq(D)
                BY <3>1
            <4> HIDE DEF one, kid
            <4>2. ToSet(one) = {kid} /\ AreApart(R, one)
                BY <4>1 DEF ToSet, AreApart
            <4>3. Holds(nodes, kid, kid)
                BY DEF Holds
            <4>4. m \in Above(nodes)[kid]
                BY <3>1, <3>2, <4>3
            <4>5. IsClear(nodes, m, kid, DroppedTags)
                <5>1. \A a \in Above(nodes)[kid] : a < kid
                    <6>1. Above(nodes)[kid] \subseteq 1 .. kid - 1
                        BY <3>1, AboveOrdered
                    <6> QED
                        BY <3>1, <6>1
                <5>2. \A a \in Above(nodes)[kid] : a \in Nat
                    BY <2>1, <3>1, <3>2, <4>3
                <5> QED
                    BY <3>1, <3>2, <4>3, <5>1, <5>2 DEF IsClear
            <4>6. parts[k] = one
                BY <3>4 DEF one
            <4> QED
                BY <3>1, <3>4, <4>1, <4>2, <4>3, <4>4, <4>5, <4>6 DEF kid
        <3>5. CASE /\ parts[k] = ofKids[k] /\ nodes[kid].tag \notin tags
                   /\ nodes[kid].tag \notin DroppedTags \cup {"#text", "table"}
            <4> HIDE DEF kid
            <4>1. /\ ofKids[k] \in Seq(D) /\ AreApart(R, ofKids[k])
                  /\ \A e \in ToSet(ofKids[k]) : /\ e \in D /\ nodes[e].tag \in tags
                        /\ kid \in Above(nodes)[e] /\ IsClear(nodes, kid, e, DroppedTags)
                BY <3>1 DEF AreNearest
            <4>2. ASSUME NEW e \in ToSet(ofKids[k])
                  PROVE  /\ Holds(nodes, kid, e) /\ m \in Above(nodes)[e]
                         /\ IsClear(nodes, m, e, DroppedTags)
                <5>1. Holds(nodes, kid, e) /\ e \in D
                    BY <4>1 DEF Holds
                <5>2. ASSUME NEW a \in Above(nodes)[e], a > m
                      PROVE  nodes[a].tag \notin DroppedTags
                    <6>1. a >= kid /\ a \in Nat
                        BY <2>1, <3>2, <5>1, <5>2
                    <6>2. CASE a = kid
                        BY <3>5, <6>2
                    <6>3. CASE a > kid
                        BY <4>1, <6>3 DEF IsClear
                    <6> QED
                        BY <3>1, <6>1, <6>2, <6>3
                <5> QED
                    BY <3>2, <5>1, <5>2 DEF IsClear
            <4> QED
                BY <3>5, <4>1, <4>2 DEF kid
        <3> QED
            BY <2>5, <3>3, <3>4, <3>5
    <2>7. ASSUME NEW j \in 1 .. c, NEW k \in 1 .. c, j # k,
                 NEW x \in ToSet(parts[j]), NEW y \in ToSet(parts[k])
          PROVE  <<x, y>> \in R
        <3>1. x \in D /\ y \in D /\ Holds(nodes, kids[j], x) /\ Holds(nodes, kids[k], y)
            BY <2>6
        <3>2. ASSUME NEW z \in D, Holds(nodes, x, z), Holds(nodes, y, z) PROVE FALSE
            <4>1. Holds(nodes, kids[j], z) /\ Holds(nodes, kids[k], z)
                BY <3>1, <3>2, HoldsOn
            <4>2. j = k
                BY <2>1, <3>2, <4>1, UnderKid
            <4> QED
                BY <2>7, <4>2
        <3> QED
            BY <3>1, <3>2, StrangersAre
    <2>8. AreListsApart(D, R, parts, c)
        BY <2>3, <2>6, <2>7 DEF AreListsApart
    <2>9. /\ FlattenSeq(parts) \in Seq(D) /\ AreApart(R, FlattenSeq(parts))
          /\ ToSet(FlattenSeq(parts)) = ElementsOf(parts, c)
        <3>1. FlattenSeq(parts) \in Seq(D)
            BY <2>1, <2>3, <2>6, TextsFlattened
        <3> QED
            BY <2>1, <2>8, <3>1, ListsApart
    <2>10. ASSUME NEW r \in D, m \in Above(nodes)[r], nodes[r].tag \in tags,
                  IsClear(nodes, m, r, DroppedTags \cup {"table"})
           PROVE  \E e \in ElementsOf(parts, c) : Holds(nodes, e, r)
        <3>1. PICK k \in 1 .. c : Holds(nodes, kids[k], r)
            BY <2>1, <2>10, KidBetween
        <3> DEFINE kid == kids[k]
        <3>2. kid \in D /\ kid > m /\ kid \in Nat /\ Holds(nodes, kid, r)
              /\ AreNearest(nodes, kid, tags, ofKids[k])
            BY <2>1, <2>4, <3>1
        <3>3. \A e \in ToSet(parts[k]) : e \in ElementsOf(parts, c)
            BY DEF ElementsOf
        <3> HIDE DEF kid
        <3>4. CASE nodes[kid].tag \in tags
            <4> DEFINE one == <<kid>>
            <4>1. parts[k] = one
                BY <2>5, <3>4 DEF kid
            <4>2. DOMAIN one = {1} /\ one[1] = kid
                OBVIOUS
            <4> HIDE DEF one
            <4>3. kid \in ToSet(parts[k])
                BY <4>1, <4>2 DEF ToSet
            <4> QED
                BY <3>2, <3>3, <4>3
        <3>5. CASE nodes[kid].tag \notin tags
            <4>1. kid \in Above(nodes)[r]
                BY <2>10, <3>2, <3>5 DEF Holds
            <4>2. nodes[kid].tag \notin DroppedTags \cup {"table"}
                BY <2>10, <3>2, <4>1 DEF IsClear
            <4>3. nodes[kid].tag # "#text"
                <5>1. nodes[kid].kids # <<>>
                    <6>1. \E j \in DOMAIN nodes[kid].kids : Holds(nodes, nodes[kid].kids[j], r)
                        BY <2>10, <4>1, KidBetween
                    <6> QED
                        BY <6>1, EmptySeq
                <5> QED
                    BY <3>2, <5>1 DEF IsFamily, Childless
            <4>4. parts[k] = ofKids[k]
                BY <2>5, <3>5, <4>2, <4>3 DEF kid
            <4>5. IsClear(nodes, kid, r, DroppedTags \cup {"table"})
                <5>1. \A a \in Above(nodes)[r] : a \in Nat
                    BY <2>1, <2>10, AboveOrdered
                <5>2. \A a \in Above(nodes)[r] : a > kid => a > m
                    BY <2>1, <3>2, <5>1
                <5> QED
                    BY <2>10, <5>2 DEF IsClear
            <4>6. \E e \in ToSet(ofKids[k]) : Holds(nodes, e, r)
                BY <2>10, <3>2, <4>1, <4>5 DEF AreNearest
            <4> QED
                BY <3>3, <4>4, <4>6
        <3> QED
            BY <3>4, <3>5
    <2>11. \A e \in ElementsOf(parts, c) :
               /\ e \in D /\ nodes[e].tag \in tags
               /\ m \in Above(nodes)[e] /\ IsClear(nodes, m, e, DroppedTags)
        BY <2>6 DEF ElementsOf
    <2>12. AreNearest(nodes, m, tags, FlattenSeq(parts))
        BY <2>9, <2>10, <2>11 DEF AreNearest
    <2> QED
        BY <2>2, <2>12 DEF T
<1> HIDE DEF T
<1>3. DOMAIN nodes \subseteq T
    BY <1>1, <1>2, FromTheLeaves
<1> QED
    BY <1>3 DEF T

\* Cells of a row have their node in the list of that row.
RowList(nodes, r, list) ==
    [c \in DOMAIN list |-> [row |-> r, node |-> list[c],
                            across |-> nodes[list[c]].across, down |-> nodes[list[c]].down]]

\* Cells that stand in different nodes.
ApartCells(nodes) ==
    {pair \in TableCells(nodes) \X TableCells(nodes) :
        <<pair[1].node, pair[2].node>> \in Strangers(nodes)}

LEMMA ApartCellsAre ==
    ASSUME NEW nodes, NEW a \in TableCells(nodes), NEW b \in TableCells(nodes)
    PROVE  <<a, b>> \in ApartCells(nodes) <=> <<a.node, b.node>> \in Strangers(nodes)
<1> DEFINE pair == <<a, b>>
           V == TableCells(nodes)
<1>1. pair \in V \X V /\ pair[1] = a /\ pair[2] = b
    OBVIOUS
<1> HIDE DEF pair, V
<1>2. pair \in ApartCells(nodes) <=> <<pair[1].node, pair[2].node>> \in Strangers(nodes)
    BY <1>1 DEF ApartCells, V
<1> QED
    BY <1>1, <1>2 DEF pair

LEMMA RowListed ==
    ASSUME NEW nodes, IsFamily(nodes), NEW r \in Nat \ {0},
           NEW list, list \in Seq(DOMAIN nodes), AreApart(Strangers(nodes), list)
    PROVE  /\ RowList(nodes, r, list) \in Seq(TableCells(nodes))
           /\ AreApart(ApartCells(nodes), RowList(nodes, r, list))
           /\ \A cell \in ToSet(RowList(nodes, r, list)) :
                 /\ cell.row = r /\ cell.node \in ToSet(list)
                 /\ cell.across \in Nat \ {0} /\ cell.down \in Nat \ {0}
           /\ \A n \in ToSet(list) : \E cell \in ToSet(RowList(nodes, r, list)) : cell.node = n
<1> DEFINE V == TableCells(nodes)
           cells == RowList(nodes, r, list)
           m == Len(list)
<1>1. m \in Nat /\ DOMAIN list = 1 .. m /\ \A c \in 1 .. m : list[c] \in DOMAIN nodes
    BY LenProperties, ElementOfSeq
<1>2. cells = [c \in 1 .. m |-> cells[c]]
    BY <1>1 DEF RowList
<1>3. ASSUME NEW c \in 1 .. m
      PROVE  /\ cells[c] \in V /\ cells[c].node = list[c] /\ cells[c].row = r
             /\ cells[c].across \in Nat \ {0} /\ cells[c].down \in Nat \ {0}
    <2> DEFINE n == list[c]
    <2>1. cells[c] = [row |-> r, node |-> n, across |-> nodes[n].across, down |-> nodes[n].down]
        BY <1>1 DEF RowList
    <2>2. n \in DOMAIN nodes
        BY <1>1
    <2> HIDE DEF n, cells
    <2>3. nodes[n].across \in Nat \ {0} /\ nodes[n].down \in Nat \ {0}
        BY <2>2 DEF IsFamily
    <2> QED
        BY <2>1, <2>2, <2>3 DEF TableCells, n
<1> HIDE DEF cells, V, m
<1>4. DOMAIN cells = 1 .. m
    BY <1>2
<1>5. cells \in Seq(V)
    BY <1>1, <1>2, <1>3, FunctionIsSeq
<1>6. ASSUME NEW i \in DOMAIN cells, NEW j \in DOMAIN cells, i # j
      PROVE  <<cells[i], cells[j]>> \in ApartCells(nodes)
    <2>1. <<list[i], list[j]>> \in Strangers(nodes)
        BY <1>1, <1>4, <1>6 DEF AreApart
    <2>2. cells[i].node = list[i] /\ cells[j].node = list[j]
        BY <1>3, <1>4
    <2>3. cells[i] \in V /\ cells[j] \in V
        BY <1>3, <1>4
    <2> QED
        BY <2>1, <2>2, <2>3, ApartCellsAre DEF V
<1>7. \A cell \in ToSet(cells) :
          /\ cell.row = r /\ cell.node \in ToSet(list)
          /\ cell.across \in Nat \ {0} /\ cell.down \in Nat \ {0}
    BY <1>1, <1>3, <1>4 DEF ToSet
<1>8. \A n \in ToSet(list) : \E cell \in ToSet(cells) : cell.node = n
    BY <1>1, <1>3, <1>4 DEF ToSet
<1> QED
    BY <1>5, <1>6, <1>7, <1>8 DEF V, cells, AreApart

\* Each of these stands in a cell of a row of the table.
StandsInCell(nodes, table, x) ==
    \E row, cell \in Above(nodes)[x] :
        /\ table < row /\ nodes[row].tag = "tr"
        /\ row < cell /\ nodes[cell].tag \in CellTags
        /\ IsClear(nodes, table, cell, DroppedTags \cup {"table"})
        /\ table \in Above(nodes)[x]

\* The cells of a table are in it and apart, and what stands in a cell of a row is
\* in one of them.
LEMMA CellsFound ==
    ASSUME NEW nodes, IsFamily(nodes), NEW table \in DOMAIN nodes
    PROVE  /\ AreApart(ApartCells(nodes), CellsIn(nodes, table))
           /\ \A cell \in ToSet(CellsIn(nodes, table)) :
                 /\ cell.across \in Nat \ {0} /\ cell.down \in Nat \ {0}
                 /\ table \in Above(nodes)[cell.node]
                 /\ IsClear(nodes, table, cell.node, DroppedTags)
           /\ \A x \in DOMAIN nodes : StandsInCell(nodes, table, x) =>
                 \E cell \in ToSet(CellsIn(nodes, table)) : Holds(nodes, cell.node, x)
<1> DEFINE D == DOMAIN nodes
           V == TableCells(nodes)
           R == ApartCells(nodes)
           rows == Nearest(nodes, {"tr"})[table]
           found(r) == Nearest(nodes, CellTags)[rows[r]]
           parts == [r \in DOMAIN rows |-> RowList(nodes, r, found(r))]
           m == Len(rows)
<1>1. CellsIn(nodes, table) = FlattenSeq(parts)
    BY DEF CellsIn, RowList
<1>2. AreNearest(nodes, table, {"tr"}, rows)
    <2> DEFINE tags == {"tr"}
    <2>1. tags \cap (DroppedTags \cup {"#text", "table"}) = {}
        BY DEF DroppedTags
    <2> HIDE DEF tags
    <2>2. AreNearest(nodes, table, tags, Nearest(nodes, tags)[table])
        BY <2>1, NearestFound
    <2> QED
        BY <2>2 DEF tags
<1>3. ASSUME NEW n \in D PROVE AreNearest(nodes, n, CellTags, Nearest(nodes, CellTags)[n])
    <2>1. CellTags \cap (DroppedTags \cup {"#text", "table"}) = {}
        BY DEF DroppedTags, CellTags
    <2> QED
        BY <2>1, NearestFound
<1>4. D = 1 .. Len(nodes) /\ Len(nodes) \in Nat /\ table \in Nat
    BY LenProperties DEF IsFamily, AreNodes
<1> HIDE DEF rows
<1>5. /\ m \in Nat /\ DOMAIN rows = 1 .. m
      /\ \A r \in 1 .. m : rows[r] \in D /\ rows[r] \in ToSet(rows)
    <2>1. rows \in Seq(D)
        BY <1>2 DEF AreNearest
    <2> QED
        BY <2>1, LenProperties, ElementOfSeq DEF ToSet
<1>6. ASSUME NEW r \in 1 .. m
      PROVE  /\ parts[r] = RowList(nodes, r, found(r)) /\ r \in Nat \ {0}
             /\ AreNearest(nodes, rows[r], CellTags, found(r))
    BY <1>3, <1>5
<1>7. parts = [r \in 1 .. m |-> parts[r]]
    BY <1>5
<1> HIDE DEF parts, found, m
<1>8. ASSUME NEW r \in 1 .. m
      PROVE  /\ parts[r] \in Seq(V) /\ AreApart(R, parts[r])
             /\ \A cell \in ToSet(parts[r]) :
                    /\ cell \in V /\ cell.node \in ToSet(found(r))
                    /\ cell.across \in Nat \ {0} /\ cell.down \in Nat \ {0}
             /\ \A n \in ToSet(found(r)) : \E cell \in ToSet(parts[r]) : cell.node = n
    <2> DEFINE list == found(r)
    <2>1. list \in Seq(DOMAIN nodes) /\ AreApart(Strangers(nodes), list)
        BY <1>6 DEF AreNearest
    <2>2. parts[r] = RowList(nodes, r, list) /\ r \in Nat \ {0}
        BY <1>6
    <2> HIDE DEF list, V, R
    <2>3. /\ parts[r] \in Seq(V) /\ AreApart(R, parts[r])
          /\ \A cell \in ToSet(parts[r]) :
                 /\ cell.node \in ToSet(list)
                 /\ cell.across \in Nat \ {0} /\ cell.down \in Nat \ {0}
          /\ \A n \in ToSet(list) : \E cell \in ToSet(parts[r]) : cell.node = n
        BY <2>1, <2>2, RowListed DEF V, R
    <2>4. \A cell \in ToSet(parts[r]) : cell \in V
        BY <2>3, LenProperties, ElementOfSeq DEF ToSet
    <2> QED
        BY <2>3, <2>4 DEF list
<1>9. ASSUME NEW r \in 1 .. m, NEW n \in ToSet(found(r))
      PROVE  /\ n \in D /\ Holds(nodes, rows[r], n) /\ table \in Above(nodes)[n]
             /\ IsClear(nodes, table, n, DroppedTags)
    <2> DEFINE row == rows[r]
    <2>1. /\ row \in D /\ table \in Above(nodes)[row] /\ IsClear(nodes, table, row, DroppedTags)
          /\ nodes[row].tag = "tr"
        BY <1>2, <1>5 DEF AreNearest
    <2>2. n \in D /\ row \in Above(nodes)[n] /\ IsClear(nodes, row, n, DroppedTags)
        BY <1>6 DEF AreNearest
    <2> HIDE DEF row
    <2>3. /\ Above(nodes)[n] \subseteq D
          /\ \A a \in Above(nodes)[n] : Above(nodes)[a] \subseteq Above(nodes)[n]
          /\ \A a, b \in Above(nodes)[n] : a < b => a \in Above(nodes)[b]
        BY <2>2, AboveOrdered
    <2>4. table \in Above(nodes)[n] /\ row \in Nat
        BY <1>4, <2>1, <2>2, <2>3
    <2>5. ASSUME NEW a \in Above(nodes)[n], a > table
          PROVE  nodes[a].tag \notin DroppedTags
        <3>1. a \in Nat
            BY <1>4, <2>3
        <3>2. CASE a < row
            <4>1. a \in Above(nodes)[row]
                BY <2>2, <2>3, <3>2
            <4> QED
                BY <2>1, <2>5, <4>1 DEF IsClear
        <3>3. CASE a = row
            BY <2>1, <3>3 DEF DroppedTags
        <3>4. CASE a > row
            BY <2>2, <3>4 DEF IsClear
        <3> QED
            BY <2>4, <3>1, <3>2, <3>3, <3>4
    <2>6. Holds(nodes, row, n) /\ IsClear(nodes, table, n, DroppedTags)
        BY <2>2, <2>5 DEF Holds, IsClear
    <2> QED
        BY <2>2, <2>4, <2>6 DEF row
<1>10. ASSUME NEW i \in 1 .. m, NEW j \in 1 .. m, i # j,
              NEW a \in ToSet(parts[i]), NEW b \in ToSet(parts[j])
       PROVE  <<a, b>> \in R
    <2>1. /\ a \in V /\ a.node \in D /\ Holds(nodes, rows[i], a.node)
          /\ b \in V /\ b.node \in D /\ Holds(nodes, rows[j], b.node)
        BY <1>8, <1>9
    <2>2. <<rows[i], rows[j]>> \in Strangers(nodes) /\ rows[i] \in D /\ rows[j] \in D
        BY <1>2, <1>5, <1>10 DEF AreNearest, AreApart
    <2>3. ASSUME NEW z \in D, Holds(nodes, a.node, z), Holds(nodes, b.node, z) PROVE FALSE
        <3>1. Holds(nodes, rows[i], z) /\ Holds(nodes, rows[j], z)
            BY <2>1, <2>3, HoldsOn
        <3> QED
            BY <2>2, <2>3, <3>1, StrangersAre
    <2>4. <<a.node, b.node>> \in Strangers(nodes)
        BY <2>1, <2>3, StrangersAre
    <2> QED
        BY <2>1, <2>4, ApartCellsAre
<1>11. /\ AreApart(R, FlattenSeq(parts))
       /\ ToSet(FlattenSeq(parts)) = ElementsOf(parts, m)
    <2>1. AreListsApart(V, R, parts, m)
        BY <1>7, <1>8, <1>10 DEF AreListsApart
    <2> QED
        BY <1>5, <2>1, ListsApart
<1>12. ASSUME NEW cell \in ElementsOf(parts, m)
       PROVE  /\ cell.across \in Nat \ {0} /\ cell.down \in Nat \ {0}
              /\ table \in Above(nodes)[cell.node]
              /\ IsClear(nodes, table, cell.node, DroppedTags)
    <2>1. PICK r \in 1 .. m : cell \in ToSet(parts[r])
        BY DEF ElementsOf
    <2> QED
        BY <1>8, <1>9, <2>1
<1>13. ASSUME NEW x \in D, StandsInCell(nodes, table, x)
       PROVE  \E cell \in ElementsOf(parts, m) : Holds(nodes, cell.node, x)
    <2>1. PICK row \in Above(nodes)[x], cell \in Above(nodes)[x] :
              /\ table < row /\ nodes[row].tag = "tr"
              /\ row < cell /\ nodes[cell].tag \in CellTags
              /\ IsClear(nodes, table, cell, DroppedTags \cup {"table"})
              /\ table \in Above(nodes)[x]
        BY <1>13 DEF StandsInCell
    <2>2. /\ Above(nodes)[x] \subseteq D
          /\ \A a, b \in Above(nodes)[x] : a < b => a \in Above(nodes)[b]
        BY AboveOrdered
    <2>3. /\ row \in D /\ cell \in D /\ row \in Nat /\ cell \in Nat
          /\ row \in Above(nodes)[cell] /\ table \in Above(nodes)[row]
          /\ Holds(nodes, cell, x)
        BY <1>4, <2>1, <2>2 DEF Holds
    <2>4. /\ Above(nodes)[cell] \subseteq D
          /\ \A a \in Above(nodes)[cell] : Above(nodes)[a] \subseteq Above(nodes)[cell]
          /\ \A a, b \in Above(nodes)[cell] : a < b => a \in Above(nodes)[b]
        BY <2>3, AboveOrdered
    <2>5. IsClear(nodes, table, row, DroppedTags \cup {"table"})
        BY <2>1, <2>3, <2>4 DEF IsClear
    <2>6. PICK e \in ToSet(rows) : Holds(nodes, e, row)
        BY <1>2, <2>1, <2>3, <2>5 DEF AreNearest
    <2>7. PICK r \in 1 .. m : e = rows[r]
        BY <1>5, <2>6 DEF ToSet
    <2>8. e \in D /\ e \in Nat /\ e > table /\ e \in Above(nodes)[cell]
        <3>1. e \in D /\ table \in Above(nodes)[e]
            BY <1>2, <2>6 DEF AreNearest
        <3>2. Above(nodes)[e] \subseteq 1 .. e - 1
            BY <3>1, AboveOrdered
        <3>3. e \in Above(nodes)[cell]
            BY <2>3, <2>4, <2>6 DEF Holds
        <3> QED
            BY <1>4, <3>1, <3>2, <3>3
    <2>9. IsClear(nodes, e, cell, DroppedTags \cup {"table"})
        <3>1. \A a \in Above(nodes)[cell] : a > e => a > table
            BY <1>4, <2>4, <2>8
        <3> QED
            BY <2>1, <3>1 DEF IsClear
    <2>10. PICK f \in ToSet(found(r)) : Holds(nodes, f, cell)
        BY <1>6, <2>1, <2>3, <2>7, <2>8, <2>9 DEF AreNearest
    <2>11. Holds(nodes, f, x)
        BY <2>3, <2>10, HoldsOn
    <2>12. PICK c \in ToSet(parts[r]) : c.node = f
        BY <1>8, <2>10
    <2>13. c \in ElementsOf(parts, m)
        BY <2>12 DEF ElementsOf
    <2> QED
        BY <2>11, <2>12, <2>13
<1> QED
    BY <1>1, <1>11, <1>12, <1>13

\* Each cell of a table is put into a place as it is.
LEMMA PlacedAll ==
    ASSUME NEW nodes, AreNodes(nodes), NEW table \in DOMAIN nodes
    PROVE  LET cells == CellsIn(nodes, table)
               placed == Placed(nodes, table)
           IN  /\ Len(placed) = Len(cells) /\ Len(cells) \in Nat
               /\ DOMAIN cells = 1 .. Len(cells) /\ DOMAIN placed = 1 .. Len(cells)
               /\ \A k \in 1 .. Len(cells) :
                     /\ placed[k].row = cells[k].row /\ placed[k].node = cells[k].node
                     /\ placed[k].across = cells[k].across /\ placed[k].down = cells[k].down
<1> DEFINE cells == CellsIn(nodes, table)
           N == Len(cells)
           V == PlacedCells(nodes)
           As(put, cell) == /\ put.row = cell.row /\ put.node = cell.node
                            /\ put.across = cell.across /\ put.down = cell.down
<1>1. cells \in Seq(TableCells(nodes))
    BY CellsTyped
<1>2. N \in Nat /\ DOMAIN cells = 1 .. N /\ \A n \in 1 .. N : cells[n] \in TableCells(nodes)
    BY <1>1, LenProperties, ElementOfSeq
<1>3. PICK placed :
          /\ Placed(nodes, table) = placed[N]
          /\ placed[0] = <<>>
          /\ \A n \in 1 .. N : placed[n] = Append(placed[n - 1], InPlace(placed[n - 1], cells[n]))
    BY <1>1, PlacedGiven
<1>4. \A s, cell : As(InPlace(s, cell), cell)
    BY DEF InPlace
<1> HIDE DEF N, cells, As
<1> DEFINE T == {n \in 0 .. N : /\ placed[n] \in Seq(V) /\ Len(placed[n]) = n
                                /\ \A k \in 1 .. n : As(placed[n][k], cells[k])}
<1>5. 0 \in T
    <2>1. <<>> \in Seq(V) /\ Len(<<>>) = 0 /\ 1 .. 0 = {}
        BY EmptySeq
    <2>2. 0 \in 0 .. N
        BY <1>2
    <2> HIDE DEF V
    <2> QED
        BY <1>3, <2>1, <2>2
<1>6. ASSUME NEW k \in 0 .. N - 1, k \in T PROVE k + 1 \in T
    <2> DEFINE s == placed[k]
               new == InPlace(s, cells[k + 1])
               more == Append(s, new)
    <2>1. k + 1 \in 1 .. N /\ k + 1 \in 0 .. N /\ (k + 1) - 1 = k /\ k \in Nat
        BY <1>2
    <2>2. placed[k + 1] = more
        BY <1>3, <2>1
    <2>3. s \in Seq(V) /\ Len(s) = k /\ \A i \in 1 .. k : As(s[i], cells[i])
        BY <1>6
    <2>4. new \in V /\ As(new, cells[k + 1])
        BY <1>2, <1>4, <2>1, <2>3, InPlaceIsFree
    <2> HIDE DEF s, new, V
    <2>5. /\ more \in Seq(V) /\ Len(more) = k + 1 /\ more[k + 1] = new
          /\ \A i \in 1 .. k : more[i] = s[i]
        BY <2>3, <2>4, AppendProperties, LenProperties
    <2>6. ASSUME NEW i \in 1 .. k + 1 PROVE As(more[i], cells[i])
        <3>1. i \in 1 .. k \/ i = k + 1
            BY <2>1
        <3>2. CASE i \in 1 .. k
            BY <2>3, <2>5, <3>2
        <3>3. CASE i = k + 1
            BY <2>4, <2>5, <3>3
        <3> QED
            BY <3>1, <3>2, <3>3
    <2> HIDE DEF more
    <2> QED
        BY <2>1, <2>2, <2>5, <2>6
<1> HIDE DEF T
<1>7. 0 .. N \subseteq T
    BY <1>2, <1>5, <1>6, Upwards
<1>8. N \in T
    BY <1>2, <1>7
<1>9. DOMAIN placed[N] = 1 .. N
    BY <1>8, LenProperties DEF T
<1> QED
    BY <1>2, <1>3, <1>8, <1>9 DEF T, N, As, cells

\* The cells of a table stand in different places of the grid, none is under
\* another, and what stands in a cell of a row is in one of them.
LEMMA TableFilled ==
    ASSUME NEW nodes, IsFamily(nodes), NEW table \in DOMAIN nodes
    PROVE  LET placed == Placed(nodes, table)
           IN  /\ DOMAIN placed \subseteq Nat
               /\ \A k \in DOMAIN placed :
                     /\ placed[k].node \in DOMAIN nodes
                     /\ placed[k].row \in 1 .. TableHeight(nodes, table)
                     /\ placed[k].column \in 1 .. TableWidth(nodes, table)
                     /\ table \in Above(nodes)[placed[k].node]
                     /\ IsClear(nodes, table, placed[k].node, DroppedTags)
               /\ \A i, j \in DOMAIN placed : i # j =>
                     /\ ~(placed[i].row = placed[j].row /\ placed[i].column = placed[j].column)
                     /\ <<placed[i].node, placed[j].node>> \in Strangers(nodes)
               /\ \A x \in DOMAIN nodes : StandsInCell(nodes, table, x) =>
                     \E k \in DOMAIN placed : Holds(nodes, placed[k].node, x)
<1> DEFINE cells == CellsIn(nodes, table)
           placed == Placed(nodes, table)
           N == Len(cells)
           V == PlacedCells(nodes)
           height == TableHeight(nodes, table)
           width == TableWidth(nodes, table)
<1>1. AreNodes(nodes)
    BY DEF IsFamily
<1>2. /\ N \in Nat /\ DOMAIN cells = 1 .. N /\ DOMAIN placed = 1 .. N
      /\ \A k \in 1 .. N :
            /\ placed[k].row = cells[k].row /\ placed[k].node = cells[k].node
            /\ placed[k].across = cells[k].across /\ placed[k].down = cells[k].down
    BY <1>1, PlacedAll
<1>3. /\ placed \in Seq(V)
      /\ \A i, j \in DOMAIN placed :
            i < j => <<placed[j].row, placed[j].column>> \notin Covered(placed[i])
    BY <1>1, PlacedTyped
<1>4. /\ AreApart(ApartCells(nodes), cells)
      /\ \A cell \in ToSet(cells) :
            /\ cell.across \in Nat \ {0} /\ cell.down \in Nat \ {0}
            /\ table \in Above(nodes)[cell.node]
            /\ IsClear(nodes, table, cell.node, DroppedTags)
      /\ \A x \in DOMAIN nodes : StandsInCell(nodes, table, x) =>
            \E cell \in ToSet(cells) : Holds(nodes, cell.node, x)
    BY CellsFound
<1>5. cells \in Seq(TableCells(nodes))
    BY <1>1, CellsTyped
<1>6. /\ height \in Nat /\ width \in Nat
      /\ \A place \in Taken(placed, 1) : place[1] <= height /\ place[2] <= width
    BY <1>1, TableSize
<1>7. Taken(placed, 1) = UNION {Covered(placed[k]) : k \in DOMAIN placed}
    BY DEF Taken, ToSet
<1> HIDE DEF cells, placed, N, height, width
<1>8. \A k \in 1 .. N : cells[k] \in ToSet(cells) /\ cells[k] \in TableCells(nodes)
    BY <1>2, <1>5, ElementOfSeq DEF ToSet
<1>9. ASSUME NEW k \in 1 .. N
      PROVE  /\ placed[k].row \in Nat \ {0} /\ placed[k].column \in Nat \ {0}
             /\ placed[k].across \in Nat \ {0} /\ placed[k].down \in Nat \ {0}
             /\ placed[k].node \in DOMAIN nodes
    <2>1. placed[k] \in V
        BY <1>2, <1>3, ElementOfSeq
    <2> QED
        BY <1>2, <1>4, <1>8, <2>1 DEF PlacedCells
<1>10. ASSUME NEW k \in 1 .. N
       PROVE  /\ <<placed[k].row, placed[k].column>> \in Covered(placed[k])
              /\ placed[k].row \in 1 .. height /\ placed[k].column \in 1 .. width
    <2> DEFINE row == placed[k].row
               column == placed[k].column
               place == <<row, column>>
    <2>1. /\ row \in row .. row + placed[k].down - 1
          /\ column \in column .. column + placed[k].across - 1
        BY <1>9
    <2>2. place \in Covered(placed[k]) /\ place[1] = row /\ place[2] = column
        BY <2>1 DEF Covered
    <2> HIDE DEF place
    <2>3. place[1] <= height /\ place[2] <= width
        BY <1>2, <1>6, <1>7, <2>2
    <2> HIDE DEF row, column
    <2>4. row \in Nat \ {0} /\ column \in Nat \ {0}
        BY <1>9 DEF row, column
    <2>5. row \in 1 .. height /\ column \in 1 .. width
        BY <1>6, <2>2, <2>3, <2>4
    <2> QED
        BY <2>2, <2>5 DEF place, row, column
<1>11. ASSUME NEW i \in 1 .. N, NEW j \in 1 .. N, i # j
       PROVE  /\ ~(placed[i].row = placed[j].row /\ placed[i].column = placed[j].column)
              /\ <<placed[i].node, placed[j].node>> \in Strangers(nodes)
    <2>1. ~(placed[i].row = placed[j].row /\ placed[i].column = placed[j].column)
        <3>1. CASE i < j
            BY <1>2, <1>3, <1>10, <3>1
        <3>2. CASE j < i
            BY <1>2, <1>3, <1>10, <3>2
        <3> QED
            BY <1>2, <1>11, <3>1, <3>2
    <2>2. <<cells[i], cells[j]>> \in ApartCells(nodes)
        BY <1>2, <1>4, <1>11 DEF AreApart
    <2>3. <<cells[i].node, cells[j].node>> \in Strangers(nodes)
        BY <1>8, <2>2, ApartCellsAre
    <2> QED
        BY <1>2, <2>1, <2>3
<1>12. \A k \in 1 .. N : /\ table \in Above(nodes)[placed[k].node]
                         /\ IsClear(nodes, table, placed[k].node, DroppedTags)
    BY <1>2, <1>4, <1>8
<1>13. ASSUME NEW x \in DOMAIN nodes, StandsInCell(nodes, table, x)
       PROVE  \E k \in 1 .. N : Holds(nodes, placed[k].node, x)
    <2>1. PICK cell \in ToSet(cells) : Holds(nodes, cell.node, x)
        BY <1>4, <1>13
    <2>2. PICK k \in 1 .. N : cell = cells[k]
        BY <1>2 DEF ToSet
    <2> QED
        BY <1>2, <2>1, <2>2
<1>14. DOMAIN placed \subseteq Nat
    BY <1>2
<1>15. \A k \in DOMAIN placed :
           /\ placed[k].node \in DOMAIN nodes
           /\ placed[k].row \in 1 .. height
           /\ placed[k].column \in 1 .. width
           /\ table \in Above(nodes)[placed[k].node]
           /\ IsClear(nodes, table, placed[k].node, DroppedTags)
    BY <1>2, <1>9, <1>10, <1>12
<1>16. \A i, j \in DOMAIN placed : i # j =>
           /\ ~(placed[i].row = placed[j].row /\ placed[i].column = placed[j].column)
           /\ <<placed[i].node, placed[j].node>> \in Strangers(nodes)
    BY <1>2, <1>11
<1>17. \A x \in DOMAIN nodes : StandsInCell(nodes, table, x) =>
           \E k \in DOMAIN placed : Holds(nodes, placed[k].node, x)
    BY <1>2, <1>13
<1> QED
    BY <1>14, <1>15, <1>16, <1>17 DEF placed, height, width

\* The cell that stands in a place of the grid, and the texts under it.
CellsAt(nodes, table, row, column) ==
    {k \in DOMAIN Placed(nodes, table) :
        Placed(nodes, table)[k].row = row /\ Placed(nodes, table)[k].column = column}

ShownThere(nodes, w, table, row, column) ==
    UNION {Shown(nodes, w, Placed(nodes, table)[k].node) : k \in CellsAt(nodes, table, row, column)}

-----------------------------------------------------------------------------
(* Tables, lists and whole pages.                                           *)

\* No text is shown in two places,
LEMMA PlacesApart ==
    ASSUME NEW nodes, IsFamily(nodes), NEW w, NEW table \in DOMAIN nodes,
           NEW r1, NEW c1, NEW r2, NEW c2, ~(r1 = r2 /\ c1 = c2)
    PROVE  ShownThere(nodes, w, table, r1, c1) \cap ShownThere(nodes, w, table, r2, c2) = {}
<1> DEFINE placed == Placed(nodes, table)
<1> SUFFICES ASSUME NEW i \in CellsAt(nodes, table, r1, c1),
                    NEW j \in CellsAt(nodes, table, r2, c2),
                    NEW x \in Shown(nodes, w, placed[i].node), x \in Shown(nodes, w, placed[j].node)
             PROVE  FALSE
    BY DEF ShownThere
<1>1. i \in DOMAIN placed /\ j \in DOMAIN placed /\ i # j
    BY DEF CellsAt
<1>2. /\ placed[i].node \in DOMAIN nodes /\ placed[j].node \in DOMAIN nodes
      /\ <<placed[i].node, placed[j].node>> \in Strangers(nodes)
    BY <1>1, TableFilled
<1> HIDE DEF placed
<1>3. x \in DOMAIN nodes /\ Holds(nodes, placed[i].node, x) /\ Holds(nodes, placed[j].node, x)
    BY DEF Shown
<1> QED
    BY <1>2, <1>3, StrangersAre

\* what is shown is under the table, and what is safe in it is shown.
LEMMA PlacesTogether ==
    ASSUME NEW nodes, IsFamily(nodes), NEW w, NEW table \in DOMAIN nodes,
           nodes[table].tag = "table"
    PROVE  LET all == UNION {UNION {ShownThere(nodes, w, table, row, column) :
                                        column \in 1 .. TableWidth(nodes, table)} :
                                row \in 1 .. TableHeight(nodes, table)}
           IN  all \subseteq Shown(nodes, w, table) /\ Safe(nodes, w, table) \subseteq all
<1> DEFINE placed == Placed(nodes, table)
           height == TableHeight(nodes, table)
           width == TableWidth(nodes, table)
           there(row, column) == ShownThere(nodes, w, table, row, column)
           all == UNION {UNION {there(row, column) : column \in 1 .. width} : row \in 1 .. height}
<1>1. /\ \A k \in DOMAIN placed :
            /\ placed[k].node \in DOMAIN nodes
            /\ placed[k].row \in 1 .. height /\ placed[k].column \in 1 .. width
            /\ table \in Above(nodes)[placed[k].node]
            /\ IsClear(nodes, table, placed[k].node, DroppedTags)
      /\ \A x \in DOMAIN nodes : StandsInCell(nodes, table, x) =>
            \E k \in DOMAIN placed : Holds(nodes, placed[k].node, x)
    BY TableFilled
<1>2. /\ \A row, column : \A x \in there(row, column) :
             \E k \in DOMAIN placed : x \in Shown(nodes, w, placed[k].node)
      /\ \A k \in DOMAIN placed : \A x \in Shown(nodes, w, placed[k].node) :
             x \in there(placed[k].row, placed[k].column)
    BY DEF ShownThere, CellsAt
<1>3. DOMAIN nodes \subseteq Nat /\ table \in Nat
    BY LenProperties DEF IsFamily, AreNodes
<1> HIDE DEF placed, height, width, there
<1>4. ASSUME NEW k \in DOMAIN placed, NEW x \in Shown(nodes, w, placed[k].node)
      PROVE  x \in Shown(nodes, w, table)
    <2> DEFINE n == placed[k].node
    <2>1. n \in DOMAIN nodes /\ table \in Above(nodes)[n] /\ IsClear(nodes, table, n, DroppedTags)
        BY <1>1
    <2>2. /\ x \in DOMAIN nodes /\ nodes[x].tag = "#text" /\ nodes[x].word = w /\ Holds(nodes, n, x)
          /\ \A m \in Above(nodes)[x] : m >= n => nodes[m].tag \notin DroppedTags
        BY DEF Shown
    <2> HIDE DEF n
    <2>3. Holds(nodes, table, n)
        BY <2>1 DEF Holds
    <2>4. Holds(nodes, table, x)
        BY <2>2, <2>3, HoldsOn
    <2>5. /\ Above(nodes)[x] \subseteq DOMAIN nodes /\ Above(nodes)[x] \subseteq 1 .. x - 1
          /\ \A a, b \in Above(nodes)[x] : a < b => a \in Above(nodes)[b]
        BY <2>2, AboveOrdered
    <2>6. ASSUME NEW m \in Above(nodes)[x], m >= table PROVE nodes[m].tag \notin DroppedTags
        <3>1. m \in Nat /\ n \in Nat
            BY <1>3, <2>1, <2>5
        <3>2. CASE m >= n
            BY <2>2, <3>2
        <3>3. CASE m = table
            BY <3>3 DEF DroppedTags
        <3>4. CASE m < n /\ m > table
            <4>1. m \in Above(nodes)[n]
                BY <2>2, <2>5, <3>4 DEF Holds
            <4> QED
                BY <2>1, <3>4, <4>1 DEF IsClear
        <3> QED
            BY <1>3, <2>6, <3>1, <3>2, <3>3, <3>4
    <2> QED
        BY <2>2, <2>4, <2>6 DEF Shown
<1>5. ASSUME NEW x \in Safe(nodes, w, table)
      PROVE  \E k \in DOMAIN placed : x \in Shown(nodes, w, placed[k].node)
    <2>1. /\ x \in DOMAIN nodes /\ nodes[x].tag = "#text" /\ nodes[x].word = w
          /\ Holds(nodes, table, x)
          /\ \A m \in Above(nodes)[x] : m >= table => nodes[m].tag \notin DroppedTags
          /\ \A t \in Above(nodes)[x] :
                t >= table /\ nodes[t].tag = "table" => IsInCell(nodes, t, x)
        BY DEF Safe, Shown
    <2>2. table \in Above(nodes)[x]
        BY <2>1 DEF Holds
    <2>3. IsInCell(nodes, table, x)
        BY <1>3, <2>1, <2>2
    <2>4. PICK row \in Above(nodes)[x], cell \in Above(nodes)[x] :
              /\ table < row /\ nodes[row].tag = "tr"
              /\ row < cell /\ nodes[cell].tag \in CellTags
              /\ \A m \in Above(nodes)[x] : table < m /\ m < cell => nodes[m].tag # "table"
        BY <2>3 DEF IsInCell
    <2>5. /\ Above(nodes)[x] \subseteq DOMAIN nodes
          /\ Above(nodes)[cell] \subseteq Above(nodes)[x]
        BY <2>1, AboveOrdered
    <2>6. \A m \in Above(nodes)[cell] : m \in Nat /\ m < cell
        <3>1. cell \in DOMAIN nodes /\ cell \in Nat
            BY <1>3, <2>5
        <3>2. Above(nodes)[cell] \subseteq 1 .. cell - 1
            BY <3>1, AboveOrdered
        <3> QED
            BY <3>1, <3>2
    <2>7. IsClear(nodes, table, cell, DroppedTags \cup {"table"})
        <3> SUFFICES ASSUME NEW m \in Above(nodes)[cell], m > table
                     PROVE  nodes[m].tag \notin DroppedTags \cup {"table"}
            BY DEF IsClear
        <3>1. m \in Above(nodes)[x] /\ m >= table /\ table < m /\ m < cell
            BY <1>3, <2>5, <2>6
        <3> QED
            BY <2>1, <2>4, <3>1
    <2>8. StandsInCell(nodes, table, x)
        BY <2>2, <2>4, <2>7 DEF StandsInCell
    <2>9. PICK k \in DOMAIN placed : Holds(nodes, placed[k].node, x)
        BY <1>1, <2>1, <2>8
    <2> DEFINE n == placed[k].node
    <2>10. n \in DOMAIN nodes /\ table \in Above(nodes)[n] /\ Holds(nodes, n, x)
        BY <1>1, <2>9
    <2> HIDE DEF n
    <2>11. n \in Nat /\ n > table
        <3>1. Above(nodes)[n] \subseteq 1 .. n - 1 /\ n \in Nat
            BY <1>3, <2>10, AboveOrdered
        <3> QED
            BY <1>3, <2>10, <3>1
    <2>12. \A m \in Above(nodes)[x] : m >= n => m >= table
        BY <1>3, <2>5, <2>11
    <2>13. x \in Shown(nodes, w, n)
        BY <2>1, <2>10, <2>12 DEF Shown
    <2> QED
        BY <2>13 DEF n
<1>6. all \subseteq Shown(nodes, w, table)
    BY <1>2, <1>4
<1>7. ASSUME NEW x \in Safe(nodes, w, table) PROVE x \in all
    <2>1. PICK k \in DOMAIN placed : x \in Shown(nodes, w, placed[k].node)
        BY <1>5
    <2>2. x \in there(placed[k].row, placed[k].column)
        BY <1>2, <2>1
    <2>3. placed[k].row \in 1 .. height /\ placed[k].column \in 1 .. width
        BY <1>1
    <2> QED
        BY <2>2, <2>3
<1> HIDE DEF all
<1>8. all \subseteq Shown(nodes, w, table) /\ Safe(nodes, w, table) \subseteq all
    BY <1>6, <1>7
<1> QED
    BY <1>8 DEF all, there, height, width

\* An item of a list: its text, unless it has none, and then the blocks in it.
ItemCalls(nodes, n, text, ofKids) ==
    LET kids == nodes[n].kids
        own == FlattenSeq([k \in DOMAIN kids |->
                   IF IsBlockChild(nodes[kids[k]]) THEN <<>> ELSE text[kids[k]]])
    IN  (IF own = <<>> THEN <<>> ELSE <<Call("LIST_ITEM", 0, own, n)>>)
        \o FlattenSeq([k \in DOMAIN kids |->
               IF IsBlockChild(nodes[kids[k]]) THEN ofKids[k] ELSE <<>>])

\* Leaving out white space and empty cells leaves every word.
LEMMA OccurrencesInked ==
    ASSUME NEW s \in Seq(Letters), NEW w \in Words
    PROVE  Occurrences(Inked(s), w) = Occurrences(s, w)
<1> DEFINE T == {u \in Seq(Letters) : Occurrences(Inked(u), w) = Occurrences(u, w)}
<1>1. <<>> \in T
    BY EmptySeq, InkedOfNothing
<1>2. ASSUME NEW u \in Seq(Letters), NEW x \in Letters, u \in T PROVE Append(u, x) \in T
    <2> DEFINE inked == Inked(u)
               one == IF x = w THEN 1 ELSE 0
               all == Append(u, x)
    <2>1. inked \in Seq(Letters) /\ all \in Seq(Letters)
        BY InkedIsSeq, AppendProperties
    <2>2. Inked(all) = IF x \in {Blank, EmptyCell} THEN inked ELSE inked \o <<x>>
        BY InkedGrows
    <2>3. Occurrences(all, w) = Occurrences(u, w) + one /\ Occurrences(u, w) \in Nat
        BY OccurrencesGrow
    <2>4. Occurrences(inked, w) = Occurrences(u, w)
        BY <1>2
    <2> HIDE DEF inked, all, T
    <2>5. Occurrences(Append(inked, x), w) = Occurrences(inked, w) + one
        BY <2>1, OccurrencesGrow
    <2>6. Append(inked, x) = inked \o <<x>>
        BY <2>1, AppendIsConcat
    <2>7. CASE x \in {Blank, EmptyCell}
        <3>1. one = 0
            BY <2>7, DocumentAssumption, EmptyCellAssumption
        <3> QED
            BY <2>1, <2>2, <2>3, <2>4, <2>7, <3>1 DEF T, all
    <2>8. CASE x \notin {Blank, EmptyCell}
        BY <2>1, <2>2, <2>3, <2>4, <2>5, <2>6, <2>8 DEF T, all
    <2> QED
        BY <2>7, <2>8
<1> HIDE DEF T
<1>3. s \in T
    BY <1>1, <1>2, SeqUpwards
<1> QED
    BY <1>3 DEF T

==============================================================================
