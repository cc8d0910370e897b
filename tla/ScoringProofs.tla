------------------------------ MODULE ScoringProofs ------------------------------
(***************************************************************************)
(* What holds of a score for any rule set and any number of evaluations.    *)
(***************************************************************************)
EXTENDS Scoring, FiniteSetTheorems, SequenceTheorems, WellFoundedInduction, TLAPS

Counted == {e \in Evaluations : e.rule \in PinnedRules /\ e.severity = Severity[e.rule]}

\* An evaluation lies in the partition that its own content names, and is among
\* those already seen.
Filed ==
    \A partition \in Partitions : \A i \in DOMAIN items[partition] :
        /\ PartitionOf(items[partition][i]) = partition
        /\ Identity(items[partition][i]) \in seen

\* Within a partition no identity comes twice.
NoRepeats ==
    \A partition \in Partitions : \A i, j \in DOMAIN items[partition] :
        Identity(items[partition][i]) = Identity(items[partition][j]) => i = j

IInv == TypeOK /\ Filed /\ NoRepeats

\* The positions of an appended sequence.
LEMMA AppendedAt ==
    ASSUME NEW S, NEW s \in Seq(S), NEW e \in S, NEW i \in DOMAIN Append(s, e)
    PROVE  \/ i \in DOMAIN s /\ Append(s, e)[i] = s[i]
           \/ i = Len(s) + 1 /\ Append(s, e)[i] = e
  OBVIOUS

\* An accepted evaluation has a partition of its own.
LEMMA AcceptedIsCounted ==
    ASSUME NEW e \in Evaluations, Bound(e)
    PROVE  /\ e \in Counted
           /\ PartitionOf(e) \in Partitions
           /\ Identity(e) \in Resources \X PinnedRules \X SourceIds
  BY RuleSetAssumption DEF Bound, Counted, Evaluations, PartitionOf, Partitions, Identity

LEMMA AcceptKeepsIInv ==
    ASSUME IInv, NEW e \in Evaluations, Accept(e)
    PROVE  IInv'
<1> DEFINE here == PartitionOf(e)
<1>1. /\ IsAccepted(e)
      /\ seen' = seen \cup {Identity(e)}
      /\ items' = [items EXCEPT ![here] = Append(@, e)]
      /\ refused' = refused
  BY DEF Accept
<1>2. /\ Identity(e) \notin seen
      /\ e \in Counted
      /\ here \in Partitions
      /\ Identity(e) \in Resources \X PinnedRules \X SourceIds
  BY <1>1, AcceptedIsCounted DEF IsAccepted
<1>3. /\ items \in [Partitions -> Seq(Counted)]
      /\ seen \subseteq Resources \X PinnedRules \X SourceIds
      /\ refused \in BOOLEAN
  BY DEF IInv, TypeOK, Counted
<1> HIDE DEF here
<1>4. /\ items' \in [Partitions -> Seq(Counted)]
      /\ items'[here] = Append(items[here], e)
      /\ \A partition \in Partitions \ {here} : items'[partition] = items[partition]
  BY <1>1, <1>2, <1>3
<1>5. TypeOK'
  BY <1>1, <1>2, <1>3, <1>4 DEF TypeOK, Counted
<1>6. ASSUME NEW partition \in Partitions, NEW i \in DOMAIN items'[partition]
      PROVE  \/ i \in DOMAIN items[partition] /\ items'[partition][i] = items[partition][i]
             \/ partition = here /\ i = Len(items[here]) + 1 /\ items'[partition][i] = e
  <2>1. CASE partition = here
    <3>1. items[here] \in Seq(Counted) /\ i \in DOMAIN Append(items[here], e)
      BY <1>2, <1>3, <1>4, <2>1
    <3> QED
      BY <1>2, <1>4, <2>1, <3>1, AppendedAt
  <2>2. CASE partition # here
    BY <1>4, <2>2
  <2> QED
    BY <2>1, <2>2
<1>7. Filed'
  <2> SUFFICES ASSUME NEW partition \in Partitions, NEW i \in DOMAIN items'[partition]
               PROVE  /\ PartitionOf(items'[partition][i]) = partition
                      /\ Identity(items'[partition][i]) \in seen'
    BY DEF Filed, PartitionOf, Identity
  <2>1. CASE i \in DOMAIN items[partition] /\ items'[partition][i] = items[partition][i]
    BY <2>1, <1>1 DEF IInv, Filed
  <2>2. CASE partition = here /\ items'[partition][i] = e
    BY <2>2, <1>1 DEF here
  <2> QED
    BY <1>6, <2>1, <2>2
<1>8. NoRepeats'
  <2> SUFFICES ASSUME NEW partition \in Partitions,
                      NEW i \in DOMAIN items'[partition], NEW j \in DOMAIN items'[partition],
                      Identity(items'[partition][i]) = Identity(items'[partition][j])
               PROVE  i = j
    BY DEF NoRepeats, Identity
  <2>1. \A k \in DOMAIN items[partition] : Identity(items[partition][k]) # Identity(e)
    BY <1>2 DEF IInv, Filed
  <2> QED
    BY <1>6, <2>1 DEF IInv, NoRepeats
<1> QED
  BY <1>5, <1>7, <1>8 DEF IInv

LEMMA InitIInv == Init => IInv
<1> SUFFICES ASSUME Init
             PROVE  IInv
  OBVIOUS
<1>1. TypeOK
  <2>1. <<>> \in Seq(Counted)
    OBVIOUS
  <2> QED
    BY <2>1 DEF Init, TypeOK, Counted
<1>2. \A partition \in Partitions : items[partition] = <<>>
  BY DEF Init
<1>3. Filed /\ NoRepeats
  BY <1>2 DEF Filed, NoRepeats
<1> QED
  BY <1>1, <1>3 DEF IInv

LEMMA NextKeepsIInv ==
    ASSUME IInv, [Next]_vars
    PROVE  IInv'
<1>1. ASSUME NEW e \in Evaluations, Refuse(e)
      PROVE  IInv'
  BY <1>1 DEF Refuse, IInv, TypeOK, Filed, NoRepeats, Identity, PartitionOf
<1>2. CASE UNCHANGED vars
  BY <1>2 DEF vars, IInv, TypeOK, Filed, NoRepeats, Identity, PartitionOf
<1> QED
  BY <1>1, <1>2, AcceptKeepsIInv DEF Next

THEOREM SpecIInv == Spec => []IInv
  BY InitIInv, NextKeepsIInv, PTL DEF Spec

\* Only evaluations under a pinned rule and with its severity are counted.
THEOREM OnlyPinnedRulesCount == Spec => []TypeOK
  BY SpecIInv, PTL DEF IInv

\* Each Resource x Rule x Source counts once, in the partition of its source.
THEOREM EachIdentityCountsOnce == Spec => []CountedOnce
<1>1. ASSUME IInv
      PROVE  CountedOnce
  <2> SUFFICES ASSUME NEW one \in Partitions, NEW other \in Partitions,
                      NEW i \in DOMAIN items[one], NEW j \in DOMAIN items[other]
               PROVE  /\ items[one][i].source_id = one[1]
                      /\ Identity(items[one][i]) = Identity(items[other][j])
                            => one = other /\ i = j
    BY DEF CountedOnce
  <2>1. PartitionOf(items[one][i]) = one /\ PartitionOf(items[other][j]) = other
    BY <1>1 DEF IInv, Filed
  <2>2. items[one][i].source_id = one[1]
    BY <2>1 DEF PartitionOf
  <2>3. ASSUME Identity(items[one][i]) = Identity(items[other][j])
        PROVE  one = other
    BY <2>1, <2>3 DEF PartitionOf, Identity
  <2> QED
    BY <1>1, <2>2, <2>3 DEF IInv, NoRepeats
<1> QED
  BY <1>1, SpecIInv, PTL

-----------------------------------------------------------------------------
(* Sums over a sequence.                                                    *)

\* A set of natural numbers has a least one.
LEMMA LeastNumber ==
    ASSUME NEW S \in SUBSET Nat, S # {}
    PROVE  \E n \in S : \A m \in S : n <= m
<1> DEFINE R == OpToRel(<, Nat)
<1>1. IsWellFoundedOn(R, Nat)
  BY NatLessThanWellFounded
<1>2. \A i, j \in Nat : i < j => <<i, j>> \in R
  BY DEF OpToRel
<1> HIDE DEF R
<1>3. PICK n \in S : \A m \in S : ~(<<m, n>> \in R)
  BY <1>1, WFMin
<1>4. ASSUME NEW m \in S
      PROVE  n <= m
  <2>1. m \in Nat /\ n \in Nat
    OBVIOUS
  <2>2. ~(m < n)
    BY <2>1, <1>2, <1>3
  <2> QED
    BY <2>1, <2>2
<1> QED
  BY <1>4

\* What holds of 0 and passes from each number to the next holds of all up to n.
LEMMA Upwards ==
    ASSUME NEW n \in Nat, NEW T, 0 \in T, \A k \in 0 .. n - 1 : k \in T => k + 1 \in T
    PROVE  0 .. n \subseteq T
<1> SUFFICES ASSUME (0 .. n) \ T # {}
             PROVE  FALSE
  OBVIOUS
<1>0. (0 .. n) \ T \in SUBSET Nat
  OBVIOUS
<1>1. PICK k \in (0 .. n) \ T : \A m \in (0 .. n) \ T : k <= m
  BY <1>0, LeastNumber
<1>2. k # 0 /\ k - 1 \in 0 .. n - 1 /\ ~(k <= k - 1)
  BY <1>1
<1>3. k - 1 \in T
  BY <1>1, <1>2
<1>4. (k - 1) + 1 \in T
  BY <1>2, <1>3
<1> QED
  BY <1>1, <1>4

LEMMA MaxIsGreatest ==
    ASSUME NEW n \in Nat, NEW S \in SUBSET (1 .. n), S # {}
    PROVE  Max(S) \in S /\ \A m \in S : Max(S) >= m
<1> DEFINE T == {n - m : m \in S}
<1>1. T \in SUBSET Nat /\ T # {}
  <2>1. \A m \in S : n - m \in Nat
    OBVIOUS
  <2> QED
    BY <2>1
<1>2. PICK t \in T : \A u \in T : t <= u
  BY <1>1, LeastNumber
<1>3. PICK s \in S : t = n - s
  OBVIOUS
<1>4. ASSUME NEW m \in S
      PROVE  s >= m
  <2>1. n - m \in T
    OBVIOUS
  <2>2. n - s <= n - m
    BY <1>2, <1>3, <2>1
  <2> QED
    BY <2>2
<1> QED
  BY <1>4 DEF Max

\* The sums over the subsets of 1 .. n, each made from that without its greatest
\* element: the function that FoldLeft is defined by exists.
LEMMA SumsExist ==
    ASSUME NEW n \in Nat, NEW w \in [1 .. n -> Nat]
    PROVE  \E sum \in [SUBSET (1 .. n) -> Nat] :
               sum = [s \in SUBSET (1 .. n) |->
                        IF s = {} THEN 0 ELSE sum[s \ {Max(s)}] + w[Max(s)]]
<1> DEFINE Sums(k, sum) ==
             /\ sum \in [SUBSET (1 .. k) -> Nat]
             /\ \A s \in SUBSET (1 .. k) :
                   sum[s] = IF s = {} THEN 0 ELSE sum[s \ {Max(s)}] + w[Max(s)]
           T == {k \in 0 .. n : \E sum : Sums(k, sum)}
<1>1. 0 \in T
  <2>1. Sums(0, [s \in SUBSET (1 .. 0) |-> 0])
    <3>1. \A s \in SUBSET (1 .. 0) : s = {}
      OBVIOUS
    <3> QED
      BY <3>1
  <2> HIDE DEF Sums
  <2> QED
    BY <2>1
<1>2. ASSUME NEW k \in 0 .. n - 1, k \in T
      PROVE  k + 1 \in T
  <2>1. PICK sum : Sums(k, sum)
    BY <1>2
  <2> DEFINE new == [s \in SUBSET (1 .. k + 1) |->
                       IF k + 1 \in s THEN sum[s \ {k + 1}] + w[k + 1] ELSE sum[s]]
  <2>2. ASSUME NEW s \in SUBSET (1 .. k + 1)
        PROVE  /\ k + 1 \in s => s \ {k + 1} \in SUBSET (1 .. k)
               /\ k + 1 \notin s => s \in SUBSET (1 .. k)
    OBVIOUS
  <2>3. w[k + 1] \in Nat
    OBVIOUS
  <2>4. new \in [SUBSET (1 .. k + 1) -> Nat]
    BY <2>1, <2>2, <2>3
  <2>5. ASSUME NEW s \in SUBSET (1 .. k + 1), s # {}
        PROVE  new[s] = new[s \ {Max(s)}] + w[Max(s)]
    <3>1. Max(s) \in s /\ \A m \in s : Max(s) >= m
      <4>1. k + 1 \in Nat
        OBVIOUS
      <4> QED
        BY <4>1, <2>5, MaxIsGreatest
    <3>2. CASE k + 1 \in s
      <4>1. Max(s) = k + 1
        <5>1. Max(s) >= k + 1 /\ Max(s) \in 1 .. k + 1
          BY <3>1, <3>2
        <5> QED
          BY <5>1
      <4>2. /\ s \ {k + 1} \in SUBSET (1 .. k + 1)
            /\ k + 1 \notin s \ {k + 1}
        OBVIOUS
      <4>3. new[s \ {k + 1}] = sum[s \ {k + 1}]
        BY <4>2
      <4> QED
        BY <3>2, <4>1, <4>3
    <3>3. CASE k + 1 \notin s
      <4>1. s \in SUBSET (1 .. k) /\ s \ {Max(s)} \in SUBSET (1 .. k)
        BY <3>3, <2>2
      <4>2. new[s] = sum[s] /\ new[s \ {Max(s)}] = sum[s \ {Max(s)}]
        BY <3>3, <4>1
      <4>3. sum[s] = sum[s \ {Max(s)}] + w[Max(s)]
        BY <2>1, <2>5, <4>1
      <4> QED
        BY <4>2, <4>3
    <3> QED
      BY <3>2, <3>3
  <2>6. new[{}] = 0
    BY <2>1
  <2>7. Sums(k + 1, new)
    <3> HIDE DEF new
    <3> QED
      BY <2>4, <2>5, <2>6
  <2>8. k + 1 \in 0 .. n
    OBVIOUS
  <2> HIDE DEF Sums
  <2> QED
    BY <2>7, <2>8
<1> HIDE DEF T
<1>3. 0 .. n \subseteq T
  BY <1>1, <1>2, Upwards
<1>4. PICK sum : Sums(n, sum)
  BY <1>3, n \in 0 .. n DEF T
<1> QED
  BY <1>4

LEMMA WeightIsNumber ==
    ASSUME NEW e \in Counted, NEW statuses
    PROVE  /\ Weight(e, statuses) \in Nat
           /\ Weight(e, statuses) = 0 <=> e.status \notin statuses
<1>1. Severity[e.rule] \in Severities
  BY RuleSetAssumption DEF Counted
<1>2. Weights[Severity[e.rule]] \in Nat \ {0}
  BY <1>1 DEF Severities, Weights
<1> QED
  BY <1>2 DEF Weight

\* A total weight is reached by adding the weight of one evaluation at a time.
LEMMA RunningTotal ==
    ASSUME NEW s \in Seq(Counted), NEW statuses
    PROVE  \E total \in [0 .. Len(s) -> Nat] :
               /\ total[0] = 0
               /\ \A k \in 0 .. Len(s) - 1 :
                     total[k + 1] = total[k] + Weight(s[k + 1], statuses)
               /\ TotalWeight(s, statuses) = total[Len(s)]
<1> DEFINE n == Len(s)
           w == [k \in 1 .. n |-> Weight(s[k], statuses)]
           Equation(sum) == sum = [x \in SUBSET (1 .. n) |->
                                     IF x = {} THEN 0 ELSE sum[x \ {Max(x)}] + w[Max(x)]]
           Folded(sum) == sum = [x \in SUBSET DOMAIN s |->
                                   IF x = {} THEN 0
                                   ELSE sum[x \ {Max(x)}] + Weight(s[Max(x)], statuses)]
           chosen == CHOOSE sum : Folded(sum)
<1>1. n \in Nat /\ DOMAIN s = 1 .. n
  BY LenProperties
<1>2. w \in [1 .. n -> Nat]
  <2>1. \A k \in 1 .. n : s[k] \in Counted
    BY <1>1, ElementOfSeq
  <2> QED
    BY <2>1, WeightIsNumber
<1> HIDE DEF n
<1>3. PICK sum \in [SUBSET (1 .. n) -> Nat] : Equation(sum)
  <2> HIDE DEF w
  <2> QED
    BY <1>1, <1>2, SumsExist
<1>4. ASSUME NEW f
      PROVE  Folded(f) <=> Equation(f)
  <2>1. \A x \in SUBSET (1 .. n) : x # {} => w[Max(x)] = Weight(s[Max(x)], statuses)
    BY <1>1, MaxIsGreatest
  <2> HIDE DEF w
  <2> QED
    BY <1>1, <2>1
<1>5. Folded(chosen)
  <2>1. Folded(sum)
    BY <1>3, <1>4
  <2> HIDE DEF Folded
  <2> QED
    BY <2>1
<1>6. TotalWeight(s, statuses) = chosen[DOMAIN s]
  BY DEF TotalWeight, FoldLeft, MapThenFoldSet
<1> HIDE DEF chosen
<1>7. Equation(chosen)
  BY <1>4, <1>5
<1>8. chosen[{}] = 0
  BY <1>7
<1>9. ASSUME NEW k \in 0 .. n - 1
      PROVE  chosen[1 .. k + 1] = chosen[1 .. k] + Weight(s[k + 1], statuses)
  <2>1. /\ 1 .. k + 1 \in SUBSET (1 .. n) /\ 1 .. k + 1 # {}
        /\ k + 1 \in 1 .. k + 1 /\ k + 1 \in 1 .. n
    <3>1. k \in Nat /\ k + 1 <= n /\ k + 1 \in 1 .. k + 1 /\ k + 1 \in 1 .. n
      BY <1>1
    <3>2. \A m \in 1 .. k + 1 : m \in 1 .. n
      BY <1>1, <3>1
    <3> QED
      BY <3>1, <3>2
  <2>2. Max(1 .. k + 1) \in 1 .. k + 1 /\ Max(1 .. k + 1) >= k + 1
    BY <1>1, <2>1, MaxIsGreatest
  <2>3. Max(1 .. k + 1) = k + 1
    BY <2>2, <1>1
  <2>4. (1 .. k + 1) \ {k + 1} = 1 .. k
    OBVIOUS
  <2>5. w[k + 1] = Weight(s[k + 1], statuses)
    BY <2>1
  <2> HIDE DEF w
  <2> QED
    BY <1>7, <2>1, <2>3, <2>4, <2>5
<1> DEFINE T == {k \in 0 .. n : chosen[1 .. k] \in Nat}
<1>10. 0 .. n \subseteq T
  <2>1. 1 .. 0 = {} /\ 0 \in 0 .. n
    BY <1>1
  <2>2. 0 \in T
    BY <1>8, <2>1
  <2>3. ASSUME NEW k \in 0 .. n - 1, k \in T
        PROVE  k + 1 \in T
    <3>1. k + 1 \in 1 .. n /\ k + 1 \in 0 .. n
      BY <1>1
    <3>2. s[k + 1] \in Counted
      BY <1>1, <3>1, ElementOfSeq
    <3> QED
      BY <1>9, <2>3, <3>1, <3>2, WeightIsNumber
  <2> HIDE DEF T
  <2> QED
    BY <1>1, <2>2, <2>3, Upwards
<1> DEFINE total == [k \in 0 .. n |-> chosen[1 .. k]]
<1>11. total \in [0 .. n -> Nat]
  BY <1>10
<1>12. total[0] = 0
  <2>1. 1 .. 0 = {} /\ 0 \in 0 .. n
    BY <1>1
  <2> QED
    BY <1>8, <2>1
<1>13. \A k \in 0 .. n - 1 : total[k + 1] = total[k] + Weight(s[k + 1], statuses)
  <2> SUFFICES ASSUME NEW k \in 0 .. n - 1
               PROVE  total[k + 1] = total[k] + Weight(s[k + 1], statuses)
    OBVIOUS
  <2>1. k \in 0 .. n /\ k + 1 \in 0 .. n
    BY <1>1
  <2> QED
    BY <1>9, <2>1
<1>14. TotalWeight(s, statuses) = total[n]
  <2>1. n \in 0 .. n
    BY <1>1
  <2> QED
    BY <1>1, <1>6, <2>1
<1> HIDE DEF total
<1> QED
  BY <1>11, <1>12, <1>13, <1>14 DEF n

\* What two totals of one sequence have in common, as long as it lasts.
LEMMA AppendedTotal ==
    ASSUME NEW s \in Seq(Counted), NEW e \in Counted, NEW statuses
    PROVE  TotalWeight(Append(s, e), statuses) = TotalWeight(s, statuses) + Weight(e, statuses)
<1> DEFINE n == Len(s)
           t == Append(s, e)
<1>1. /\ n \in Nat /\ t \in Seq(Counted) /\ Len(t) = n + 1 /\ t[n + 1] = e
      /\ \A k \in 1 .. n : t[k] = s[k]
  BY AppendProperties, LenProperties
<1> HIDE DEF n, t
<1>2. PICK old \in [0 .. n -> Nat] :
          /\ old[0] = 0
          /\ \A k \in 0 .. n - 1 : old[k + 1] = old[k] + Weight(s[k + 1], statuses)
          /\ TotalWeight(s, statuses) = old[n]
  BY RunningTotal DEF n
<1>3. PICK new \in [0 .. n + 1 -> Nat] :
          /\ new[0] = 0
          /\ \A k \in 0 .. n : new[k + 1] = new[k] + Weight(t[k + 1], statuses)
          /\ TotalWeight(t, statuses) = new[n + 1]
  <2>1. \E new \in [0 .. Len(t) -> Nat] :
          /\ new[0] = 0
          /\ \A k \in 0 .. Len(t) - 1 : new[k + 1] = new[k] + Weight(t[k + 1], statuses)
          /\ TotalWeight(t, statuses) = new[Len(t)]
    BY <1>1, RunningTotal
  <2>2. (n + 1) - 1 = n
    BY <1>1
  <2> QED
    BY <1>1, <2>1, <2>2
<1> DEFINE T == {k \in 0 .. n : old[k] = new[k]}
<1>4. 0 .. n \subseteq T
  <2>1. 0 \in T
    BY <1>1, <1>2, <1>3
  <2>2. ASSUME NEW k \in 0 .. n - 1, k \in T
        PROVE  k + 1 \in T
    <3>1. k + 1 \in 1 .. n /\ k \in 0 .. n
      BY <1>1
    <3>2. t[k + 1] = s[k + 1]
      BY <1>1, <3>1
    <3> QED
      BY <1>2, <1>3, <2>2, <3>1, <3>2
  <2> HIDE DEF T
  <2> QED
    BY <1>1, <2>1, <2>2, Upwards
<1>5. n \in 0 .. n
  BY <1>1
<1> QED
  BY <1>1, <1>2, <1>3, <1>4, <1>5 DEF t

LEMMA NoTotal ==
    ASSUME NEW statuses
    PROVE  TotalWeight(<<>>, statuses) = 0
<1>1. <<>> \in Seq(Counted) /\ Len(<<>>) = 0
  BY EmptySeq
<1> QED
  BY <1>1, RunningTotal

\* The weight that passed is a part of the weight decided on, and what it leaves
\* or takes in tells whether anything failed or passed.
LEMMA PassedAndDecided ==
    ASSUME NEW s \in Seq(Counted)
    PROVE  LET passed == TotalWeight(s, {"PASS"})
               decided == TotalWeight(s, Decided)
           IN  /\ passed \in Nat /\ decided \in Nat /\ passed <= decided
               /\ passed = decided <=> \A k \in DOMAIN s : s[k].status # "FAIL"
               /\ passed = 0 <=> \A k \in DOMAIN s : s[k].status # "PASS"
               /\ decided = 0 <=> \A k \in DOMAIN s : s[k].status \notin Decided
<1> DEFINE n == Len(s)
<1>1. n \in Nat /\ DOMAIN s = 1 .. n
  BY LenProperties
<1> HIDE DEF n
<1>2. PICK passed \in [0 .. n -> Nat] :
          /\ passed[0] = 0
          /\ \A k \in 0 .. n - 1 : passed[k + 1] = passed[k] + Weight(s[k + 1], {"PASS"})
          /\ TotalWeight(s, {"PASS"}) = passed[n]
  BY RunningTotal DEF n
<1>3. PICK decided \in [0 .. n -> Nat] :
          /\ decided[0] = 0
          /\ \A k \in 0 .. n - 1 : decided[k + 1] = decided[k] + Weight(s[k + 1], Decided)
          /\ TotalWeight(s, Decided) = decided[n]
  BY RunningTotal DEF n
<1> DEFINE Agree(k) ==
             /\ passed[k] <= decided[k]
             /\ passed[k] = decided[k] <=> \A i \in 1 .. k : s[i].status # "FAIL"
             /\ passed[k] = 0 <=> \A i \in 1 .. k : s[i].status # "PASS"
             /\ decided[k] = 0 <=> \A i \in 1 .. k : s[i].status \notin Decided
           T == {k \in 0 .. n : Agree(k)}
<1>4. 0 .. n \subseteq T
  <2>1. 0 \in T
    <3>1. 0 \in 0 .. n /\ 1 .. 0 = {}
      BY <1>1
    <3> QED
      BY <1>2, <1>3, <3>1
  <2>2. ASSUME NEW k \in 0 .. n - 1, k \in T
        PROVE  k + 1 \in T
    <3> DEFINE e == s[k + 1]
    <3>1. k \in 0 .. n /\ k + 1 \in 1 .. n /\ k + 1 \in 0 .. n
      BY <1>1
    <3>2. e \in Counted
      BY <1>1, <3>1, ElementOfSeq
    <3>3. \A i \in 1 .. k + 1 : i \in 1 .. k \/ i = k + 1
      BY <3>1
    <3>4. 1 .. k \subseteq 1 .. k + 1 /\ k + 1 \in 1 .. k + 1
      BY <3>1
    <3> HIDE DEF e
    <3>5. /\ passed[k] \in Nat /\ decided[k] \in Nat
          /\ passed[k + 1] = passed[k] + Weight(e, {"PASS"})
          /\ decided[k + 1] = decided[k] + Weight(e, Decided)
      BY <1>2, <1>3, <3>1 DEF e
    <3>6. Agree(k)
      BY <2>2
    <3>7. /\ Weight(e, {"PASS"}) \in Nat /\ Weight(e, Decided) \in Nat
          /\ Weight(e, {"PASS"}) = 0 <=> e.status # "PASS"
          /\ Weight(e, Decided) = 0 <=> e.status \notin Decided
          /\ Weight(e, {"PASS"}) <= Weight(e, Decided)
          /\ Weight(e, {"PASS"}) = Weight(e, Decided) <=> e.status # "FAIL"
      <4>1. /\ Weight(e, {"PASS"}) \in Nat /\ Weight(e, Decided) \in Nat
            /\ Weight(e, {"PASS"}) = 0 <=> e.status # "PASS"
            /\ Weight(e, Decided) = 0 <=> e.status \notin Decided
        BY <3>2, WeightIsNumber
      <4>2. e.status = "PASS" => Weight(e, {"PASS"}) = Weight(e, Decided)
        BY DEF Weight, Decided
      <4> QED
        BY <4>1, <4>2 DEF Decided
    <3>8. Agree(k + 1)
      <4>1. passed[k + 1] <= decided[k + 1]
        BY <3>5, <3>6, <3>7
      <4>2. passed[k + 1] = decided[k + 1] <=> passed[k] = decided[k] /\ e.status # "FAIL"
        BY <3>5, <3>6, <3>7
      <4>3. passed[k + 1] = 0 <=> passed[k] = 0 /\ e.status # "PASS"
        BY <3>5, <3>7
      <4>4. decided[k + 1] = 0 <=> decided[k] = 0 /\ e.status \notin Decided
        BY <3>5, <3>7
      <4> QED
        BY <3>3, <3>4, <3>6, <4>1, <4>2, <4>3, <4>4 DEF e
    <3> HIDE DEF Agree
    <3> QED
      BY <3>1, <3>8
  <2> HIDE DEF T
  <2> QED
    BY <1>1, <2>1, <2>2, Upwards
<1>5. n \in 0 .. n
  BY <1>1
<1>6. Agree(n)
  BY <1>4, <1>5
<1> QED
  BY <1>1, <1>2, <1>3, <1>5, <1>6

-----------------------------------------------------------------------------
(* Percentages.                                                             *)

\* A percentage is a nearest number of tenths, and of two that are equally near
\* the even one.
LEMMA PercentIsNearest ==
    ASSUME NEW a \in Nat, NEW b \in Nat \ {0}
    PROVE  LET p == Percent(a, b)
           IN  /\ p \in Nat
               /\ (2 * p - 1) * b <= 2000 * a /\ 2000 * a <= (2 * p + 1) * b
               /\ 2000 * a \in {(2 * p - 1) * b, (2 * p + 1) * b} => p % 2 = 0
<1> DEFINE tenths == (1000 * a) \div b
           rest == (1000 * a) % b
           p == Percent(a, b)
<1>1. /\ tenths \in Nat
      /\ rest \in 0 .. b - 1
      /\ 1000 * a = b * tenths + rest
  OBVIOUS
<1>2. p = CASE 2 * rest < b -> tenths
            [] 2 * rest > b -> tenths + 1
            [] 2 * rest = b -> tenths + (tenths % 2)
  BY DEF Percent
<1> HIDE DEF tenths, rest, p
<1> DEFINE product == b * tenths
<1>3. product \in Nat /\ 2000 * a = 2 * product + 2 * rest
  BY <1>1
<1>4. /\ (2 * tenths - 1) * b = 2 * product - b
      /\ (2 * tenths + 1) * b = 2 * product + b
      /\ (2 * (tenths + 1) - 1) * b = 2 * product + b
      /\ (2 * (tenths + 1) + 1) * b = 2 * product + 3 * b
  BY <1>1
<1> HIDE DEF product
<1>5. CASE 2 * rest < b
  <2>1. p = tenths
    BY <1>1, <1>2, <1>5
  <2> QED
    BY <1>1, <1>3, <1>4, <1>5, <2>1 DEF p
<1>6. CASE 2 * rest > b
  <2>1. p = tenths + 1
    BY <1>1, <1>2, <1>6
  <2> QED
    BY <1>1, <1>3, <1>4, <1>6, <2>1 DEF p
<1>7. CASE 2 * rest = b
  <2>1. p = tenths + (tenths % 2)
    BY <1>1, <1>2, <1>7
  <2>2. CASE tenths % 2 = 0
    <3>1. p = tenths
      BY <1>1, <2>1, <2>2
    <3> QED
      BY <1>1, <1>3, <1>4, <1>7, <2>2, <3>1 DEF p
  <2>3. CASE tenths % 2 = 1
    <3>1. p = tenths + 1 /\ (tenths + 1) % 2 = 0
      BY <1>1, <2>1, <2>3
    <3> QED
      BY <1>1, <1>3, <1>4, <1>7, <3>1 DEF p
  <2> QED
    BY <1>1, <2>2, <2>3
<1> QED
  BY <1>1, <1>5, <1>6, <1>7

LEMMA TimesKeepsOrder ==
    ASSUME NEW x \in Int, NEW y \in Int, NEW z \in Nat, x <= y
    PROVE  x * z <= y * z
  OBVIOUS

\* Rounding keeps the order of the fractions.
LEMMA PercentIsMonotone ==
    ASSUME NEW a \in Nat, NEW b \in Nat \ {0}, NEW c \in Nat, NEW d \in Nat \ {0},
           a * d <= c * b
    PROVE  Percent(a, b) <= Percent(c, d)
<1> DEFINE p == Percent(a, b)
           q == Percent(c, d)
           m == 2 * q + 1
<1>1. /\ p \in Nat /\ (2 * p - 1) * b <= 2000 * a
      /\ 2000 * a = (2 * p - 1) * b => p % 2 = 0
  BY PercentIsNearest
<1>2. /\ q \in Nat /\ 2000 * c <= (2 * q + 1) * d
      /\ 2000 * c = (2 * q + 1) * d => q % 2 = 0
  BY PercentIsNearest
<1> HIDE DEF p, q
<1> SUFFICES ASSUME p > q
             PROVE  FALSE
  BY <1>1, <1>2 DEF p, q
<1>3. /\ m \in Nat /\ m <= 2 * p - 1
      /\ 2000 * c <= m * d
      /\ 2000 * c = m * d => q % 2 = 0
  BY <1>1, <1>2
<1> HIDE DEF m
<1>4. m * b <= (2 * p - 1) * b
  BY <1>1, <1>3
<1>5. m * b \in Nat /\ m * d \in Nat /\ (2 * p - 1) * b \in Int
  BY <1>1, <1>3
<1>6. m * b <= 2000 * a
  BY <1>1, <1>4, <1>5
<1>7. (m * b) * d <= (2000 * a) * d
  BY <1>5, <1>6, TimesKeepsOrder
<1>8. (2000 * c) * b <= (m * d) * b
  <2>1. 2000 * c \in Int /\ m * d \in Int /\ b \in Nat /\ 2000 * c <= m * d
    BY <1>3, <1>5
  <2> QED
    BY <2>1, TimesKeepsOrder
<1>9. /\ (m * b) * d = m * (b * d) /\ (m * d) * b = m * (b * d)
      /\ (2000 * a) * d = 2000 * (a * d) /\ (2000 * c) * b = 2000 * (c * b)
  BY <1>3
<1>10. m * (b * d) \in Int /\ a * d \in Int /\ c * b \in Int
  BY <1>3
<1>11. (m * b) * d = (2000 * a) * d /\ (2000 * c) * b = (m * d) * b
  BY <1>7, <1>8, <1>9, <1>10
<1>12. m * b = 2000 * a /\ 2000 * c = m * d
  BY <1>5, <1>11
<1>13. 2000 * a = (2 * p - 1) * b
  BY <1>1, <1>4, <1>5, <1>12
<1>14. m = 2 * p - 1
  BY <1>1, <1>3, <1>12, <1>13
<1>15. p % 2 = 0 /\ q % 2 = 0 /\ p = q + 1
  BY <1>1, <1>2, <1>3, <1>12, <1>13, <1>14 DEF m
<1> QED
  BY <1>1, <1>2, <1>15

\* _percent shows 100.0 only if everything decided has passed, as long as the
\* decided weight is below 2000: a FAIL of weight 1 in 2000 is rounded away.
THEOREM HundredMeansAll ==
    ASSUME NEW passed \in Nat, NEW decided \in Nat \ {0}, passed <= decided,
           decided < 2000, Percent(passed, decided) = 1000
    PROVE  passed = decided
<1>1. (2 * Percent(passed, decided) - 1) * decided <= 2000 * passed
  BY PercentIsNearest
<1> QED
  BY <1>1

\* Nor does it show 0.0 if anything has passed.
THEOREM ZeroMeansNothing ==
    ASSUME NEW passed \in Nat, NEW decided \in Nat \ {0}, decided < 2000,
           Percent(passed, decided) = 0
    PROVE  passed = 0
<1>1. 2000 * passed <= (2 * Percent(passed, decided) + 1) * decided
  BY PercentIsNearest
<1> QED
  BY <1>1

\* The bound is sharp: from 2000 on, a FAIL of weight 1 among nothing but PASS is
\* shown as 100.0.
THEOREM HundredHidesOne ==
    ASSUME NEW decided \in Nat, decided >= 2000
    PROVE  Percent(decided - 1, decided) = 1000
<1> DEFINE p == Percent(decided - 1, decided)
<1>1. /\ p \in Nat
      /\ (2 * p - 1) * decided <= 2000 * (decided - 1)
      /\ 2000 * (decided - 1) <= (2 * p + 1) * decided
      /\ 2000 * (decided - 1) = (2 * p + 1) * decided => p % 2 = 0
  <2>1. decided - 1 \in Nat /\ decided \in Nat \ {0}
    OBVIOUS
  <2> QED
    BY <2>1, PercentIsNearest
<1> HIDE DEF p
<1>2. ASSUME p >= 1001 PROVE FALSE
  <2>1. 2001 * decided <= (2 * p - 1) * decided
    BY <1>1, <1>2, TimesKeepsOrder
  <2> QED
    BY <1>1, <2>1
<1>3. ASSUME p <= 998 PROVE FALSE
  <2>1. (2 * p + 1) * decided <= 1997 * decided
    BY <1>1, <1>3, TimesKeepsOrder
  <2> QED
    BY <1>1, <2>1
<1>4. p # 999
  BY <1>1
<1> QED
  BY <1>1, <1>2, <1>3, <1>4 DEF p

\* Nothing decided is no score, and it is never shown as a number.
THEOREM NoNumberWithoutDecision ==
    ASSUME NEW passed \in Nat, NEW decided \in Nat
    PROVE  (Percent(passed, decided) = None) <=> (decided = 0)
<1>1. CASE decided = 0
  BY <1>1 DEF Percent
<1>2. CASE decided # 0
  BY <1>2, PercentIsNearest, NoneAssumption
<1> QED
  BY <1>1, <1>2

LEMMA ExtremePercents ==
    ASSUME NEW passed \in Nat, NEW decided \in Nat, passed <= decided, decided < 2000
    PROVE  /\ Percent(passed, decided) = None <=> decided = 0
           /\ Percent(passed, decided) = 1000 => passed = decided
           /\ Percent(passed, decided) = 0 => passed = 0
<1>1. CASE decided = 0
  BY <1>1, NoNumberWithoutDecision
<1>2. CASE decided # 0
  <2>1. decided \in Nat \ {0}
    BY <1>2
  <2>2. Percent(passed, decided) = 1000 => passed = decided
    BY <2>1, HundredMeansAll
  <2>3. Percent(passed, decided) = 0 => passed = 0
    BY <2>1, ZeroMeansNothing
  <2>4. (Percent(passed, decided) = None) <=> (decided = 0)
    BY NoNumberWithoutDecision
  <2> QED
    BY <2>2, <2>3, <2>4
<1> QED
  BY <1>1, <1>2

-----------------------------------------------------------------------------
(* Counts, and what the metrics show.                                       *)

LEMMA CountIsNumber ==
    ASSUME NEW s \in Seq(Counted), NEW statuses
    PROVE  /\ IsFiniteSet({k \in DOMAIN s : s[k].status \in statuses})
           /\ Count(s, statuses) \in Nat
           /\ Count(s, statuses) = 0 <=> \A k \in DOMAIN s : s[k].status \notin statuses
           /\ Count(s, statuses) <= Len(s)
<1> DEFINE found == {k \in DOMAIN s : s[k].status \in statuses}
<1>1. Len(s) \in Nat /\ DOMAIN s = 1 .. Len(s)
  BY LenProperties
<1>2. IsFiniteSet(1 .. Len(s)) /\ Cardinality(1 .. Len(s)) = Len(s)
  BY <1>1, FS_Interval
<1>3. found \subseteq 1 .. Len(s)
  BY <1>1
<1> HIDE DEF found
<1>4. IsFiniteSet(found) /\ Cardinality(found) <= Len(s)
  BY <1>2, <1>3, FS_Subset
<1>5. Cardinality(found) \in Nat /\ (Cardinality(found) = 0 <=> found = {})
  BY <1>4, FS_CardinalityType, FS_EmptySet
<1>6. Count(s, statuses) = Cardinality(found)
  BY DEF Count, found
<1> QED
  BY <1>4, <1>5, <1>6 DEF found

\* Two counts that are equal, one of which includes the other, count the same.
LEMMA EqualCounts ==
    ASSUME NEW s \in Seq(Counted), NEW some, NEW all, some \subseteq all
    PROVE  /\ Count(s, some) <= Count(s, all)
           /\ Count(s, some) = Count(s, all) =>
                 \A k \in DOMAIN s : s[k].status \in all => s[k].status \in some
<1> DEFINE A == {k \in DOMAIN s : s[k].status \in some}
           B == {k \in DOMAIN s : s[k].status \in all}
<1>1. A \subseteq B
  OBVIOUS
<1>2. Count(s, some) = Cardinality(A) /\ Count(s, all) = Cardinality(B)
  BY DEF Count
<1>3. IsFiniteSet(B)
  BY CountIsNumber
<1> HIDE DEF A, B
<1>4. Cardinality(A) <= Cardinality(B) /\ (Cardinality(A) = Cardinality(B) => A = B)
  BY <1>1, <1>3, FS_Subset
<1> QED
  BY <1>2, <1>4 DEF A, B

LEMMA AppendedCount ==
    ASSUME NEW s \in Seq(Counted), NEW e \in Counted, NEW statuses
    PROVE  Count(Append(s, e), statuses) =
               Count(s, statuses) + (IF e.status \in statuses THEN 1 ELSE 0)
<1> DEFINE t == Append(s, e)
           A == {k \in DOMAIN s : s[k].status \in statuses}
           B == {k \in DOMAIN t : t[k].status \in statuses}
           n == Len(s)
<1>1. /\ n \in Nat /\ DOMAIN s = 1 .. n /\ DOMAIN t = 1 .. n + 1
      /\ t[n + 1] = e
      /\ \A k \in 1 .. n : t[k] = s[k]
  BY AppendProperties, LenProperties
<1>2. Count(t, statuses) = Cardinality(B) /\ Count(s, statuses) = Cardinality(A)
  BY DEF Count
<1>3. IsFiniteSet(A) /\ Cardinality(A) \in Nat
  BY CountIsNumber, <1>2
<1> HIDE DEF t, n
<1>4. n + 1 \notin A
  BY <1>1
<1>5. CASE e.status \in statuses
  <2>1. B = A \cup {n + 1}
    BY <1>1, <1>5
  <2> HIDE DEF A, B
  <2>2. Cardinality(B) = Cardinality(A) + 1
    BY <1>3, <1>4, <2>1, FS_AddElement
  <2> QED
    BY <1>2, <1>5, <2>2 DEF t
<1>6. CASE e.status \notin statuses
  <2>1. B = A
    BY <1>1, <1>6
  <2> HIDE DEF A, B
  <2> QED
    BY <1>2, <1>3, <1>6, <2>1 DEF t
<1> QED
  BY <1>5, <1>6

\* As long as less than 2000 is decided on and counted, the extremes of the metrics
\* of a source tell everything.
THEOREM ExtremesTellAll == Spec => []ExtremesAreExact
<1>1. ASSUME IInv
      PROVE  ExtremesAreExact
  <2> SUFFICES ASSUME NEW partition \in Partitions, Exact(items[partition])
               PROVE  LET s == items[partition]
                      IN  /\ Score(s) = 1000 => Count(s, {"FAIL"}) = 0
                          /\ Score(s) = 0 => Count(s, {"PASS"}) = 0
                          /\ Score(s) = None <=> Count(s, Decided) = 0
                          /\ Coverage(s) = 1000 => Count(s, {"MANUAL_REVIEW"}) = 0
                          /\ Coverage(s) = 0 => Count(s, Decided) = 0
                          /\ Coverage(s) = None <=> Count(s, CoverageStatuses) = 0
    BY DEF ExtremesAreExact
  <2> DEFINE s == items[partition]
             passed == TotalWeight(s, {"PASS"})
             decided == TotalWeight(s, Decided)
             some == Count(s, Decided)
             all == Count(s, CoverageStatuses)
  <2>1. s \in Seq(Counted)
    BY <1>1 DEF IInv, TypeOK, Counted
  <2>2. decided < 2000 /\ all < 2000
    BY DEF Exact
  <2> HIDE DEF s
  <2>3. /\ passed \in Nat /\ decided \in Nat /\ passed <= decided
        /\ passed = decided <=> \A k \in DOMAIN s : s[k].status # "FAIL"
        /\ passed = 0 <=> \A k \in DOMAIN s : s[k].status # "PASS"
        /\ decided = 0 <=> \A k \in DOMAIN s : s[k].status \notin Decided
    BY <2>1, PassedAndDecided
  <2>4. /\ some \in Nat /\ all \in Nat /\ some <= all /\ all < 2000
        /\ some = all => \A k \in DOMAIN s : s[k].status \in CoverageStatuses =>
                                             s[k].status \in Decided
    <3>1. some \in Nat /\ all \in Nat
      BY <2>1, CountIsNumber
    <3>2. Decided \subseteq CoverageStatuses
      BY DEF CoverageStatuses
    <3> QED
      BY <2>1, <2>2, <3>1, <3>2, EqualCounts
  <2>5. /\ (\A k \in DOMAIN s : s[k].status # "FAIL") => Count(s, {"FAIL"}) = 0
        /\ (\A k \in DOMAIN s : s[k].status # "PASS") => Count(s, {"PASS"}) = 0
        /\ (\A k \in DOMAIN s : s[k].status # "MANUAL_REVIEW") =>
              Count(s, {"MANUAL_REVIEW"}) = 0
    <3>1. ASSUME NEW status, \A k \in DOMAIN s : s[k].status # status
          PROVE  Count(s, {status}) = 0
      BY <2>1, <3>1, CountIsNumber
    <3> QED
      BY <3>1
  <2>6. some = 0 <=> \A k \in DOMAIN s : s[k].status \notin Decided
    BY <2>1, CountIsNumber
  <2>7. Score(s) = Percent(passed, decided) /\ Coverage(s) = Percent(some, all)
    BY DEF Score, Coverage
  <2> HIDE DEF passed, decided, some, all
  <2>8. /\ Score(s) = None <=> decided = 0
        /\ Score(s) = 1000 => passed = decided
        /\ Score(s) = 0 => passed = 0
    <3>1. /\ Percent(passed, decided) = None <=> decided = 0
          /\ Percent(passed, decided) = 1000 => passed = decided
          /\ Percent(passed, decided) = 0 => passed = 0
      BY <2>2, <2>3, ExtremePercents
    <3> QED
      BY <2>7, <3>1
  <2>9. /\ Coverage(s) = 1000 => some = all
        /\ Coverage(s) = 0 => some = 0
        /\ Coverage(s) = None <=> all = 0
    <3>1. /\ Percent(some, all) = None <=> all = 0
          /\ Percent(some, all) = 1000 => some = all
          /\ Percent(some, all) = 0 => some = 0
      BY <2>4, ExtremePercents
    <3> QED
      BY <2>7, <3>1
  <2>10. Coverage(s) = 1000 => \A k \in DOMAIN s : s[k].status # "MANUAL_REVIEW"
    BY <2>4, <2>9 DEF CoverageStatuses, Decided
  <2>11. Score(s) = 1000 => Count(s, {"FAIL"}) = 0
    BY <2>3, <2>5, <2>8
  <2>12. Score(s) = 0 => Count(s, {"PASS"}) = 0
    BY <2>3, <2>5, <2>8
  <2>13. Score(s) = None <=> Count(s, Decided) = 0
    BY <2>3, <2>6, <2>8 DEF some
  <2>14. Coverage(s) = 1000 => Count(s, {"MANUAL_REVIEW"}) = 0
    BY <2>5, <2>10
  <2>15. /\ Coverage(s) = 0 => Count(s, Decided) = 0
         /\ Coverage(s) = None <=> Count(s, CoverageStatuses) = 0
    BY <2>9 DEF some, all
  <2> QED
    BY <2>11, <2>12, <2>13, <2>14, <2>15 DEF s
<1> QED
  BY <1>1, SpecIInv, PTL

\* A fraction to which a weight is added above and below does not become less, and
\* one to which it is added below only does not become more.
LEMMA AddedWeight ==
    ASSUME NEW a \in Nat, NEW b \in Nat, NEW w \in Nat, a <= b
    PROVE  /\ AtMost(Percent(a, b), Percent(a + w, b + w))
           /\ AtMost(Percent(a, b + w), Percent(a, b))
<1>1. CASE b = 0
  <2>1. Percent(a, b) = None
    BY <1>1 DEF Percent
  <2> QED
    BY <2>1 DEF AtMost
<1>2. CASE b # 0
  <2>1. b \in Nat \ {0} /\ b + w \in Nat \ {0} /\ a + w \in Nat
    BY <1>2
  <2>2. a * w <= b * w
    BY TimesKeepsOrder
  <2>3. /\ a * (b + w) = a * b + a * w /\ (a + w) * b = a * b + b * w
        /\ a * b \in Nat /\ a * w \in Nat /\ b * w \in Nat
    OBVIOUS
  <2>4. a * (b + w) <= (a + w) * b /\ a * b <= a * (b + w)
    BY <2>2, <2>3
  <2>5. Percent(a, b) <= Percent(a + w, b + w)
    BY <2>1, <2>4, PercentIsMonotone
  <2>6. Percent(a, b + w) <= Percent(a, b)
    BY <2>1, <2>4, PercentIsMonotone
  <2> QED
    BY <2>5, <2>6 DEF AtMost
<1> QED
  BY <1>1, <1>2

\* What one more evaluation does to the metrics of a source.
LEMMA OneMore ==
    ASSUME NEW s \in Seq(Counted), NEW e \in Counted
    PROVE  LET after == Append(s, e)
           IN  /\ e.status = "PASS" => AtMost(Score(s), Score(after))
               /\ e.status = "FAIL" => AtMost(Score(after), Score(s))
               /\ e.status \notin Decided => Score(after) = Score(s)
               /\ e.status \in Decided => AtMost(Coverage(s), Coverage(after))
               /\ e.status = "MANUAL_REVIEW" => AtMost(Coverage(after), Coverage(s))
               /\ e.status \in {"NOT_APPLICABLE", "ERROR"} => Coverage(after) = Coverage(s)
<1> DEFINE after == Append(s, e)
           passed == TotalWeight(s, {"PASS"})
           decided == TotalWeight(s, Decided)
           some == Count(s, Decided)
           all == Count(s, CoverageStatuses)
           w == Weight(e, Decided)
<1>1. passed \in Nat /\ decided \in Nat /\ passed <= decided /\ w \in Nat
  BY PassedAndDecided, WeightIsNumber
<1>2. some \in Nat /\ all \in Nat /\ some <= all
  BY CountIsNumber, EqualCounts DEF CoverageStatuses
<1>3. /\ TotalWeight(after, {"PASS"}) = passed + Weight(e, {"PASS"})
      /\ TotalWeight(after, Decided) = decided + w
  BY AppendedTotal
<1>4. /\ Count(after, Decided) = some + (IF e.status \in Decided THEN 1 ELSE 0)
      /\ Count(after, CoverageStatuses) =
            all + (IF e.status \in CoverageStatuses THEN 1 ELSE 0)
  BY AppendedCount
<1>5. /\ Score(s) = Percent(passed, decided)
      /\ Score(after) = Percent(passed + Weight(e, {"PASS"}), decided + w)
  BY <1>3 DEF Score
<1>6. /\ Coverage(s) = Percent(some, all)
      /\ Coverage(after) = Percent(Count(after, Decided), Count(after, CoverageStatuses))
  BY DEF Coverage
<1>7. /\ e.status = "PASS" => Weight(e, {"PASS"}) = w
      /\ e.status # "PASS" => Weight(e, {"PASS"}) = 0
      /\ e.status \notin Decided => w = 0
  BY DEF Weight, Decided
<1> HIDE DEF after, passed, decided, some, all, w
<1>8. /\ AtMost(Percent(passed, decided), Percent(passed + w, decided + w))
      /\ AtMost(Percent(passed, decided + w), Percent(passed, decided))
      /\ AtMost(Percent(some, all), Percent(some + 1, all + 1))
      /\ AtMost(Percent(some, all + 1), Percent(some, all))
  BY <1>1, <1>2, AddedWeight
<1>9. /\ passed + 0 = passed /\ decided + 0 = decided
      /\ some + 0 = some /\ all + 0 = all
  BY <1>1, <1>2
<1>10. CASE e.status = "PASS"
  <2>1. Score(after) = Percent(passed + w, decided + w)
    BY <1>5, <1>7, <1>10
  <2>2. Coverage(after) = Percent(some + 1, all + 1)
    BY <1>4, <1>6, <1>10 DEF Decided, CoverageStatuses
  <2> QED
    BY <1>5, <1>6, <1>8, <1>10, <2>1, <2>2 DEF Decided, after
<1>11. CASE e.status = "FAIL"
  <2>1. Score(after) = Percent(passed, decided + w)
    BY <1>5, <1>7, <1>9, <1>11
  <2>2. Coverage(after) = Percent(some + 1, all + 1)
    BY <1>4, <1>6, <1>11 DEF Decided, CoverageStatuses
  <2> QED
    BY <1>5, <1>6, <1>8, <1>11, <2>1, <2>2 DEF Decided, after
<1>12. CASE e.status \notin Decided
  <2>1. Score(after) = Score(s)
    BY <1>5, <1>7, <1>9, <1>12 DEF Decided
  <2>2. e.status = "MANUAL_REVIEW" => Coverage(after) = Percent(some, all + 1)
    BY <1>4, <1>6, <1>9, <1>12 DEF CoverageStatuses
  <2>3. e.status # "MANUAL_REVIEW" => Coverage(after) = Percent(some, all)
    BY <1>4, <1>6, <1>9, <1>12 DEF CoverageStatuses
  <2> QED
    BY <1>6, <1>8, <1>12, <2>1, <2>2, <2>3 DEF Decided, after
<1> QED
  BY <1>10, <1>11, <1>12 DEF Decided

\* A PASS never lowers a score and a FAIL never raises it, in whatever order, with
\* whatever weights and however the metrics are rounded.
THEOREM EveryEvaluationPulls == Spec => EvaluationsPullTheRightWay
<1> DEFINE Pulls ==
             /\ Cardinality(Touched) <= 1
             /\ \A partition \in Touched :
                   LET before == items[partition]
                       after == items'[partition]
                       status == Last(after).status
                   IN  /\ status = "PASS" => AtMost(Score(before), Score(after))
                       /\ status = "FAIL" => AtMost(Score(after), Score(before))
                       /\ status \notin Decided => Score(after) = Score(before)
                       /\ status \in Decided => AtMost(Coverage(before), Coverage(after))
                       /\ status = "MANUAL_REVIEW" => AtMost(Coverage(after), Coverage(before))
                       /\ status \in {"NOT_APPLICABLE", "ERROR"} =>
                             Coverage(after) = Coverage(before)
<1>1. IInv /\ [Next]_vars => [Pulls]_vars
  <2> SUFFICES ASSUME IInv, Next
               PROVE  Pulls
    OBVIOUS
  <2>1. ASSUME NEW e \in Evaluations, Refuse(e)
        PROVE  Pulls
    <3>1. Touched = {}
      BY <2>1 DEF Refuse, Touched
    <3> QED
      BY <3>1, FS_EmptySet
  <2>2. ASSUME NEW e \in Evaluations, Accept(e)
        PROVE  Pulls
    <3> DEFINE here == PartitionOf(e)
    <3>1. items' = [items EXCEPT ![here] = Append(@, e)] /\ Bound(e)
      BY <2>2 DEF Accept, IsAccepted
    <3>2. e \in Counted /\ here \in Partitions
      BY <3>1, AcceptedIsCounted
    <3>3. items \in [Partitions -> Seq(Counted)]
      BY DEF IInv, TypeOK, Counted
    <3> HIDE DEF here
    <3>4. /\ items'[here] = Append(items[here], e)
          /\ \A partition \in Partitions \ {here} : items'[partition] = items[partition]
      BY <3>1, <3>2, <3>3
    <3>5. Touched \subseteq {here}
      BY <3>4 DEF Touched
    <3>6. Cardinality(Touched) <= 1
      <4>1. IsFiniteSet({here}) /\ Cardinality({here}) = 1
        BY FS_Singleton
      <4> QED
        BY <3>5, <4>1, FS_Subset
    <3> DEFINE s == items[here]
    <3>7. s \in Seq(Counted)
      BY <3>2, <3>3
    <3> HIDE DEF s
    <3>8. Last(Append(s, e)) = e
      <4>1. Len(Append(s, e)) = Len(s) + 1 /\ Append(s, e)[Len(s) + 1] = e
        BY <3>2, <3>7, AppendProperties
      <4> QED
        BY <4>1 DEF Last
    <3>9. LET after == Append(s, e)
          IN  /\ e.status = "PASS" => AtMost(Score(s), Score(after))
              /\ e.status = "FAIL" => AtMost(Score(after), Score(s))
              /\ e.status \notin Decided => Score(after) = Score(s)
              /\ e.status \in Decided => AtMost(Coverage(s), Coverage(after))
              /\ e.status = "MANUAL_REVIEW" => AtMost(Coverage(after), Coverage(s))
              /\ e.status \in {"NOT_APPLICABLE", "ERROR"} => Coverage(after) = Coverage(s)
      BY <3>2, <3>7, OneMore
    <3> QED
      BY <3>4, <3>5, <3>6, <3>8, <3>9 DEF s
  <2> QED
    BY <2>1, <2>2 DEF Next
<1>2. Spec => [][Pulls]_vars
  BY <1>1, SpecIInv, PTL DEF Spec
<1> QED
  BY <1>2 DEF EvaluationsPullTheRightWay
==============================================================================
