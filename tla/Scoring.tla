--------------------------------- MODULE Scoring ---------------------------------
(***************************************************************************)
(* calculate_source_metrics: the score and coverage of each Policy Source  *)
(* from the evaluations of an assessment and the Effective Rule Set that   *)
(* it was pinned to (packages/governance/scoring/calculator.py).           *)
(*                                                                         *)
(* A percentage is a number of tenths.                                     *)
(***************************************************************************)
EXTENDS Integers, SequencesExt

CONSTANTS
    Resources,
    PinnedRules,    \* identities in the Effective Rule Set
    OtherRules,     \* identities outside it
    SourceIds,
    Severity,       \* of each pinned rule
    SourceTypeOf,   \* of each pinned rule
    DocumentsOf,    \* of each pinned rule: the documents it refers to
    MaxEvaluations, \* evaluations of one assessment: bounds the runs
    None

Weights == [CRITICAL |-> 10, HIGH |-> 5, MEDIUM |-> 2, LOW |-> 1]

Severities == DOMAIN Weights

SourceTypes == {"GLOBAL", "CUSTOMER"}

ASSUME RuleSetAssumption ==
    /\ PinnedRules \cap OtherRules = {}
    /\ Severity \in [PinnedRules -> Severities]
    /\ SourceTypeOf \in [PinnedRules -> SourceTypes]
    /\ DocumentsOf \in [PinnedRules -> (SUBSET SourceIds) \ {{}}]

ASSUME NoneAssumption == None \notin Int

\* The statuses, and ERROR for an execution without one: RuleEvaluationMetric
\* has no other combination.
Statuses == {"PASS", "FAIL", "MANUAL_REVIEW", "NOT_APPLICABLE", "ERROR"}

Evaluations ==
    [resource : Resources, rule : PinnedRules \cup OtherRules, source_id : SourceIds,
     source_type : SourceTypes, severity : Severities, status : Statuses]

Identity(e) == <<e.resource, e.rule, e.source_id>>

Partitions == SourceIds \X SourceTypes

VARIABLES
    seen,       \* the identities of the evaluations so far
    items,      \* the evaluations of each partition, in order
    refused     \* the whole calculation was given up

vars == <<seen, items, refused>>

Init ==
    /\ seen = {}
    /\ items = [partition \in Partitions |-> <<>>]
    /\ refused = FALSE

\* Mutant: the evaluation brings its own severity.
BoundWithoutSeverity(e) ==
    /\ e.rule \in PinnedRules
    /\ e.source_type = SourceTypeOf[e.rule]
    /\ e.source_id \in DocumentsOf[e.rule]

\* _pinned_rule: the evaluation agrees with the rule it names.
Bound(e) ==
    /\ e.rule \in PinnedRules
    /\ e.severity = Severity[e.rule]
    /\ e.source_type = SourceTypeOf[e.rule]
    /\ e.source_id \in DocumentsOf[e.rule]

\* Mutant: a Resource that was evaluated under the rule before counts again.
IsAcceptedTwice(e) == Bound(e)

IsAccepted(e) == Identity(e) \notin seen /\ Bound(e)

\* Mutant: one partition for each type of source.
PartitionOfType(e) == <<CHOOSE id \in SourceIds : TRUE, e.source_type>>

PartitionOf(e) == <<e.source_id, SourceTypeOf[e.rule]>>

Accept(e) ==
    /\ ~refused
    /\ Cardinality(seen) < MaxEvaluations
    /\ IsAccepted(e)
    /\ seen' = seen \cup {Identity(e)}
    /\ items' = [items EXCEPT ![PartitionOf(e)] = Append(@, e)]
    /\ UNCHANGED refused

\* One evaluation that is not accepted, and no score is calculated at all.
Refuse(e) ==
    /\ ~refused
    /\ ~IsAccepted(e)
    /\ refused' = TRUE
    /\ UNCHANGED <<seen, items>>

Next == \E e \in Evaluations : Accept(e) \/ Refuse(e)

Spec == Init /\ [][Next]_vars

-----------------------------------------------------------------------------
(* The metrics of a partition.                                              *)

\* round(100.0 * n / d, 1), in tenths.  Below a denominator of 2000 only .25 and
\* .75 are ties; both are exact as binary numbers and go to the even tenth.
Percent(numerator, denominator) ==
    IF denominator = 0
    THEN None
    ELSE LET tenths == (1000 * numerator) \div denominator
             rest == (1000 * numerator) % denominator
         IN  CASE 2 * rest < denominator -> tenths
               [] 2 * rest > denominator -> tenths + 1
               [] 2 * rest = denominator -> tenths + (tenths % 2)

\* Mutant: what a person has to look at weighs on the score.
WeightWithReview(e, statuses) ==
    IF e.status \in statuses \cup {"MANUAL_REVIEW"} THEN Weights[Severity[e.rule]] ELSE 0

\* What an evaluation adds to a weight that counts these statuses.
Weight(e, statuses) == IF e.status \in statuses THEN Weights[Severity[e.rule]] ELSE 0

TotalWeight(evaluations, statuses) ==
    FoldLeft(LAMBDA total, e : total + Weight(e, statuses), 0, evaluations)

Count(evaluations, statuses) ==
    Cardinality({k \in DOMAIN evaluations : evaluations[k].status \in statuses})

Decided == {"PASS", "FAIL"}

\* Mutant: an evaluation that does not apply is missing coverage.
CoverageStatusesAll == Statuses \ {"ERROR"}

CoverageStatuses == Decided \cup {"MANUAL_REVIEW"}

Score(evaluations) ==
    Percent(TotalWeight(evaluations, {"PASS"}), TotalWeight(evaluations, Decided))

Coverage(evaluations) ==
    Percent(Count(evaluations, Decided), Count(evaluations, CoverageStatuses))

-----------------------------------------------------------------------------
(* Properties.                                                              *)

\* What is counted was evaluated under a pinned rule and brings the severity that
\* the rule was pinned with: a consumer cannot choose the weight of its verdict.
TypeOK ==
    /\ seen \subseteq Resources \X PinnedRules \X SourceIds
    /\ items \in [Partitions ->
                   Seq({e \in Evaluations :
                            e.rule \in PinnedRules /\ e.severity = Severity[e.rule]})]
    /\ refused \in BOOLEAN

\* Each Resource x Rule x Source counts once, under its own source and with the
\* weight of the pinned rule.
CountedOnce ==
    \A one, other \in Partitions : \A i \in DOMAIN items[one], j \in DOMAIN items[other] :
        /\ items[one][i].source_id = one[1]
        /\ Identity(items[one][i]) = Identity(items[other][j]) => one = other /\ i = j

\* Both denominators are in the range where Percent rounds as the code does and no
\* single evaluation is rounded away.
Exact(evaluations) ==
    /\ TotalWeight(evaluations, Decided) < 2000
    /\ Count(evaluations, CoverageStatuses) < 2000

\* As long as a source has less than 2000 decided on, a percentage of it never hides
\* what was decided against or left open: 0 and 100 are shown only if all that counts
\* is one way, and no number only if nothing counts.  From 2000 on it does hide it:
\* 400 PASS of a HIGH rule and one FAIL of a LOW one are shown as 100.0.
ExtremesAreExact ==
    \A partition \in Partitions :
        LET evaluations == items[partition]
        IN  Exact(evaluations) =>
                /\ Score(evaluations) = 1000 => Count(evaluations, {"FAIL"}) = 0
                /\ Score(evaluations) = 0 => Count(evaluations, {"PASS"}) = 0
                /\ Score(evaluations) = None <=> Count(evaluations, Decided) = 0
                /\ Coverage(evaluations) = 1000 => Count(evaluations, {"MANUAL_REVIEW"}) = 0
                /\ Coverage(evaluations) = 0 => Count(evaluations, Decided) = 0
                /\ Coverage(evaluations) = None <=> Count(evaluations, CoverageStatuses) = 0

\* The partitions whose evaluations a step adds to.
Touched == {partition \in Partitions : items'[partition] # items[partition]}

AtMost(a, b) == a = None \/ b = None \/ a <= b

\* A step adds one evaluation to one source.  A PASS never lowers its score and
\* a FAIL never raises it; a manual review lowers the coverage at most; what
\* does not apply or could not be executed leaves both as they are.
EvaluationsPullTheRightWay ==
    [][/\ Cardinality(Touched) <= 1
       /\ \A partition \in Touched :
             LET before == items[partition]
                 after == items'[partition]
                 status == Last(after).status
             IN  /\ status = "PASS" => AtMost(Score(before), Score(after))
                 /\ status = "FAIL" => AtMost(Score(after), Score(before))
                 /\ status \notin Decided => Score(after) = Score(before)
                 /\ status \in Decided => AtMost(Coverage(before), Coverage(after))
                 /\ status = "MANUAL_REVIEW" => AtMost(Coverage(after), Coverage(before))
                 /\ status \in {"NOT_APPLICABLE", "ERROR"} => Coverage(after) = Coverage(before)]_vars
==============================================================================
