SPECIFICATION Spec
CONSTANTS
    heavy = heavy
    light = light
    a = a
    b = b
    None = None
    Resources = {r1, r2}
    PinnedRules = {heavy, light}
    OtherRules = {other}
    SourceIds = {a, b}
    Severity <- MCSeverity
    SourceTypeOf <- MCSourceTypeOf
    DocumentsOf <- MCDocumentsOf
    MaxEvaluations = 4
INVARIANTS
    TypeOK
    CountedOnce
    ExtremesAreExact
PROPERTY
    EvaluationsPullTheRightWay
\* The calculation ends with the last evaluation, or with the first it refuses.
CHECK_DEADLOCK FALSE
