\* Two candidates for two versions of one rule, one of two sections uncertain,
\* with rules and approvals also restored from outside, one profile, one rule set
\* that an assessment pinned, and restarts.
CONSTANTS
    None = None
    RuleIds = {"CUSTOMER-S3-ENC-001"}
    Versions = {1, 2}
    Prefix <- MCPrefix
    References = {ref1, ref2}
    SourceTypeOf <- MCSourceTypeOf
    Scopes = {s3_encryption}
    Mapped <- MCMapped
    EvaluationTypes = {"IAC"}
    Texts = {t1}
    ProfileIds = {p1}
    MaxBuilt = 1
    CandidateIds = {c1, c2}
    Uncertain = {ref2}
SPECIFICATION CandidatesSpec
SYMMETRY Symmetry
INVARIANT TypeOK PinnedSetsReproducible AuditAgrees OneRulePerCandidate ApprovedVersionsIncrease
PROPERTY IdentityIsForever DeprecatedStaysOut
CHECK_DEADLOCK FALSE
