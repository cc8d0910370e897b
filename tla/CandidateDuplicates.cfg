\* Two candidates over two sections.
CONSTANTS
    None = None
    RuleIds = {"CUSTOMER-S3-ENC-001"}
    Versions = {1, 2}
    Prefix <- MCPrefix
    References = {ref1, ref2}
    SourceTypeOf <- MCSourceTypeOf
    Scopes = {s3_encryption}
    Mapped <- MCMapped
    EvaluationTypes = {"IAC"}
    Texts = {t1}
    ProfileIds = {}
    MaxBuilt = 0
    CandidateIds = {c1, c2}
    Uncertain = {}
SPECIFICATION CandidatesSpec
INVARIANT DuplicateContentRejected
