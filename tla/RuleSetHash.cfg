\* One rule with two references, pinned once: does its hash outlive a restart?
CONSTANTS
    None = None
    RuleIds = {"CUSTOMER-S3-ENC-001"}
    Versions = {1}
    Prefix <- MCPrefix
    References = {ref1, ref2}
    SourceTypeOf <- MCSourceTypeOf
    Scopes = {s3_encryption}
    Mapped <- MCMapped
    EvaluationTypes = {"IAC", "MANUAL"}
    Texts = {t1}
    ProfileIds = {p1}
    MaxBuilt = 1
SPECIFICATION Spec
INVARIANT RuleSetHashReproducible
