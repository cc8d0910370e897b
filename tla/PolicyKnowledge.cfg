CONSTANTS
    Words = {"Access", "mfa", "keys", "draft"}
    Blank = "blank"
    Slugs = {"Access", "mfa", "keys", "draft"}
    NoSlug = "none"
    Slug <- MCSlug
    Numbered <- MCNumbered
    SheetSlug = "sheet"
    Keys <- MCKeys
    SourceTypes = {"GLOBAL", "CUSTOMER"}
    None = None
    Canonicals <- MCCanonicals
    Controls = {c1}
    Targets = {t1}
    References <- MCReferences
    MaxCited = 1
SPECIFICATION Spec
INVARIANTS
    TypeOK
    EvidenceStaysRegistered
    EvidenceLeadsToOneSection
CHECK_DEADLOCK FALSE
