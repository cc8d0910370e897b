CONSTANTS
    Words = {"Access", "mfa", "keys", "draft"}
    Blank = "blank"
    Slugs = {"Access", "mfa", "keys", "draft"}
    NoSlug = "none"
    Slug <- MCSlug
    Numbered <- MCNumbered
    SheetSlug = "sheet"
    Keys <- MCKeys
    SourceTypes = {"GLOBAL", "CUSTOMER"}
    None = None
    Canonicals <- MCFindingCanonicals
    Controls = {c1}
    Targets = {t1}
    References <- MCReferences
    MaxCited = 0
SPECIFICATION Spec
PROPERTY AcceptedUploadsKeepTheirText
CHECK_DEADLOCK FALSE
