SPECIFICATION Spec
CONSTANTS
    c1 = c1
    c2 = c2
    c3 = c3
    None = None
    Sources = {"fsbp"}
    Frameworks = {"1.0"}
    Urls = {"u1", "u2"}
    Capabilities = {"organizations"}
    Payloads <- MCPayloads
    DocumentHashes = {"document"}
    MaxLoaded = 2
INVARIANTS
    TypeOK
    HeldAsPublished
    DecisionsStand
\* Sources are defined, control sets held and versions frozen once.
CHECK_DEADLOCK FALSE
