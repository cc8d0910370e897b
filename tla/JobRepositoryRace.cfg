\* Two callers race on one Job: every interleaving of their reads, their puts
\* and the delivery of late or repeated puts, over revisions 0 to 2.
CONSTANTS
    None = None
    JobIds = {j1}
    JobTypes = {t1}
    Steps = {load_iac}
    Users = {u1}
    LinkFields = {"assessment_id"}
    LinkIds = {a1}
    ApiErrors = {e1}
    Callers = {c1, c2}
    Revisions = {0, 1, 2}
    MaxInFlight = 2
SPECIFICATION Spec
SYMMETRY Symmetry
VIEW View
INVARIANT TypeOK PendingWritesFresh AckedWritesSurvive OneWinnerPerRevision
PROPERTY ImplementsJobSpec
