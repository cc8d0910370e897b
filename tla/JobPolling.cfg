\* A client polls one Job over and over while a caller creates and updates it,
\* with late and repeated puts, over revisions 0 to 2.
CONSTANTS
    None = None
    u1 = u1
    u2 = u2
    JobIds = {j1}
    JobTypes = {t1}
    Steps = {load_iac}
    Users = {u1, u2}
    LinkFields = {"assessment_id"}
    LinkIds = {a1, a2}
    ApiErrors = {e1}
    Callers = {c1}
    Revisions = {0, 1, 2}
    MaxInFlight = 1
    Clients = {client}
    Claims <- MCClaims
SPECIFICATION PollingSpec
VIEW PollingView
INVARIANT AnswersAreCurrent AnsweredByRight
