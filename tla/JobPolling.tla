------------------------------ MODULE JobPolling ------------------------------
(***************************************************************************)
(* Clients poll Jobs while the repository goes on: apps/backend/auth,      *)
(* jobs/access.py, the projection of jobs/models.py and get_job.           *)
(*                                                                         *)
(* A poll reads the item at one moment and answers at a later one, so that *)
(* writes come in between, and answers may overtake each other.  The token *)
(* was verified before its claims get here.                                *)
(***************************************************************************)
EXTENDS JobRepository

CONSTANTS
    Clients,    \* who has at most one poll under way
    Claims      \* the claims of the verified tokens that may come

Roles == {"Admin", "User"}

\* An absent subject or client is None or FALSE; of the groups that are no role,
\* only the blank ones matter.
AllClaims ==
    [token_use : {"access", "id"}, sub : Users \cup {None}, client_id : BOOLEAN,
     groups : SUBSET (Roles \cup {"other", "blank"})]

ASSUME ClaimsAssumption == Claims \subseteq AllClaims

VARIABLES
    past,       \* history: the items that have been stored under each job_id
    polls       \* the poll of each client, or None before its first one

pollingVars == <<table, requests, waiting, result, acked, past, polls>>

-----------------------------------------------------------------------------
(* What an invocation calls.                                                *)

\* Principal.from_verified_claims: groups that are no role are passed over.
RolesOf(claims) == claims.groups \cap Roles

IsPrincipal(claims) ==
    /\ claims.token_use = "access"
    /\ claims.sub # None
    /\ claims.client_id
    /\ "blank" \notin claims.groups
    /\ RolesOf(claims) # {}

RoleActions == [role \in Roles |-> {"START_ASSESSMENT", "READ_JOB"}]

Authorize(claims, action) == \E role \in RolesOf(claims) : action \in RoleActions[role]

\* Mutant: every user may read every Job.
AuthorizeJobReadOfUsers(claims, job) == RolesOf(claims) # {}

AuthorizeJobRead(claims, job) ==
    \/ "Admin" \in RolesOf(claims)
    \/ "User" \in RolesOf(claims) /\ claims.sub = job.requested_by

\* The public projection: neither the owner nor the revision.
ToResponse(job) ==
    [job_id |-> job.job_id, job_type |-> job.job_type, status |-> job.status,
     current_step |-> job.current_step, links |-> job.links, error |-> job.error]

SanitizePublicError(error) ==
    IF error \in {"DuplicateJobError", "InvalidJobMutationError", "RevisionConflictError"}
    THEN "INVALID_STATE"
    ELSE IF error \in {"RepositoryError", "StoredDataError"} THEN "EXTERNAL_SERVICE_ERROR"
    ELSE "INTERNAL_ERROR"

\* Mutant: the read is not consistent and may give any earlier item.
ReadableEventually(id) == past[id] \cup {table[id]}

\* ConsistentRead: every write that was applied is seen.
Readable(id) == {table[id]}

-----------------------------------------------------------------------------
PollingInit ==
    /\ Init
    /\ past = [id \in JobIds |-> {}]
    /\ polls = [client \in Clients |-> None]

Is(client, state) == polls[client] # None /\ polls[client].state = state

\* The identity and the action are looked at before the Job is.
PollBegin(client, claims, id) ==
    /\ ~Is(client, "begun")
    /\ ~Is(client, "read")
    /\ IsPrincipal(claims)
    /\ Authorize(claims, "READ_JOB")
    /\ polls' = [polls EXCEPT ![client] =
           [state |-> "begun", claims |-> claims, id |-> id, began |-> Stored(id),
            job |-> None, response |-> None]]

\* get_job returns.
PollRead(client) ==
    /\ Is(client, "begun")
    /\ \E item \in Readable(polls[client].id) :
          polls' = [polls EXCEPT
              ![client].state = IF item = None THEN "not found" ELSE "read",
              ![client].job = IF item = None THEN None ELSE JobFromItem(item)]

\* get_job raises: the provider failed, or the item is no Job.
PollFails(client) ==
    /\ Is(client, "begun")
    /\ polls' = [polls EXCEPT ![client].state = SanitizePublicError("RepositoryError")]

PollAnswer(client) ==
    /\ Is(client, "read")
    /\ LET poll == polls[client]
           allowed == AuthorizeJobRead(poll.claims, poll.job)
       IN  polls' = [polls EXCEPT
               ![client].state = IF allowed THEN "answered" ELSE "denied",
               ![client].response = IF allowed THEN ToResponse(poll.job) ELSE None]

PollStep(client) ==
    \/ \E claims \in Claims, id \in JobIds : PollBegin(client, claims, id)
    \/ PollRead(client)
    \/ PollFails(client)
    \/ PollAnswer(client)

RepositoryStep ==
    /\ Next
    /\ past' = [id \in JobIds |-> past[id] \cup ({table'[id]} \ {None})]
    /\ UNCHANGED polls

PollingNext ==
    \/ RepositoryStep
    \/ \E client \in Clients : PollStep(client) /\ UNCHANGED <<vars, past>>

PollingSpec == PollingInit /\ [][PollingNext]_pollingVars

-----------------------------------------------------------------------------
(* Properties.                                                              *)

\* What a Job may look like later on: it never returns to QUEUED, keeps the
\* identifiers it has, and keeps everything once it is terminal.
MayBecome(old, new) ==
    /\ old.status # "QUEUED" => new.status # "QUEUED"
    /\ \A f \in LinkFields : old.links[f] # None => new.links[f] = old.links[f]
    /\ old.status \in Lifecycle!Terminal => new = old

\* The response carries no revision, so that a client cannot put answers in
\* order; it does not have to.  An answer is no older than the Job was when its
\* poll began, and whatever happens later never takes it back: polls made one
\* after the other never see a Job lose an identifier, return to QUEUED or leave
\* a terminal status.
AnswersAreCurrent ==
    \A client \in Clients : polls[client] # None =>
        LET poll == polls[client]
        IN  /\ poll.state = "not found" => poll.began = None
            /\ poll.response # None =>
                  /\ poll.began # None => MayBecome(ToResponse(poll.began), poll.response)
                  /\ MayBecome(poll.response, ToResponse(Stored(poll.id)))

\* The Job a record was made for, as it was created.
Created(id) == {item \in past[id] : item.revision = 0}

\* Whoever updates a Job, its answers go to admins and to the user who created
\* it, on an access token, and nobody else; and these are never denied.
AnsweredByRight ==
    \A client \in Clients : polls[client] # None =>
        LET poll == polls[client]
            mayRead == \/ "Admin" \in poll.claims.groups
                       \/ /\ "User" \in poll.claims.groups
                          /\ \E item \in Created(poll.id) :
                                item.requested_by = poll.claims.sub
        IN  /\ poll.response # None => mayRead /\ poll.claims.token_use = "access"
            /\ poll.state = "denied" => ~mayRead
===============================================================================
