----------------------------- MODULE JobRepository -----------------------------
(***************************************************************************)
(* DynamoDbJobRepository (apps/backend/repositories/dynamodb.py) under any *)
(* number of concurrent callers, each an invocation of the backend that    *)
(* calls create_job or update_job with a Job of its own making.            *)
(*                                                                         *)
(* update_job is not atomic: it reads the item, validates the caller's Job *)
(* against what it read, and then writes the whole item under a condition. *)
(* Other callers may write in between.  The put is a request on its way to *)
(* DynamoDB: it is applied at any later time, also after its caller was    *)
(* told that it failed, it may be delivered again by the SDK's own retry,  *)
(* and its answer may be lost.                                             *)
(***************************************************************************)
EXTENDS JobLifecycle, FiniteSets

CONSTANTS
    Callers,
    Revisions,    \* the revisions a caller may name: bounds the runs
    MaxInFlight   \* put requests on their way at once: bounds the runs

ASSUME RevisionsAssumption == Revisions \subseteq Nat

VARIABLES
    table,     \* DynamoDB: the item stored under each job_id, or None
    requests,  \* put_item requests that DynamoDB may yet apply
    waiting,   \* the put each caller waits for, or None
    result,    \* how each caller's last call ended, or None
    acked      \* history: the puts whose callers were told they succeeded

vars == <<table, requests, waiting, result, acked>>

\* Every Job a caller can construct: __post_init__ rejects the others.
Candidates == {job \in JobsAt(Revisions) : WellFormed(job)}

\* A put of update_job names the revision it replaces, one of create_job None.
Requests == [caller : Callers, job : Candidates,
             expected : Revisions \cup {None}]

Results == {"OK", "DuplicateJobError", "RevisionConflictError",
            "InvalidJobMutationError", "StoredDataError", "RepositoryError"}

-----------------------------------------------------------------------------
(* The stored form: an item carries an optional attribute only when the Job *)
(* has a value for it.                                                      *)

\* Mutant: the error of a FAILED Job is not stored.
LinkAttributesOnly == LinkFields

OptionalAttributes == LinkFields \cup {"error"}

OptionalValue(job, name) == IF name = "error" THEN job.error ELSE job.links[name]

ItemFromJob(job) ==
    [job_id |-> job.job_id, job_type |-> job.job_type, status |-> job.status,
     current_step |-> job.current_step, requested_by |-> job.requested_by,
     revision |-> job.revision,
     optional |-> [name \in {n \in OptionalAttributes :
                                OptionalValue(job, n) # None}
                      |-> OptionalValue(job, name)]]

Attribute(item, name) ==
    IF name \in DOMAIN item.optional THEN item.optional[name] ELSE None

JobFromItem(item) ==
    [job_id |-> item.job_id, job_type |-> item.job_type, status |-> item.status,
     current_step |-> item.current_step, requested_by |-> item.requested_by,
     revision |-> item.revision,
     links |-> [f \in LinkFields |-> Attribute(item, f)],
     error |-> Attribute(item, "error")]

Items == {ItemFromJob(job) : job \in Candidates}

ASSUME NoneIsNoRecord == None \notin Nat \cup Requests \cup Items

\* What get_job returns once the provider has answered.
Stored(id) == IF table[id] = None THEN None ELSE JobFromItem(table[id])

-----------------------------------------------------------------------------
(* create_job and update_job up to their put.                               *)

IsNewJob(job) ==
    /\ job.revision = 0
    /\ job.status = "QUEUED"
    /\ job.links = Unlinked

\* Mutant: the caller's Job is not compared with the one the lifecycle gives.
IsLifecycleMove(current, job, expected) == MayTransition(current, expected, job)

\* update_job re-derives the Job the lifecycle would produce from what it
\* read, and requires the caller's Job to be that one in every field.
IsLifecycleSuccessor(current, job, expected) ==
    /\ MayTransition(current, expected, job)
    /\ TransitionJob(current, job) = job

UpdateVerdict(job, expected) ==
    LET current == Stored(job.job_id)
    IN  IF job.revision # expected + 1 THEN "InvalidJobMutationError"
        ELSE IF current = None THEN "RevisionConflictError"
        ELSE IF ~WellFormed(current) THEN "StoredDataError"
        ELSE IF current.revision # expected THEN "RevisionConflictError"
        ELSE IF ~IsLifecycleSuccessor(current, job, expected)
             THEN "InvalidJobMutationError"
        ELSE "OK"

Idle(c) == waiting[c] = None

\* The call of c ends: it returns ("OK") or raises.
Reply(c, outcome) ==
    /\ result' = [result EXCEPT ![c] = outcome]
    /\ waiting' = [waiting EXCEPT ![c] = None]

Send(request) ==
    /\ Cardinality(requests) < MaxInFlight
    /\ requests' = requests \cup {request}
    /\ waiting' = [waiting EXCEPT ![request.caller] = request]
    /\ result' = [result EXCEPT ![request.caller] = None]
    /\ UNCHANGED <<table, acked>>

CreateSend(c, job) ==
    /\ Idle(c)
    /\ IsNewJob(job)
    /\ Send([caller |-> c, job |-> job, expected |-> None])

\* Some Job to create is not a new one.
CreateRefused(c) ==
    /\ Idle(c)
    /\ {job \in Candidates : ~IsNewJob(job)} # {}
    /\ Reply(c, "InvalidJobMutationError")
    /\ UNCHANGED <<table, requests, acked>>

UpdateSend(c, job, expected) ==
    /\ Idle(c)
    /\ UpdateVerdict(job, expected) = "OK"
    /\ Send([caller |-> c, job |-> job, expected |-> expected])

UpdateRefused(c) ==
    /\ Idle(c)
    /\ \E verdict \in {UpdateVerdict(job, expected) :
                           job \in Candidates, expected \in Revisions} \ {"OK"} :
          Reply(c, verdict)
    /\ UNCHANGED <<table, requests, acked>>

\* get_item raises; only an update with the right revision gets that far.
UpdateReadFails(c) ==
    /\ Idle(c)
    /\ {r \in Revisions : r + 1 \in Revisions} # {}
    /\ Reply(c, "RepositoryError")
    /\ UNCHANGED <<table, requests, acked>>

-----------------------------------------------------------------------------
(* DynamoDB and the way to it.                                              *)

\* Mutant: create_job puts without a condition.
CreateAlways(id) == TRUE

\* attribute_not_exists(job_id)
CreateCondition(id) == table[id] = None

\* Mutant: update_job only asks that the item exists.
RevisionUnchecked(id, expected) == table[id] # None

\* revision = :expected_revision, false for an item that does not exist
RevisionCondition(id, expected) ==
    table[id] # None /\ table[id].revision = expected

ConditionHolds(r) ==
    IF r.expected = None THEN CreateCondition(r.job.job_id)
    ELSE RevisionCondition(r.job.job_id, r.expected)

\* The whole item is replaced.
ApplyPut(r) ==
    table' = IF ConditionHolds(r)
             THEN [table EXCEPT ![r.job.job_id] = ItemFromJob(r.job)]
             ELSE table

\* ConditionalCheckFailedException becomes the error of the method called.
PutOutcome(r) ==
    IF ConditionHolds(r) THEN "OK"
    ELSE IF r.expected = None THEN "DuplicateJobError"
         ELSE "RevisionConflictError"

Answered(r) ==
    /\ waiting[r.caller] = r
    /\ ApplyPut(r)
    /\ requests' = requests \ {r}
    /\ Reply(r.caller, PutOutcome(r))
    /\ acked' = IF ConditionHolds(r) THEN acked \cup {r} ELSE acked

\* DynamoDB applies the put and the answer does not arrive (yet): the SDK may
\* deliver the same request again.
AppliedUnanswered(r) ==
    /\ ConditionHolds(r)
    /\ ApplyPut(r)
    /\ UNCHANGED <<requests, waiting, result, acked>>

\* put_item raises anything but a failed condition: a timeout, a dropped
\* connection, a throttled request.  The request may still be on its way.
PutFails(c) ==
    /\ ~Idle(c)
    /\ requests' \in {requests, requests \ {waiting[c]}}
    /\ Reply(c, "RepositoryError")
    /\ UNCHANGED <<table, acked>>

\* A request whose caller has given up is lost or has no effect any more.
Dropped(r) ==
    /\ waiting[r.caller] # r
    /\ requests' = requests \ {r}
    /\ UNCHANGED <<table, waiting, result, acked>>

-----------------------------------------------------------------------------
Init ==
    /\ table = [id \in JobIds |-> None]
    /\ requests = {}
    /\ waiting = [c \in Callers |-> None]
    /\ result = [c \in Callers |-> None]
    /\ acked = {}

CallerStep(c) ==
    \/ \E job \in Candidates : CreateSend(c, job)
    \/ CreateRefused(c)
    \/ \E job \in Candidates, expected \in Revisions : UpdateSend(c, job, expected)
    \/ UpdateRefused(c)
    \/ UpdateReadFails(c)
    \/ PutFails(c)

Next ==
    \/ \E c \in Callers : CallerStep(c)
    \/ \E r \in requests : Answered(r) \/ AppliedUnanswered(r) \/ Dropped(r)

Spec == Init /\ [][Next]_vars

-----------------------------------------------------------------------------
\* The Jobs the table stands for, and the promise made about them.
Lifecycle == INSTANCE JobSpec WITH jobs <- [id \in JobIds |-> Stored(id)]

\* The variables have their types, and every stored item decodes to a valid
\* Job under its own key: get_job never has a StoredDataError to raise about
\* an item that create_job or update_job wrote.
TypeOK ==
    /\ table \in [JobIds -> Items \cup {None}]
    /\ \A id \in JobIds : table[id] # None =>
          WellFormed(Stored(id)) /\ Stored(id).job_id = id
    /\ requests \subseteq Requests
    /\ waiting \in [Callers -> Requests \cup {None}]
    /\ result \in [Callers -> Results \cup {None}]
    /\ acked \subseteq Requests

\* The whole item is written long after it was validated, from what was read
\* then.  A pending update names a revision that has been stored, and whenever
\* DynamoDB would still accept a pending write, that write is a legal step from
\* the Job stored now: the check made in update_job is never out of date.
PendingWritesFresh ==
    \A r \in requests :
        LET now == Stored(r.job.job_id)
        IN  IF r.expected = None THEN Lifecycle!LegalStart(r.job.job_id, r.job)
            ELSE /\ now # None
                 /\ now.revision >= r.expected
                 /\ now.revision = r.expected => Lifecycle!LegalStep(now, r.job)

\* A write that was acknowledged is never lost: the stored Job is the one
\* acknowledged or a later revision of it, still carries the identifiers it
\* linked, and is exactly it when it was terminal.
AckedWritesSurvive ==
    \A a \in acked :
        LET now == Stored(a.job.job_id)
        IN  /\ now # None
            /\ now.revision >= a.job.revision
            /\ now.revision = a.job.revision \/ a.job.status \in Lifecycle!Terminal
                 => now = a.job
            /\ \A f \in LinkFields :
                  a.job.links[f] # None => now.links[f] = a.job.links[f]

\* Of the callers that race to write one revision of a Job, at most one is
\* told that it succeeded: the others fail instead of being overwritten.
OneWinnerPerRevision ==
    \A a, b \in acked :
        a.job.job_id = b.job.job_id /\ a.job.revision = b.job.revision => a = b

\* The table only ever moves as JobSpec allows: created once, then by one
\* legal lifecycle step at a time, whatever callers ask for.
ImplementsJobSpec == Lifecycle!Spec
=============================================================================
