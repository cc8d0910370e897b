----------------------------- MODULE JobLifecycle -----------------------------
(***************************************************************************)
(* The Job record of the backend and the pure lifecycle policy that every  *)
(* stored Job goes through: apps/backend/jobs/models.py and lifecycle.py.  *)
(*                                                                         *)
(* The three write-once identifiers of a Job (assessment_id, remediation_id*)
(* and deployment_id) are one function `links' from LinkFields, because    *)
(* the code treats the three alike.                                        *)
(***************************************************************************)
EXTENDS Naturals

CONSTANTS
    JobIds,      \* values of job_id
    JobTypes,    \* values of job_type, an opaque string in the code
    Steps,       \* JobCurrentStep
    Users,       \* subjects that may be a Job's requested_by
    LinkFields,  \* the write-once identifier fields
    LinkIds,     \* values of those fields
    ApiErrors,   \* public error details
    None         \* Python's None, and an absent item

ASSUME NoneAssumption ==
    /\ None \notin LinkIds \cup ApiErrors \cup Steps
    /\ "error" \notin LinkFields

JobStatus == {"QUEUED", "RUNNING", "WAITING_REVIEW", "WAITING_APPROVAL",
              "COMPLETED", "FAILED", "CANCELLED"}

\* The dataclass fields, with revisions taken from R.
JobsAt(R) ==
    [job_id : JobIds, job_type : JobTypes, status : JobStatus,
     current_step : Steps, requested_by : Users, revision : R,
     links : [LinkFields -> LinkIds \cup {None}], error : ApiErrors \cup {None}]

ASSUME NoneIsNoJob == None \notin JobsAt(Nat)

\* What __post_init__ demands beyond the types: an error exactly on FAILED.
WellFormed(job) == job.status = "FAILED" <=> job.error # None

Unlinked == [f \in LinkFields |-> None]

-----------------------------------------------------------------------------
\* Mutant: a failed Job may be run again.
TransitionsReviveFailed ==
    [s \in JobStatus |->
        CASE s \in {"QUEUED", "FAILED"} -> {"RUNNING", "FAILED", "CANCELLED"}
          [] s = "RUNNING" -> JobStatus \ {"QUEUED"}
          [] s \in {"WAITING_REVIEW", "WAITING_APPROVAL"} ->
                {"RUNNING", "FAILED", "CANCELLED"}
          [] OTHER -> {}]

AllowedTransitions ==
    [s \in JobStatus |->
        CASE s = "QUEUED" -> {"RUNNING", "FAILED", "CANCELLED"}
          [] s = "RUNNING" -> {"RUNNING", "WAITING_REVIEW", "WAITING_APPROVAL",
                               "COMPLETED", "FAILED", "CANCELLED"}
          [] s \in {"WAITING_REVIEW", "WAITING_APPROVAL"} ->
                {"RUNNING", "FAILED", "CANCELLED"}
          [] OTHER -> {}]

\* lifecycle.create_job
CreateJob(id, type, step, owner) ==
    [job_id |-> id, job_type |-> type, status |-> "QUEUED",
     current_step |-> step, requested_by |-> owner, revision |-> 0,
     links |-> Unlinked, error |-> None]

\* _link_once raises when it returns neither the existing nor a first value.
CanLink(existing, candidate) == candidate \in {None, existing} \/ existing = None

LinkOnce(existing, candidate) ==
    IF candidate \in {None, existing} THEN existing ELSE candidate

(***************************************************************************)
(* transition_job(job, expected_revision, change): MayTransition is the    *)
(* conjunction of the checks that raise, the last one being that of the    *)
(* new Job's __post_init__; TransitionJob is the Job returned otherwise.   *)
(***************************************************************************)
MayTransition(job, expected, change) ==
    /\ job.revision = expected
    /\ change.status \in AllowedTransitions[job.status]
    /\ change.status # "FAILED" => change.error = None
    /\ \A f \in LinkFields : CanLink(job.links[f], change.links[f])
    /\ change.status = "FAILED" => change.error # None

TransitionJob(job, change) ==
    [job EXCEPT
        !.status = change.status,
        !.current_step = IF change.current_step = None THEN @
                         ELSE change.current_step,
        !.revision = @ + 1,
        !.links = [f \in LinkFields |-> LinkOnce(@[f], change.links[f])],
        !.error = change.error]
=============================================================================
