-------------------------------- MODULE JobSpec --------------------------------
(***************************************************************************)
(* What the job repository promises its callers, whatever they ask for and *)
(* however their calls interleave: each Job is created once, as an unlinked*)
(* QUEUED revision 0, and then moves by single legal lifecycle steps.      *)
(*                                                                         *)
(* The legal steps are stated here by what must stay true of them, not by  *)
(* the code's transition table and helpers, so that an error in those      *)
(* shows as a step this module does not allow.                             *)
(***************************************************************************)
EXTENDS JobLifecycle

VARIABLE jobs   \* the Job each id stands for, or None

Terminal == {"COMPLETED", "FAILED", "CANCELLED"}

\* A step leaves no terminal status, never returns to QUEUED, and only a
\* RUNNING Job starts to wait or completes.
StatusStep(s, t) ==
    /\ s \notin Terminal
    /\ t # "QUEUED"
    /\ t \in {"WAITING_REVIEW", "WAITING_APPROVAL", "COMPLETED"} => s = "RUNNING"

LegalStep(old, new) ==
    /\ new \in JobsAt(Nat)
    /\ WellFormed(new)
    /\ new.job_id = old.job_id
    /\ new.job_type = old.job_type
    /\ new.requested_by = old.requested_by
    /\ new.revision = old.revision + 1
    /\ StatusStep(old.status, new.status)
    /\ \A f \in LinkFields : old.links[f] # None => new.links[f] = old.links[f]

LegalStart(id, new) ==
    /\ new \in JobsAt({0})
    /\ new.job_id = id
    /\ new.status = "QUEUED"
    /\ new.links = Unlinked
    /\ new.error = None

-----------------------------------------------------------------------------
Init == jobs = [id \in JobIds |-> None]

Create(id) ==
    /\ jobs[id] = None
    /\ LegalStart(id, jobs'[id])
    /\ jobs' = [jobs EXCEPT ![id] = jobs'[id]]

Advance(id) ==
    /\ jobs[id] # None
    /\ LegalStep(jobs[id], jobs'[id])
    /\ jobs' = [jobs EXCEPT ![id] = jobs'[id]]

Next == \E id \in JobIds : Create(id) \/ Advance(id)

Spec == Init /\ [][Next]_jobs
=============================================================================
