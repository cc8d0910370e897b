---------------------------- MODULE JobPollingProofs ----------------------------
(***************************************************************************)
(* Proofs about JobRepository and, over it, about JobPolling, for any      *)
(* clients, claims, callers, jobs, identifiers and revisions.  Those about *)
(* polls rest on those about the repository: a poll moves nothing of it,   *)
(* and what it read is overtaken by legal lifecycle steps only.            *)
(***************************************************************************)
EXTENDS JobPolling, TLAPS

-----------------------------------------------------------------------------
(* The repository.                                                          *)

\* Decoding an item that the adapter encoded gives back the same Job.
LEMMA RoundTrip ==
    ASSUME NEW job \in JobsAt(Nat)
    PROVE  JobFromItem(ItemFromJob(job)) = job
<1> DEFINE item == ItemFromJob(job)
<1>1. ASSUME NEW f \in LinkFields PROVE Attribute(item, f) = job.links[f]
  <2>1. f # "error" /\ f \in OptionalAttributes
    BY NoneAssumption DEF OptionalAttributes
  <2> QED
    BY <2>1 DEF Attribute, ItemFromJob, OptionalValue
<1>2. Attribute(item, "error") = job.error
  BY DEF Attribute, ItemFromJob, OptionalValue, OptionalAttributes
<1>3. job.links = [f \in LinkFields |-> job.links[f]]
  BY DEF JobsAt
<1>4. [f \in LinkFields |-> Attribute(item, f)] = job.links
  BY <1>1, <1>3
<1> QED
  BY <1>2, <1>4 DEF JobFromItem, ItemFromJob, JobsAt

\* repository.create_job's check against lifecycle.create_job: the Jobs that the
\* adapter takes as new are exactly the ones the lifecycle constructs.
THEOREM NewJobsAreLifecycleJobs ==
  ASSUME 0 \in Revisions
  PROVE  {job \in Candidates : IsNewJob(job)}
           = {CreateJob(id, type, step, owner) :
                id \in JobIds, type \in JobTypes, step \in Steps, owner \in Users}
<1>1. ASSUME NEW job \in Candidates, IsNewJob(job)
      PROVE  job = CreateJob(job.job_id, job.job_type, job.current_step, job.requested_by)
  BY <1>1 DEF Candidates, JobsAt, WellFormed, IsNewJob, CreateJob, Unlinked
<1>2. ASSUME NEW id \in JobIds, NEW type \in JobTypes, NEW step \in Steps,
             NEW owner \in Users
      PROVE  /\ CreateJob(id, type, step, owner) \in Candidates
             /\ IsNewJob(CreateJob(id, type, step, owner))
  BY <1>2 DEF Candidates, JobsAt, WellFormed, IsNewJob, CreateJob, Unlinked, JobStatus
<1>3. ASSUME NEW job \in Candidates, IsNewJob(job)
      PROVE  /\ job.job_id \in JobIds /\ job.job_type \in JobTypes
             /\ job.current_step \in Steps /\ job.requested_by \in Users
  BY DEF Candidates, JobsAt
<1> QED
  BY <1>1, <1>2, <1>3

\* JobSpec extends JobLifecycle with the same constants, so that its copies of
\* these definitions are the ones used here.
LEMMA SameDefinitions ==
    /\ \A R : Lifecycle!JobsAt(R) = JobsAt(R)
    /\ \A job : Lifecycle!WellFormed(job) <=> WellFormed(job)
    /\ Lifecycle!Unlinked = Unlinked
BY DEF Lifecycle!JobsAt, JobsAt, Lifecycle!JobStatus, JobStatus,
       Lifecycle!WellFormed, WellFormed, Lifecycle!Unlinked, Unlinked

\* What update_job accepts is a legal lifecycle step from the Job it read.
LEMMA SuccessorIsLegal ==
    ASSUME NEW current \in JobsAt(Nat), NEW job \in JobsAt(Nat), WellFormed(job),
           NEW expected, IsLifecycleSuccessor(current, job, expected)
    PROVE  Lifecycle!LegalStep(current, job)
<1>1. /\ job.status \in AllowedTransitions[current.status]
      /\ \A f \in LinkFields : CanLink(current.links[f], job.links[f])
      /\ job = TransitionJob(current, job)
  BY DEF IsLifecycleSuccessor, MayTransition
<1>2. /\ job.job_id = current.job_id
      /\ job.job_type = current.job_type
      /\ job.requested_by = current.requested_by
      /\ job.revision = current.revision + 1
      /\ job.links = [f \in LinkFields |-> LinkOnce(current.links[f], job.links[f])]
  BY <1>1 DEF TransitionJob, JobsAt
<1>3. Lifecycle!StatusStep(current.status, job.status)
  <2>1. current.status \in JobStatus
    BY DEF JobsAt
  <2> QED
    BY <1>1, <2>1 DEF AllowedTransitions, JobStatus, Lifecycle!StatusStep,
                      Lifecycle!Terminal
<1>4. ASSUME NEW f \in LinkFields, current.links[f] # None
      PROVE  job.links[f] = current.links[f]
  <2>1. job.links[f] = LinkOnce(current.links[f], job.links[f])
    BY <1>2
  <2>2. CanLink(current.links[f], job.links[f])
    BY <1>1
  <2> QED
    BY <1>4, <2>1, <2>2 DEF LinkOnce, CanLink
<1>5. job \in Lifecycle!JobsAt(Nat) /\ Lifecycle!WellFormed(job)
  BY SameDefinitions
<1> QED
  BY <1>2, <1>3, <1>4, <1>5 DEF Lifecycle!LegalStep

\* A stored item stands for a valid Job, under its own key, at its revision.
LEMMA StoredJob ==
    ASSUME TypeOK, NEW id \in JobIds, table[id] # None
    PROVE  /\ Stored(id) \in Candidates
           /\ Stored(id) \in JobsAt(Nat)
           /\ Stored(id) # None
           /\ Stored(id).job_id = id
           /\ Stored(id).revision = table[id].revision
           /\ table[id] = ItemFromJob(Stored(id))
<1>1. PICK job \in Candidates : table[id] = ItemFromJob(job)
  BY DEF TypeOK, Items
<1>2. job \in JobsAt(Nat)
  BY RevisionsAssumption DEF Candidates, JobsAt
<1>3. Stored(id) = job
  BY <1>1, <1>2, RoundTrip DEF Stored
<1>4. job # None
  BY <1>2, NoneIsNoJob
<1>5. table[id].revision = job.revision
  BY <1>1 DEF ItemFromJob
<1>6. Stored(id).job_id = id
  BY DEF TypeOK
<1> QED
  BY <1>1, <1>2, <1>3, <1>4, <1>5, <1>6

\* An accepted put replaces the stored Job by the one it carries, and no other.
LEMMA PutStores ==
    ASSUME TypeOK, NEW r \in Requests, ConditionHolds(r), ApplyPut(r)
    PROVE  /\ r.job.job_id \in JobIds
           /\ table' = [table EXCEPT ![r.job.job_id] = ItemFromJob(r.job)]
           /\ table' \in [JobIds -> Items \cup {None}]
           /\ table'[r.job.job_id] # None
           /\ Stored(r.job.job_id)' = r.job
           /\ \A id \in JobIds \ {r.job.job_id} : Stored(id)' = Stored(id)
<1>1. r.job \in Candidates /\ r.job \in JobsAt(Nat) /\ r.job.job_id \in JobIds
  BY RevisionsAssumption DEF Requests, Candidates, JobsAt
<1>2. table' = [table EXCEPT ![r.job.job_id] = ItemFromJob(r.job)]
  BY DEF ApplyPut
<1>3. ItemFromJob(r.job) \in Items
  BY <1>1 DEF Items
<1>4. ItemFromJob(r.job) # None
  BY <1>3, NoneIsNoRecord
<1>5. table \in [JobIds -> Items \cup {None}]
  BY DEF TypeOK
<1>6. table'[r.job.job_id] = ItemFromJob(r.job)
  BY <1>1, <1>2, <1>5
<1>7. Stored(r.job.job_id)' = r.job
  BY <1>1, <1>4, <1>6, RoundTrip DEF Stored
<1>8. \A id \in JobIds \ {r.job.job_id} : Stored(id)' = Stored(id)
  BY <1>2, <1>5 DEF Stored
<1> QED
  BY <1>1, <1>2, <1>3, <1>4, <1>5, <1>6, <1>7, <1>8

-----------------------------------------------------------------------------
\* The inductive invariant.  AckedWritesSurvive needs PendingWritesFresh (an
\* acknowledged write is replaced by legal steps only), which needs TypeOK.
IInv == TypeOK /\ PendingWritesFresh /\ AckedWritesSurvive /\ OneWinnerPerRevision

\* The empty table satisfies the invariant.
LEMMA InitIInv == Init => IInv
BY DEF Init, IInv, TypeOK, PendingWritesFresh, AckedWritesSurvive,
       OneWinnerPerRevision

\* A call that sends a put has validated it against what is stored now.
LEMMA SendFresh ==
    ASSUME TypeOK, NEW c \in Callers, NEW job \in Candidates, NEW expected,
           NEW r, r = [caller |-> c, job |-> job, expected |-> expected],
           \/ expected = None /\ IsNewJob(job)
           \/ expected \in Revisions /\ UpdateVerdict(job, expected) = "OK"
    PROVE  /\ r \in Requests
           /\ LET now == Stored(job.job_id)
              IN  IF expected = None THEN Lifecycle!LegalStart(job.job_id, job)
                  ELSE /\ now # None
                       /\ now.revision >= expected
                       /\ now.revision = expected => Lifecycle!LegalStep(now, job)
<1>1. job \in JobsAt(Nat) /\ WellFormed(job) /\ job.job_id \in JobIds
  BY RevisionsAssumption DEF Candidates, JobsAt
<1>2. r \in Requests
  BY DEF Requests
<1>3. CASE expected = None
  <2>1. IsNewJob(job)
    BY <1>3, RevisionsAssumption, NoneIsNoRecord
  <2>2. job \in JobsAt({0}) /\ job.error = None
    BY <1>1, <2>1 DEF IsNewJob, JobsAt, WellFormed
  <2>3. Lifecycle!LegalStart(job.job_id, job)
    BY <2>1, <2>2, SameDefinitions DEF IsNewJob, Lifecycle!LegalStart
  <2> QED
    BY <1>2, <1>3, <2>3
<1>4. CASE expected # None
  <2> DEFINE now == Stored(job.job_id)
  <2>1. expected \in Nat /\ UpdateVerdict(job, expected) = "OK"
    BY <1>4, RevisionsAssumption
  <2>2. /\ now # None
        /\ now.revision = expected
        /\ IsLifecycleSuccessor(now, job, expected)
    BY <2>1 DEF UpdateVerdict
  <2>3. now \in JobsAt(Nat)
    BY <1>1, <2>2, StoredJob DEF Stored
  <2>4. Lifecycle!LegalStep(now, job)
    BY <1>1, <2>2, <2>3, SuccessorIsLegal
  <2> QED
    BY <1>2, <1>4, <2>1, <2>2, <2>4
<1> QED
  BY <1>3, <1>4

\* Every step of a caller or of DynamoDB keeps the types.
LEMMA TypeStep == TypeOK /\ [Next]_vars => TypeOK'
<1> SUFFICES ASSUME TypeOK, [Next]_vars PROVE TypeOK'
  OBVIOUS
<1> USE DEF Results
<1>1. ASSUME NEW c \in Callers, NEW r, r \in Requests, r.caller = c, Send(r)
      PROVE  TypeOK'
  BY <1>1 DEF Send, TypeOK, Stored
<1>2. ASSUME NEW c \in Callers, NEW outcome \in Results, Reply(c, outcome)
      PROVE  /\ waiting' \in [Callers -> Requests \cup {None}]
             /\ result' \in [Callers -> Results \cup {None}]
  BY <1>2 DEF Reply, TypeOK
<1>3. ASSUME NEW r \in requests, ApplyPut(r)
      PROVE  /\ table' \in [JobIds -> Items \cup {None}]
             /\ \A id \in JobIds : table'[id] # None =>
                   WellFormed(Stored(id)') /\ Stored(id)'.job_id = id
  <2>1. r \in Requests
    BY DEF TypeOK
  <2>2. CASE ConditionHolds(r)
    <3>1. WellFormed(r.job)
      BY <2>1 DEF Requests, Candidates
    <3> QED
      BY <1>3, <2>1, <2>2, <3>1, PutStores DEF TypeOK
  <2>3. CASE ~ConditionHolds(r)
    BY <1>3, <2>3 DEF ApplyPut, TypeOK, Stored
  <2> QED
    BY <2>2, <2>3
<1>4. ASSUME NEW c \in Callers, CallerStep(c) PROVE TypeOK'
  <2>1. ASSUME NEW job \in Candidates, CreateSend(c, job) PROVE TypeOK'
    <3> DEFINE r == [caller |-> c, job |-> job, expected |-> None]
    <3>1. r \in Requests /\ r.caller = c
      BY DEF Requests
    <3> QED
      BY <1>1, <2>1, <3>1 DEF CreateSend
  <2>2. CASE CreateRefused(c)
    BY <1>2, <2>2 DEF CreateRefused, TypeOK, Stored
  <2>3. ASSUME NEW job \in Candidates, NEW expected \in Revisions,
               UpdateSend(c, job, expected)
        PROVE  TypeOK'
    <3> DEFINE r == [caller |-> c, job |-> job, expected |-> expected]
    <3>1. r \in Requests /\ r.caller = c
      BY DEF Requests
    <3> QED
      BY <1>1, <2>3, <3>1 DEF UpdateSend
  <2>4. CASE UpdateRefused(c)
    <3>1. PICK job \in Candidates, expected \in Revisions :
             Reply(c, UpdateVerdict(job, expected))
      BY <2>4 DEF UpdateRefused
    <3>2. UpdateVerdict(job, expected) \in Results
      BY DEF UpdateVerdict
    <3> QED
      BY <1>2, <2>4, <3>1, <3>2 DEF UpdateRefused, TypeOK, Stored
  <2>5. CASE UpdateReadFails(c)
    BY <1>2, <2>5 DEF UpdateReadFails, TypeOK, Stored
  <2>6. CASE PutFails(c)
    <3>1. requests' \subseteq requests
      BY <2>6 DEF PutFails
    <3> QED
      BY <1>2, <2>6, <3>1 DEF PutFails, TypeOK, Stored
  <2> QED
    BY <1>4, <2>1, <2>2, <2>3, <2>4, <2>5, <2>6 DEF CallerStep
<1>5. ASSUME NEW r \in requests, Answered(r) PROVE TypeOK'
  <2>1. r.caller \in Callers /\ PutOutcome(r) \in Results /\ r \in Requests
    BY DEF TypeOK, Requests, PutOutcome
  <2>2. requests' \subseteq Requests /\ acked' \subseteq Requests
    BY <1>5, <2>1 DEF Answered, TypeOK
  <2> QED
    BY <1>2, <1>3, <1>5, <2>1, <2>2 DEF Answered, TypeOK
<1>6. ASSUME NEW r \in requests, AppliedUnanswered(r) PROVE TypeOK'
  BY <1>3, <1>6 DEF AppliedUnanswered, TypeOK
<1>7. ASSUME NEW r \in requests, Dropped(r) PROVE TypeOK'
  BY <1>7 DEF Dropped, TypeOK, Stored
<1>8. CASE UNCHANGED vars
  BY <1>8 DEF vars, TypeOK, Stored
<1> QED
  BY <1>4, <1>5, <1>6, <1>7, <1>8 DEF Next

\* DynamoDB applies a put: the heart of the argument.
LEMMA PutStep ==
    ASSUME IInv, NEW r \in requests, ConditionHolds(r), ApplyPut(r),
           requests' \subseteq requests, acked' \in {acked, acked \cup {r}}
    PROVE  PendingWritesFresh' /\ AckedWritesSurvive' /\ OneWinnerPerRevision'
<1> DEFINE id == r.job.job_id
           now == Stored(id)
<1> USE DEF IInv
<1>1. /\ r \in Requests
      /\ r.job \in Candidates
      /\ r.job \in JobsAt(Nat)
      /\ id \in JobIds
      /\ r.expected \in Nat \cup {None}
  BY RevisionsAssumption DEF TypeOK, Requests, Candidates, JobsAt
<1>2. /\ now' = r.job
      /\ now' # None
      /\ \A k \in JobIds \ {id} : Stored(k)' = Stored(k)
  BY <1>1, PutStores, NoneIsNoJob
<1>3. \/ table[id] = None /\ now = None
      \/ /\ table[id] # None
         /\ now # None
         /\ now \in JobsAt(Nat)
         /\ now.revision \in Nat
         /\ r.job.revision = now.revision + 1
         /\ r.expected = now.revision
         /\ Lifecycle!LegalStep(now, r.job)
  <2>1. CASE r.expected = None
    BY <2>1 DEF ConditionHolds, CreateCondition, Stored
  <2>2. CASE r.expected # None
    <3>1. table[id] # None /\ table[id].revision = r.expected
      BY <2>2 DEF ConditionHolds, RevisionCondition
    <3>2. now # None /\ now \in JobsAt(Nat) /\ now.revision = r.expected
      BY <1>1, <3>1, StoredJob
    <3>3. Lifecycle!LegalStep(now, r.job)
      BY <2>2, <3>2 DEF PendingWritesFresh
    <3>4. now.revision \in Nat
      BY <3>2 DEF JobsAt
    <3>5. r.job.revision = now.revision + 1
      BY <3>3 DEF Lifecycle!LegalStep
    <3> QED
      BY <3>1, <3>2, <3>3, <3>4, <3>5
  <2> QED
    BY <2>1, <2>2
<1>4. PendingWritesFresh'
  <2> SUFFICES ASSUME NEW q \in requests'
               PROVE  LET cur == Stored(q.job.job_id)'
                      IN  IF q.expected = None
                          THEN Lifecycle!LegalStart(q.job.job_id, q.job)
                          ELSE /\ cur # None
                               /\ cur.revision >= q.expected
                               /\ cur.revision = q.expected =>
                                     Lifecycle!LegalStep(cur, q.job)
    BY DEF PendingWritesFresh
  <2>1. q \in requests /\ q \in Requests /\ q.job.job_id \in JobIds
    BY DEF TypeOK, Requests, Candidates, JobsAt
  <2>2. CASE q.job.job_id # id
    BY <1>2, <2>1, <2>2 DEF PendingWritesFresh
  <2>3. CASE q.job.job_id = id /\ q.expected = None
    BY <2>1, <2>3 DEF PendingWritesFresh
  <2>4. CASE q.job.job_id = id /\ q.expected # None
    <3>1. now # None /\ now.revision >= q.expected
      BY <2>1, <2>4 DEF PendingWritesFresh
    <3>2. q.expected \in Nat
      BY <2>1, <2>4, RevisionsAssumption DEF Requests
    <3>3. now'.revision > q.expected
      BY <1>2, <1>3, <3>1, <3>2
    <3>4. now' # None /\ now'.revision \in Nat
      BY <1>1, <1>2 DEF JobsAt
    <3>5. now'.revision >= q.expected /\ now'.revision # q.expected
      BY <3>2, <3>3, <3>4
    <3>6. Stored(q.job.job_id)' = now'
      BY <2>4
    <3> QED
      BY <2>4, <3>4, <3>5, <3>6
  <2> QED
    BY <2>2, <2>3, <2>4
<1>5. ASSUME NEW a \in acked
      PROVE  LET cur == Stored(a.job.job_id)'
             IN  /\ cur # None
                 /\ cur.revision >= a.job.revision
                 /\ cur.revision = a.job.revision \/ a.job.status \in Lifecycle!Terminal
                      => cur = a.job
                 /\ \A f \in LinkFields :
                       a.job.links[f] # None => cur.links[f] = a.job.links[f]
  <2>1. a \in Requests /\ a.job.job_id \in JobIds /\ a.job.revision \in Nat
    BY RevisionsAssumption DEF TypeOK, Requests, Candidates, JobsAt
  <2>2. CASE a.job.job_id # id
    BY <1>2, <2>1, <2>2 DEF AckedWritesSurvive
  <2>3. CASE a.job.job_id = id
    <3>1. /\ now # None
          /\ now.revision >= a.job.revision
          /\ a.job.status \in Lifecycle!Terminal => now = a.job
          /\ \A f \in LinkFields : a.job.links[f] # None => now.links[f] = a.job.links[f]
      BY <2>3 DEF AckedWritesSurvive
    <3>2. /\ now.revision \in Nat
          /\ r.job.revision = now.revision + 1
          /\ Lifecycle!LegalStep(now, r.job)
      BY <1>3, <3>1
    <3>3. a.job.status \notin Lifecycle!Terminal
      BY <3>1, <3>2 DEF Lifecycle!LegalStep, Lifecycle!StatusStep
    <3>4. \A f \in LinkFields : a.job.links[f] # None => r.job.links[f] = a.job.links[f]
      BY <3>1, <3>2 DEF Lifecycle!LegalStep
    <3>5. r.job.revision > a.job.revision
      BY <2>1, <3>1, <3>2
    <3> QED
      BY <1>1, <1>2, <2>1, <2>3, <3>2, <3>3, <3>4, <3>5
  <2> QED
    BY <2>2, <2>3
<1>6. AckedWritesSurvive'
  <2>1. r.job.revision \in Nat
    BY <1>1 DEF JobsAt
  <2> QED
    BY <1>2, <1>5, <2>1 DEF AckedWritesSurvive
<1>7. OneWinnerPerRevision'
  <2>1. ASSUME NEW a \in acked, a.job.job_id = id
        PROVE  a.job.revision # r.job.revision
    <3>1. now # None /\ now.revision >= a.job.revision
      BY <2>1 DEF AckedWritesSurvive
    <3>2. now.revision \in Nat /\ r.job.revision = now.revision + 1
      BY <1>3, <3>1
    <3>3. a.job.revision \in Nat
      BY RevisionsAssumption DEF TypeOK, Requests, Candidates, JobsAt
    <3> QED
      BY <3>1, <3>2, <3>3
  <2> QED
    BY <2>1 DEF OneWinnerPerRevision
<1> QED
  BY <1>4, <1>6, <1>7

\* Steps that leave the table and the acknowledgements alone.
LEMMA QuietStep ==
    ASSUME IInv, UNCHANGED <<table, acked>>,
           requests' \subseteq requests
    PROVE  PendingWritesFresh' /\ AckedWritesSurvive' /\ OneWinnerPerRevision'
BY DEF IInv, PendingWritesFresh, AckedWritesSurvive, OneWinnerPerRevision, Stored

\* A call that sends its put keeps the invariant: the put is fresh.
LEMMA SendStep ==
    ASSUME IInv, NEW c \in Callers, NEW job \in Candidates, NEW expected,
           \/ expected = None /\ IsNewJob(job)
           \/ expected \in Revisions /\ UpdateVerdict(job, expected) = "OK",
           Send([caller |-> c, job |-> job, expected |-> expected])
    PROVE  PendingWritesFresh' /\ AckedWritesSurvive' /\ OneWinnerPerRevision'
<1> DEFINE r == [caller |-> c, job |-> job, expected |-> expected]
<1>1. /\ requests' = requests \cup {r}
      /\ UNCHANGED <<table, acked>>
  BY DEF Send
<1>2. r.job = job /\ r.expected = expected
  OBVIOUS
<1>3. LET now == Stored(job.job_id)
      IN  IF expected = None THEN Lifecycle!LegalStart(job.job_id, job)
          ELSE /\ now # None
               /\ now.revision >= expected
               /\ now.revision = expected => Lifecycle!LegalStep(now, job)
  BY SendFresh DEF IInv
<1>4. \A id : Stored(id)' = Stored(id)
  BY <1>1 DEF Stored
<1>5. PendingWritesFresh'
  BY <1>1, <1>2, <1>3, <1>4 DEF IInv, PendingWritesFresh
<1> QED
  BY <1>1, <1>4, <1>5 DEF IInv, AckedWritesSurvive, OneWinnerPerRevision

\* Every step keeps the invariant.
LEMMA StepIInv == IInv /\ [Next]_vars => IInv'
<1> SUFFICES ASSUME IInv, [Next]_vars
             PROVE  PendingWritesFresh' /\ AckedWritesSurvive' /\ OneWinnerPerRevision'
  BY TypeStep DEF IInv
<1> DEFINE Goal == PendingWritesFresh' /\ AckedWritesSurvive' /\ OneWinnerPerRevision'
<1>1. ASSUME NEW c \in Callers, CallerStep(c) PROVE Goal
  <2>1. ASSUME NEW job \in Candidates, CreateSend(c, job) PROVE Goal
    BY <2>1, SendStep DEF CreateSend
  <2>2. ASSUME NEW job \in Candidates, NEW expected \in Revisions,
               UpdateSend(c, job, expected)
        PROVE  Goal
    BY <2>2, SendStep DEF UpdateSend
  <2>3. CASE CreateRefused(c) \/ UpdateRefused(c) \/ UpdateReadFails(c) \/ PutFails(c)
    <3>1. UNCHANGED <<table, acked>> /\ requests' \subseteq requests
      BY <2>3 DEF CreateRefused, UpdateRefused, UpdateReadFails, PutFails
    <3> QED
      BY <3>1, QuietStep
  <2> QED
    BY <1>1, <2>1, <2>2, <2>3 DEF CallerStep
<1>2. ASSUME NEW r \in requests, Answered(r) PROVE Goal
  <2>1. CASE ConditionHolds(r)
    BY <1>2, <2>1, PutStep DEF Answered
  <2>2. CASE ~ConditionHolds(r)
    BY <1>2, <2>2, QuietStep DEF Answered, ApplyPut
  <2> QED
    BY <2>1, <2>2
<1>3. ASSUME NEW r \in requests, AppliedUnanswered(r) PROVE Goal
  BY <1>3, PutStep DEF AppliedUnanswered
<1>4. ASSUME NEW r \in requests, Dropped(r) PROVE Goal
  BY <1>4, QuietStep DEF Dropped
<1>5. CASE UNCHANGED vars
  BY <1>5, QuietStep DEF vars
<1> QED
  BY <1>1, <1>2, <1>3, <1>4, <1>5 DEF Next

-----------------------------------------------------------------------------
\* The inductive invariant: the four safety properties of the adapter hold
\* together in every state create_job, update_job and DynamoDB can reach.
THEOREM IInvHolds == Spec => []IInv
BY InitIInv, StepIInv, PTL DEF Spec

\* The variables keep their types and every item the adapter stores decodes to
\* a valid Job under its own key (_item_from_job against _job_from_item).
THEOREM TypesHold == Spec => []TypeOK
BY IInvHolds, PTL DEF IInv

\* The read-validate-write of update_job is safe under any interleaving: a put
\* DynamoDB would still accept is a legal step from the Job stored now.
THEOREM PendingWritesStayFresh == Spec => []PendingWritesFresh
BY IInvHolds, PTL DEF IInv

\* No acknowledged write is overwritten, rolled back or loses what it linked.
THEOREM NoAcknowledgedWriteIsLost == Spec => []AckedWritesSurvive
BY IInvHolds, PTL DEF IInv

\* Racing writers of one revision of a Job: at most one is told it succeeded.
THEOREM AtMostOneWinner == Spec => []OneWinnerPerRevision
BY IInvHolds, PTL DEF IInv

-----------------------------------------------------------------------------
(* The repository implements JobSpec.                                       *)

\* The empty table stands for no Job at all.
LEMMA InitRefines == Init => Lifecycle!Init
BY DEF Init, Lifecycle!Init, Stored

\* A put that DynamoDB applies creates a Job or advances it by a legal step.
LEMMA PutRefines ==
    ASSUME IInv, NEW r \in requests, ConditionHolds(r), ApplyPut(r)
    PROVE  Lifecycle!Next
<1> DEFINE id == r.job.job_id
           jobs == [k \in JobIds |-> Stored(k)]
<1>1. r \in Requests /\ id \in JobIds
  BY DEF IInv, TypeOK, Requests, Candidates, JobsAt
<1>2. /\ Stored(id)' = r.job
      /\ \A k \in JobIds \ {id} : Stored(k)' = Stored(k)
  BY <1>1, PutStores DEF IInv
<1>3. jobs' = [jobs EXCEPT ![id] = jobs'[id]]
  BY <1>1, <1>2
<1>4. jobs'[id] = r.job
  BY <1>1, <1>2
<1>5. CASE r.expected = None
  <2>1. jobs[id] = None
    BY <1>1, <1>5 DEF ConditionHolds, CreateCondition, Stored
  <2>2. Lifecycle!LegalStart(id, r.job)
    BY <1>5 DEF IInv, PendingWritesFresh
  <2>3. Lifecycle!Create(id)
    BY <1>3, <1>4, <2>1, <2>2 DEF Lifecycle!Create
  <2> QED
    BY <1>1, <2>3 DEF Lifecycle!Next
<1>6. CASE r.expected # None
  <2>1. table[id] # None /\ table[id].revision = r.expected
    BY <1>6 DEF ConditionHolds, RevisionCondition
  <2>2. jobs[id] # None /\ Stored(id).revision = r.expected
    BY <1>1, <2>1, StoredJob DEF IInv
  <2>3. Lifecycle!LegalStep(jobs[id], r.job)
    BY <1>1, <1>6, <2>2 DEF IInv, PendingWritesFresh
  <2>4. Lifecycle!Advance(id)
    BY <1>3, <1>4, <2>2, <2>3 DEF Lifecycle!Advance
  <2> QED
    BY <1>1, <2>4 DEF Lifecycle!Next
<1> QED
  BY <1>5, <1>6

\* Every step is a step of JobSpec or leaves the stored Jobs alone.
LEMMA StepRefines ==
    IInv /\ [Next]_vars => [Lifecycle!Next]_([id \in JobIds |-> Stored(id)])
<1> SUFFICES ASSUME IInv, [Next]_vars
             PROVE  Lifecycle!Next \/ UNCHANGED [id \in JobIds |-> Stored(id)]
  OBVIOUS
<1>1. CASE \E r \in requests : ConditionHolds(r) /\ ApplyPut(r)
  BY <1>1, PutRefines
<1>2. CASE UNCHANGED table
  BY <1>2 DEF Stored
<1>3. (\E r \in requests : ConditionHolds(r) /\ ApplyPut(r)) \/ UNCHANGED table
  <2>1. ASSUME NEW c \in Callers, CallerStep(c) PROVE UNCHANGED table
    BY <2>1 DEF CallerStep, CreateSend, CreateRefused, UpdateSend, UpdateRefused,
                UpdateReadFails, PutFails, Send
  <2>2. ASSUME NEW r \in requests, Answered(r) \/ AppliedUnanswered(r) \/ Dropped(r)
        PROVE  (ConditionHolds(r) /\ ApplyPut(r)) \/ UNCHANGED table
    BY <2>2 DEF Answered, AppliedUnanswered, Dropped, ApplyPut
  <2> QED
    BY <2>1, <2>2 DEF Next, vars
<1> QED
  BY <1>1, <1>2, <1>3

\* Whatever the callers ask for and however their calls interleave, the table
\* only ever moves by JobSpec's steps.
THEOREM RepositoryImplementsJobSpec == Spec => ImplementsJobSpec
BY InitRefines, StepRefines, IInvHolds, PTL
   DEF Spec, ImplementsJobSpec, Lifecycle!Spec

-----------------------------------------------------------------------------
(* Polls.                                                                   *)

\* Time goes on in one direction.
LEMMA MayBecomeTransitive ==
    ASSUME NEW a, NEW b, NEW c, MayBecome(a, b), MayBecome(b, c)
    PROVE  MayBecome(a, c)
BY DEF MayBecome

\* A step of the repository moves a stored Job to what it may become, keeps its
\* owner, and creates a Job at revision 0.
LEMMA JobsMove ==
    ASSUME IInv, [Next]_vars, NEW id \in JobIds
    PROVE  /\ Stored(id) # None =>
                /\ Stored(id)' # None
                /\ MayBecome(ToResponse(Stored(id)), ToResponse(Stored(id)'))
                /\ Stored(id)'.requested_by = Stored(id).requested_by
           /\ Stored(id) = None /\ Stored(id)' # None => Stored(id)'.revision = 0
<1> DEFINE jobs == [k \in JobIds |-> Stored(k)]
           old == Stored(id)
           new == jobs'[id]
<1>1. new = Stored(id)'
  OBVIOUS
<1>2. Lifecycle!Next \/ jobs' = jobs
  BY StepRefines
<1>3. CASE jobs' = jobs
  <2>1. new = old
    BY <1>3
  <2> QED
    BY <1>1, <2>1 DEF MayBecome
<1>4. ASSUME NEW k \in JobIds, Lifecycle!Create(k) 
      PROVE  new = old \/ (old = None /\ new.revision = 0)
  <2>1. /\ jobs[k] = None
        /\ Lifecycle!LegalStart(k, jobs'[k])
        /\ jobs' = [jobs EXCEPT ![k] = jobs'[k]]
    BY <1>4 DEF Lifecycle!Create
  <2>2. CASE k = id
    BY <2>1, <2>2 DEF Lifecycle!LegalStart, Lifecycle!JobsAt
  <2>3. CASE k # id
    BY <2>1, <2>3
  <2> QED
    BY <2>2, <2>3
<1>5. ASSUME NEW k \in JobIds, Lifecycle!Advance(k)
      PROVE  new = old \/ (old # None /\ Lifecycle!LegalStep(old, new))
  <2>1. /\ jobs[k] # None
        /\ Lifecycle!LegalStep(jobs[k], jobs'[k])
        /\ jobs' = [jobs EXCEPT ![k] = jobs'[k]]
    BY <1>5 DEF Lifecycle!Advance
  <2> QED
    BY <2>1
<1>6. \/ new = old
      \/ old = None /\ new.revision = 0
      \/ old # None /\ Lifecycle!LegalStep(old, new)
  BY <1>2, <1>3, <1>4, <1>5 DEF Lifecycle!Next
<1>7. ASSUME Lifecycle!LegalStep(old, new)
      PROVE  /\ new # None
             /\ MayBecome(ToResponse(old), ToResponse(new))
             /\ new.requested_by = old.requested_by
  <2>1. new # None
    BY <1>7, NoneIsNoJob, SameDefinitions DEF Lifecycle!LegalStep
  <2>2. MayBecome(ToResponse(old), ToResponse(new))
    BY <1>7 DEF Lifecycle!LegalStep, Lifecycle!StatusStep, MayBecome, ToResponse
  <2> QED
    BY <1>7, <2>1, <2>2 DEF Lifecycle!LegalStep
<1>8. MayBecome(ToResponse(old), ToResponse(old))
  BY DEF MayBecome
<1> QED
  BY <1>1, <1>6, <1>7, <1>8

-----------------------------------------------------------------------------
\* The inductive invariant: what a poll saw when it began, what it read and
\* what is stored now follow each other.

States == {"begun", "read", "answered", "denied", "not found", "EXTERNAL_SERVICE_ERROR"}

Polls ==
    [state : States, claims : Claims, id : JobIds, began : JobsAt(Nat) \cup {None},
     job : JobsAt(Nat) \cup {None},
     response : {ToResponse(job) : job \in JobsAt(Nat)} \cup {None}]

\* What was known of a Job, if anything, may have become the Job of now.
Follows(known, id) ==
    known # None =>
        /\ Stored(id) # None
        /\ MayBecome(ToResponse(known), ToResponse(Stored(id)))
        /\ Stored(id).requested_by = known.requested_by

PollInv(poll) ==
    /\ IsPrincipal(poll.claims)
    /\ Follows(poll.began, poll.id)
    /\ Follows(poll.job, poll.id)
    /\ poll.job # None /\ poll.began # None =>
          MayBecome(ToResponse(poll.began), ToResponse(poll.job))
    /\ poll.state = "begun" => poll.job = None
    /\ poll.state = "read" => poll.job # None
    /\ poll.state \in {"begun", "read"} => poll.response = None
    /\ poll.state = "not found" => poll.began = None
    /\ poll.state = "denied" =>
          poll.job # None /\ ~AuthorizeJobRead(poll.claims, poll.job)
    /\ poll.response # None =>
          /\ poll.job # None
          /\ poll.response = ToResponse(poll.job)
          /\ AuthorizeJobRead(poll.claims, poll.job)

\* The items of the past are those of one owner, the first of them included.
PastInv ==
    /\ past \in [JobIds -> SUBSET Items]
    /\ \A id \in JobIds :
          /\ \A item \in past[id] :
                Stored(id) # None /\ item.requested_by = Stored(id).requested_by
          /\ Stored(id) # None => \E item \in past[id] : item.revision = 0

PollingInv ==
    /\ IInv
    /\ PastInv
    /\ polls \in [Clients -> Polls \cup {None}]
    /\ \A client \in Clients : polls[client] # None => PollInv(polls[client])

LEMMA PollingInitInv == PollingInit => PollingInv
BY InitIInv DEF PollingInit, PollingInv, PastInv, Init, Stored

\* A stored Job is known to itself.
LEMMA FollowsItself ==
    ASSUME NEW id \in JobIds
    PROVE  Follows(Stored(id), id)
BY DEF Follows, MayBecome

\* What was known of a Job stays known through every step of the repository.
LEMMA FollowsOn ==
    ASSUME IInv, [Next]_vars, NEW id \in JobIds, NEW known, Follows(known, id)
    PROVE  Follows(known, id)'
<1> SUFFICES ASSUME known # None
             PROVE  /\ Stored(id)' # None
                    /\ MayBecome(ToResponse(known), ToResponse(Stored(id)'))
                    /\ Stored(id)'.requested_by = known.requested_by
  BY DEF Follows
<1>1. /\ Stored(id) # None
      /\ MayBecome(ToResponse(known), ToResponse(Stored(id)))
      /\ Stored(id).requested_by = known.requested_by
  BY DEF Follows
<1>2. /\ Stored(id)' # None
      /\ MayBecome(ToResponse(Stored(id)), ToResponse(Stored(id)'))
      /\ Stored(id)'.requested_by = Stored(id).requested_by
  BY <1>1, JobsMove
<1> QED
  BY <1>1, <1>2, MayBecomeTransitive

\* A step of the repository changes no poll, and every poll follows on.
LEMMA RepositoryStepInv == PollingInv /\ RepositoryStep => PollingInv'
<1> SUFFICES ASSUME PollingInv, RepositoryStep PROVE PollingInv'
  OBVIOUS
<1>1. IInv /\ [Next]_vars
  BY DEF PollingInv, RepositoryStep
<1>2. IInv'
  BY <1>1, StepIInv
<1>3. PastInv'
  <2>1. past' = [id \in JobIds |-> past[id] \cup ({table'[id]} \ {None})]
    BY DEF RepositoryStep
  <2>2. table' \in [JobIds -> Items \cup {None}]
    BY <1>2 DEF IInv, TypeOK
  <2>3. past' \in [JobIds -> SUBSET Items]
    BY <2>1, <2>2 DEF PollingInv, PastInv
  <2>4. ASSUME NEW id \in JobIds
        PROVE  /\ \A item \in past'[id] :
                     Stored(id)' # None /\ item.requested_by = Stored(id)'.requested_by
               /\ Stored(id)' # None => \E item \in past'[id] : item.revision = 0
    <3>1. past'[id] = past[id] \cup ({table'[id]} \ {None})
      BY <2>1
    <3>2. /\ Stored(id) # None =>
               Stored(id)' # None /\ Stored(id)'.requested_by = Stored(id).requested_by
          /\ Stored(id) = None /\ Stored(id)' # None => Stored(id)'.revision = 0
      BY <1>1, JobsMove
    <3>3. /\ \A item \in past[id] :
                Stored(id) # None /\ item.requested_by = Stored(id).requested_by
          /\ Stored(id) # None => \E item \in past[id] : item.revision = 0
      BY DEF PollingInv, PastInv
    <3>4. ASSUME table'[id] # None
          PROVE  /\ Stored(id)' # None
                 /\ table'[id].requested_by = Stored(id)'.requested_by
                 /\ table'[id].revision = Stored(id)'.revision
      <4>1. TypeOK'
        BY <1>2 DEF IInv
      <4>2. Stored(id)' = JobFromItem(table'[id])
        BY <3>4 DEF Stored
      <4>3. PICK job \in Candidates : table'[id] = ItemFromJob(job)
        BY <2>2, <3>4 DEF Items
      <4>4. job \in JobsAt(Nat)
        BY RevisionsAssumption DEF Candidates, JobsAt
      <4>5. Stored(id)' = job
        BY <4>2, <4>3, <4>4, RoundTrip
      <4> QED
        BY <4>3, <4>4, <4>5, NoneIsNoJob DEF ItemFromJob
    <3>5. Stored(id)' # None => table'[id] # None
      BY DEF Stored
    <3> QED
      BY <3>1, <3>2, <3>3, <3>4, <3>5
  <2> QED
    BY <2>3, <2>4 DEF PastInv
<1>4. polls' = polls
  BY DEF RepositoryStep
<1>5. ASSUME NEW client \in Clients, polls[client] # None PROVE PollInv(polls[client])'
  <2>1. polls[client] \in Polls /\ PollInv(polls[client])
    BY <1>5 DEF PollingInv
  <2>2. polls[client].id \in JobIds
    BY <2>1 DEF Polls
  <2>3. Follows(polls[client].began, polls[client].id)'
    BY <1>1, <1>4, <2>1, <2>2, FollowsOn DEF PollInv
  <2>4. Follows(polls[client].job, polls[client].id)'
    BY <1>1, <1>4, <2>1, <2>2, FollowsOn DEF PollInv
  <2> QED
    BY <1>4, <2>1, <2>3, <2>4 DEF PollInv
<1> QED
  BY <1>2, <1>3, <1>4, <1>5 DEF PollingInv

\* A step of one client disturbs nothing else: it is enough that its own poll
\* keeps to the invariant.
LEMMA PollReplaced ==
    ASSUME PollingInv, UNCHANGED <<vars, past>>,
           NEW client \in Clients, NEW poll \in Polls, PollInv(poll),
           polls' = [polls EXCEPT ![client] = poll]
    PROVE  PollingInv'
<1>1. IInv'
  BY StepIInv DEF PollingInv
<1>2. \A id : Stored(id)' = Stored(id)
  BY DEF vars, Stored
<1>3. PastInv'
  BY <1>2 DEF PollingInv, PastInv
<1>4. polls' \in [Clients -> Polls \cup {None}]
  BY DEF PollingInv
<1>5. ASSUME NEW c \in Clients, polls'[c] # None PROVE PollInv(polls[c])'
  <2>1. PollInv(polls'[c])
    BY <1>5 DEF PollingInv
  <2> QED
    BY <1>2, <2>1 DEF PollInv, Follows
<1> QED
  BY <1>1, <1>3, <1>4, <1>5 DEF PollingInv

\* A poll begins with what is stored at that time.
LEMMA PollBeginInv ==
    ASSUME PollingInv, UNCHANGED <<vars, past>>, NEW client \in Clients,
           NEW claims \in Claims, NEW id \in JobIds, PollBegin(client, claims, id)
    PROVE  PollingInv'
<1> DEFINE poll == [state |-> "begun", claims |-> claims, id |-> id,
                    began |-> Stored(id), job |-> None, response |-> None]
<1>1. Stored(id) \in JobsAt(Nat) \cup {None}
  BY StoredJob DEF PollingInv, IInv, Stored
<1>2. poll \in Polls
  BY <1>1 DEF Polls, States
<1>3. PollInv(poll)
  BY FollowsItself DEF PollInv, PollBegin, Follows
<1>4. polls' = [polls EXCEPT ![client] = poll]
  BY DEF PollBegin
<1> QED
  BY <1>2, <1>3, <1>4, PollReplaced

\* What a read returns is what is stored, and what the poll saw at its
\* beginning may have become that.
LEMMA PollReadInv ==
    ASSUME PollingInv, UNCHANGED <<vars, past>>, NEW client \in Clients,
           PollRead(client)
    PROVE  PollingInv'
<1> DEFINE old == polls[client]
           item == table[old.id]
           state == IF item = None THEN "not found" ELSE "read"
           new == [old EXCEPT !.state = state, !.job = Stored(old.id)]
<1>1. old \in Polls /\ PollInv(old) /\ old.state = "begun"
  BY DEF PollRead, Is, PollingInv
<1>2. old.id \in JobIds
  BY <1>1 DEF Polls
<1>3. /\ Stored(old.id) \in JobsAt(Nat) \cup {None}
      /\ item # None => Stored(old.id) # None
      /\ item = None => Stored(old.id) = None
  BY <1>2, StoredJob DEF PollingInv, IInv, Stored
<1>4. polls' = [polls EXCEPT ![client] = new]
  BY DEF PollRead, Readable, Stored
<1>5. new \in Polls
  BY <1>1, <1>3 DEF Polls, States
<1>6. /\ new.claims = old.claims /\ new.id = old.id /\ new.began = old.began
      /\ new.response = old.response /\ new.job = Stored(old.id) /\ new.state = state
  BY <1>1 DEF Polls
<1>7. Follows(new.job, new.id)
  BY <1>2, <1>6, FollowsItself
<1>8. new.response = None
  BY <1>1, <1>6 DEF PollInv
<1>9. new.state \in {"not found", "read"}
  BY <1>6
<1>10. new.began # None => new.job # None /\ MayBecome(ToResponse(new.began), ToResponse(new.job))
  BY <1>1, <1>6 DEF PollInv, Follows
<1>11. /\ new.state = "read" => new.job # None
       /\ new.state = "not found" => new.began = None
  BY <1>3, <1>6, <1>10
<1>12. IsPrincipal(new.claims) /\ Follows(new.began, new.id)
  BY <1>1, <1>6 DEF PollInv
<1>13. PollInv(new)
  BY <1>7, <1>8, <1>9, <1>10, <1>11, <1>12 DEF PollInv
<1> QED
  BY <1>4, <1>5, <1>13, PollReplaced

\* A poll that fails answers nothing.
LEMMA PollFailsInv ==
    ASSUME PollingInv, UNCHANGED <<vars, past>>, NEW client \in Clients,
           PollFails(client)
    PROVE  PollingInv'
<1> DEFINE old == polls[client]
           new == [old EXCEPT !.state = "EXTERNAL_SERVICE_ERROR"]
<1>1. old \in Polls /\ PollInv(old) /\ old.state = "begun"
  BY DEF PollFails, Is, PollingInv
<1>2. polls' = [polls EXCEPT ![client] = new]
  BY DEF PollFails, SanitizePublicError
<1>3. new \in Polls
  BY <1>1 DEF Polls, States
<1>4. /\ new.claims = old.claims /\ new.id = old.id /\ new.began = old.began
      /\ new.response = old.response /\ new.job = old.job
      /\ new.state = "EXTERNAL_SERVICE_ERROR"
  BY <1>1 DEF Polls
<1>5. PollInv(new)
  BY <1>1, <1>4 DEF PollInv
<1> QED
  BY <1>2, <1>3, <1>5, PollReplaced

\* An answer is what was read, and is given by the owner that was read.
LEMMA PollAnswerInv ==
    ASSUME PollingInv, UNCHANGED <<vars, past>>, NEW client \in Clients,
           PollAnswer(client)
    PROVE  PollingInv'
<1> DEFINE old == polls[client]
           allowed == AuthorizeJobRead(old.claims, old.job)
           state == IF allowed THEN "answered" ELSE "denied"
           response == IF allowed THEN ToResponse(old.job) ELSE None
           new == [old EXCEPT !.state = state, !.response = response]
<1>1. old \in Polls /\ PollInv(old) /\ old.state = "read"
  BY DEF PollAnswer, Is, PollingInv
<1>2. polls' = [polls EXCEPT ![client] = new]
  BY DEF PollAnswer
<1>3. old.job # None /\ old.job \in JobsAt(Nat)
  BY <1>1 DEF PollInv, Polls
<1>4. new \in Polls
  BY <1>1, <1>3 DEF Polls, States
<1>5. /\ new.claims = old.claims /\ new.id = old.id /\ new.began = old.began
      /\ new.job = old.job /\ new.state = state /\ new.response = response
  BY <1>1 DEF Polls
<1>6. PollInv(new)
  BY <1>1, <1>3, <1>5 DEF PollInv
<1> QED
  BY <1>2, <1>4, <1>6, PollReplaced

\* The repository and the clients together keep the invariant.
LEMMA PollingStepInv == PollingInv /\ [PollingNext]_pollingVars => PollingInv'
<1> SUFFICES ASSUME PollingInv, [PollingNext]_pollingVars PROVE PollingInv'
  OBVIOUS
<1>1. CASE RepositoryStep
  BY <1>1, RepositoryStepInv
<1>2. ASSUME NEW client \in Clients, PollStep(client), UNCHANGED <<vars, past>>
      PROVE  PollingInv'
  BY <1>2, PollBeginInv, PollReadInv, PollFailsInv, PollAnswerInv DEF PollStep
<1>3. CASE UNCHANGED pollingVars
  <2>1. IInv'
    BY <1>3, StepIInv DEF PollingInv, pollingVars, vars
  <2>2. past' = past /\ polls' = polls /\ \A id : Stored(id)' = Stored(id)
    BY <1>3 DEF pollingVars, Stored
  <2> QED
    BY <2>1, <2>2 DEF PollingInv, PastInv, PollInv, Follows
<1> QED
  BY <1>1, <1>2, <1>3 DEF PollingNext

\* The inductive invariant holds of every behaviour.
THEOREM PollingInvHolds == PollingSpec => []PollingInv
BY PollingInitInv, PollingStepInv, PTL DEF PollingSpec

-----------------------------------------------------------------------------
\* An answer is no older than the Job was when its poll began, and what it says
\* is never taken back, however many writes come between the read and it.
THEOREM PollsAreCurrent == PollingSpec => []AnswersAreCurrent
<1>1. PollingInv => AnswersAreCurrent
  <2> SUFFICES ASSUME PollingInv, NEW client \in Clients, polls[client] # None
               PROVE  LET poll == polls[client]
                      IN  /\ poll.state = "not found" => poll.began = None
                          /\ poll.response # None =>
                                /\ poll.began # None =>
                                      MayBecome(ToResponse(poll.began), poll.response)
                                /\ MayBecome(poll.response, ToResponse(Stored(poll.id)))
    BY DEF AnswersAreCurrent
  <2>1. PollInv(polls[client])
    BY DEF PollingInv
  <2> QED
    BY <2>1 DEF PollInv, Follows
<1> QED
  BY <1>1, PollingInvHolds, PTL

\* The Job that is read has the owner it was created with, whoever wrote it
\* since: answers go by that owner, and by nothing an update could change.
THEOREM AnswersByRight == PollingSpec => []AnsweredByRight
<1>1. PollingInv => AnsweredByRight
  <2> SUFFICES ASSUME PollingInv, NEW client \in Clients, polls[client] # None
               PROVE  LET poll == polls[client]
                          mayRead == \/ "Admin" \in poll.claims.groups
                                     \/ /\ "User" \in poll.claims.groups
                                        /\ \E item \in Created(poll.id) :
                                              item.requested_by = poll.claims.sub
                      IN  /\ poll.response # None =>
                                mayRead /\ poll.claims.token_use = "access"
                          /\ poll.state = "denied" => ~mayRead
    BY DEF AnsweredByRight
  <2> DEFINE poll == polls[client]
             now == Stored(poll.id)
  <2>1. poll \in Polls /\ PollInv(poll) /\ poll.id \in JobIds
    BY DEF PollingInv, Polls
  <2>2. poll.job # None => now # None /\ now.requested_by = poll.job.requested_by
    BY <2>1 DEF PollInv, Follows
  <2>3. /\ \A item \in past[poll.id] : item.requested_by = now.requested_by
        /\ now # None => \E item \in past[poll.id] : item.revision = 0
    BY <2>1 DEF PollingInv, PastInv
  <2>4. poll.job # None =>
          \A user : (\E item \in Created(poll.id) : item.requested_by = user)
                    <=> user = poll.job.requested_by
    BY <2>2, <2>3 DEF Created
  <2>5. /\ "Admin" \in RolesOf(poll.claims) <=> "Admin" \in poll.claims.groups
        /\ "User" \in RolesOf(poll.claims) <=> "User" \in poll.claims.groups
    BY DEF RolesOf, Roles
  <2>6. poll.claims.token_use = "access"
    BY <2>1 DEF PollInv, IsPrincipal
  <2>7. /\ poll.response # None => poll.job # None /\ AuthorizeJobRead(poll.claims, poll.job)
        /\ poll.state = "denied" => poll.job # None /\ ~AuthorizeJobRead(poll.claims, poll.job)
    BY <2>1 DEF PollInv
  <2> QED
    BY <2>4, <2>5, <2>6, <2>7 DEF AuthorizeJobRead
<1> QED
  BY <1>1, PollingInvHolds, PTL

==============================================================================
