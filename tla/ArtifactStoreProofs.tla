-------------------------- MODULE ArtifactStoreProofs --------------------------
(***************************************************************************)
(* Proofs about ArtifactStore, for any callers, contents and digest        *)
(* function, collisions included.                                          *)
(***************************************************************************)
EXTENDS ArtifactStore, TLAPS

\* The initial states have the types.
LEMMA InitTypes == Init => TypeOK
BY DEF Init, TypeOK, Outcomes, Outcome

\* A call that ends with an outcome leaves a caller idle and typed.
LEMMA ReplyTypes ==
    ASSUME TypeOK, NEW c \in Callers, NEW outcome \in Outcomes, Reply(c, outcome)
    PROVE  /\ pc' \in [Callers -> {"idle", "putting", "checking"}]
           /\ result' \in [Callers -> Outcomes]
           /\ pc'[c] = "idle"
           /\ result'[c] = outcome
           /\ \A d \in Callers \ {c} : pc'[d] = pc[d] /\ result'[d] = result[d]
BY DEF Reply, TypeOK

\* A conditional put of typed bytes keeps the bucket typed.
LEMMA CreateTypes ==
    ASSUME TypeOK, NEW x \in Contents, CreateObject(x)
    PROVE  /\ objects' \in [Digests -> Contents \cup {None}]
           /\ \A d \in Digests : objects[d] # None => objects'[d] = objects[d]
           /\ KeyFree(x) => objects'[DigestOf[x]] = x
           /\ objects'[DigestOf[x]] # None
BY DigestAssumption, NoneAssumption DEF CreateObject, KeyFree, TypeOK

\* Outcomes that carry no bytes are outcomes.
LEMMA OutcomeTypes == \A kind \in {"none", "reference"} \cup Errors : Outcome(kind) \in Outcomes
BY DEF Outcome, Outcomes

\* Every step keeps the types.
LEMMA TypeStep == TypeOK /\ [Next]_vars => TypeOK'
<1> SUFFICES ASSUME TypeOK, [Next]_vars PROVE TypeOK'
  OBVIOUS
<1> USE OutcomeTypes DEF Errors
<1>1. ASSUME NEW c \in Callers, NEW x \in Contents, PutStart(c, x) PROVE TypeOK'
  BY <1>1, NoneAssumption DEF PutStart, TypeOK
<1>2. ASSUME NEW c \in Callers, PutCreated(c) PROVE TypeOK'
  BY <1>2, CreateTypes, ReplyTypes DEF PutCreated, TypeOK
<1>3. ASSUME NEW c \in Callers, PutRefused(c) PROVE TypeOK'
  BY <1>3 DEF PutRefused, TypeOK
<1>4. ASSUME NEW c \in Callers, PutUnanswered(c) PROVE TypeOK'
  <2>1. content[c] \in Contents
    BY <1>4 DEF PutUnanswered, TypeOK
  <2> QED
    BY <1>4, <2>1, CreateTypes DEF PutUnanswered, TypeOK
<1>5. ASSUME NEW c \in Callers, PutFails(c) PROVE TypeOK'
  <2>1. content[c] \in Contents
    BY <1>5 DEF PutFails, TypeOK
  <2> QED
    BY <1>5, <2>1, ReplyTypes DEF PutFails, TypeOK
<1>6. ASSUME NEW c \in Callers, ReadBack(c) PROVE TypeOK'
  <2>1. content[c] \in Contents
    BY <1>6 DEF ReadBack, TypeOK
  <2>2. PICK outcome \in Outcomes : Reply(c, outcome)
    BY <1>6 DEF ReadBack
  <2>3. acked' \subseteq Contents
    BY <1>6, <2>1 DEF ReadBack, TypeOK
  <2> QED
    BY <1>6, <2>2, <2>3, ReplyTypes DEF ReadBack, TypeOK
<1>7. ASSUME NEW c \in Callers, ReadBackFails(c) PROVE TypeOK'
  BY <1>7, ReplyTypes DEF ReadBackFails, TypeOK
<1>8. ASSUME NEW c \in Callers, NEW d \in Digests, Get(c, d) PROVE TypeOK'
  <2>1. objects[d] # None => [kind |-> "bytes", bytes |-> objects[d]] \in Outcomes
    BY DEF Outcomes, TypeOK
  <2>2. PICK outcome \in Outcomes :
           Reply(c, outcome) /\ outcome.kind # "ArtifactCollisionError"
    BY <1>8, <2>1 DEF Get, Outcome
  <2> QED
    BY <1>8, <2>2, ReplyTypes DEF Get, TypeOK
<1>9. ASSUME NEW c \in Callers, GetFails(c) PROVE TypeOK'
  BY <1>9, ReplyTypes DEF GetFails, Outcome, TypeOK
<1>10. ASSUME NEW x \in late, LatePut(x) PROVE TypeOK'
  BY <1>10, CreateTypes DEF LatePut, TypeOK
<1>11. CASE UNCHANGED vars
  BY <1>11 DEF vars, TypeOK
<1> QED
  BY <1>1, <1>2, <1>3, <1>4, <1>5, <1>6, <1>7, <1>8, <1>9, <1>10, <1>11 DEF Next

\* Every step leaves every existing object alone.
LEMMA StepImmutable ==
    ASSUME TypeOK, [Next]_vars
    PROVE  \A d \in Digests : objects[d] # None => objects'[d] = objects[d]
<1>1. ASSUME NEW c \in Callers, PutCreated(c) \/ PutUnanswered(c)
      PROVE  \A d \in Digests : objects[d] # None => objects'[d] = objects[d]
  <2>1. content[c] \in Contents /\ CreateObject(content[c])
    BY <1>1 DEF PutCreated, PutUnanswered, TypeOK
  <2> QED
    BY <2>1, CreateTypes
<1>2. ASSUME NEW x \in late, LatePut(x)
      PROVE  \A d \in Digests : objects[d] # None => objects'[d] = objects[d]
  BY <1>2, CreateTypes DEF LatePut, TypeOK
<1> QED
  BY <1>1, <1>2 DEF Next, vars, PutStart, PutRefused, PutFails, ReadBack,
                    ReadBackFails, Get, GetFails

-----------------------------------------------------------------------------
\* The reads and the collisions are judged by objects that never change, so
\* the invariant is inductive as it stands; TypeOK makes DigestOf applicable.
IInv == TypeOK /\ AckedRetrievable /\ ReadsAgreeWithPuts /\ CollisionsAreReal

\* With nothing acknowledged yet the invariant holds, whatever the bucket holds.
LEMMA InitIInv == Init => IInv
BY InitTypes DEF Init, IInv, AckedRetrievable, ReadsAgreeWithPuts,
                 CollisionsAreReal, Outcome

\* No step takes the bytes of an acknowledged put away.
LEMMA StepAcked == IInv /\ [Next]_vars => AckedRetrievable'
<1> SUFFICES ASSUME IInv, [Next]_vars PROVE AckedRetrievable'
  OBVIOUS
<1> USE DEF IInv
<1>1. \A x \in acked : objects'[DigestOf[x]] = x
  <2> SUFFICES ASSUME NEW x \in acked PROVE objects'[DigestOf[x]] = x
    OBVIOUS
  <2>1. x \in Contents /\ DigestOf[x] \in Digests /\ objects[DigestOf[x]] = x
    BY DigestAssumption DEF TypeOK, AckedRetrievable
  <2> QED
    BY <2>1, StepImmutable, NoneAssumption
<1>2. ASSUME NEW c \in Callers, PutCreated(c) PROVE AckedRetrievable'
  <2>1. content[c] \in Contents /\ KeyFree(content[c]) /\ CreateObject(content[c])
    BY <1>2 DEF PutCreated, TypeOK
  <2>2. objects'[DigestOf[content[c]]] = content[c]
    BY <2>1, CreateTypes
  <2> QED
    BY <1>1, <1>2, <2>2 DEF PutCreated, AckedRetrievable
<1>3. ASSUME NEW c \in Callers, ReadBack(c) PROVE AckedRetrievable'
  BY <1>1, <1>3 DEF ReadBack, AckedRetrievable
<1>4. CASE UNCHANGED acked
  BY <1>1, <1>4 DEF AckedRetrievable
<1> QED
  BY <1>2, <1>3, <1>4 DEF Next, vars, PutStart, PutRefused, PutUnanswered, PutFails,
                          ReadBackFails, Get, GetFails, LatePut

\* What a get returned stays the truth: how a step can end a call.
LEMMA StepReads == IInv /\ [Next]_vars => ReadsAgreeWithPuts'
<1> SUFFICES ASSUME IInv, [Next]_vars,
                    NEW c \in Callers, result'[c].kind = "bytes"
             PROVE  /\ objects'[DigestOf[result'[c].bytes]] = result'[c].bytes
                    /\ \A x \in acked' : DigestOf[x] = DigestOf[result'[c].bytes]
                                          => x = result'[c].bytes
  BY DEF ReadsAgreeWithPuts
<1> USE DEF IInv
<1> DEFINE b == result'[c].bytes
<1>1. b \in Contents /\ objects[DigestOf[b]] = b
  <2>1. CASE result'[c] = result[c]
    <3>1. result[c].bytes \in Contents
      BY <2>1 DEF TypeOK, Outcomes, Errors
    <3> QED
      BY <2>1, <3>1 DEF ReadsAgreeWithPuts
  <2>2. ASSUME NEW d \in Digests, Get(c, d), result'[c] # result[c] PROVE b \in Contents /\ objects[DigestOf[b]] = b
    <3>1. objects[d] # None /\ DigestOf[objects[d]] = d /\ b = objects[d]
      BY <2>2 DEF Get, Reply, Outcome, TypeOK
    <3> QED
      BY <3>1 DEF TypeOK
  <2>3. result'[c] = result[c] \/ \E d \in Digests : Get(c, d)
    <3>1. ASSUME NEW e \in Callers, NEW kind, kind # "bytes", Reply(e, Outcome(kind))
          PROVE  result'[c] = result[c]
      BY <3>1 DEF Reply, Outcome, TypeOK
    <3>2. ASSUME NEW e \in Callers, NEW d \in Digests, Get(e, d), e # c
          PROVE  result'[c] = result[c]
      BY <3>2 DEF Get, Reply, TypeOK
    <3>3. ASSUME NEW e \in Callers, NEW x, PutStart(e, x) PROVE result'[c] = result[c]
      BY <3>3 DEF PutStart, Outcome, TypeOK
    <3>4. ASSUME NEW e \in Callers, ReadBack(e) PROVE result'[c] = result[c]
      <4>1. PICK kind \in {"ArtifactNotFoundError", "reference", "ArtifactCollisionError"} :
               Reply(e, Outcome(kind))
        BY <3>4 DEF ReadBack
      <4> QED
        BY <3>1, <4>1
    <3>5. ASSUME NEW e \in Callers,
                 PutCreated(e) \/ PutFails(e) \/ ReadBackFails(e) \/ GetFails(e)
          PROVE  result'[c] = result[c]
      BY <3>1, <3>5 DEF PutCreated, PutFails, ReadBackFails, GetFails
    <3> QED
      BY <3>2, <3>3, <3>4, <3>5 DEF Next, vars, PutRefused, PutUnanswered, LatePut
  <2> QED
    BY <2>1, <2>2, <2>3
<1>2. objects'[DigestOf[b]] = b
  BY <1>1, StepImmutable, DigestAssumption, NoneAssumption
<1>3. AckedRetrievable'
  BY StepAcked
<1> QED
  BY <1>1, <1>2, <1>3 DEF AckedRetrievable

\* A reported collision is one, and a taken key stays taken.
LEMMA StepCollisions == IInv /\ [Next]_vars => CollisionsAreReal'
<1> SUFFICES ASSUME IInv, [Next]_vars, NEW c \in Callers
             PROVE  /\ result'[c].kind = "ArtifactCollisionError" =>
                          objects'[DigestOf[content'[c]]] \notin {None, content'[c]}
                    /\ pc'[c] = "checking" => objects'[DigestOf[content'[c]]] # None
  BY DEF CollisionsAreReal, KeyFree
<1> USE DEF IInv
<1> DEFINE Good(res, p, con) ==
      /\ res.kind = "ArtifactCollisionError" =>
            con \in Contents /\ objects[DigestOf[con]] \notin {None, con}
      /\ p = "checking" => con \in Contents /\ objects[DigestOf[con]] # None
<1>1. ASSUME Good(result'[c], pc'[c], content'[c])
      PROVE  /\ result'[c].kind = "ArtifactCollisionError" =>
                   objects'[DigestOf[content'[c]]] \notin {None, content'[c]}
             /\ pc'[c] = "checking" => objects'[DigestOf[content'[c]]] # None
  BY <1>1, StepImmutable, DigestAssumption
<1>2. Good(result[c], pc[c], content[c])
  BY DEF CollisionsAreReal, KeyFree, TypeOK
<1>3. ASSUME NEW e \in Callers, NEW x \in Contents, PutStart(e, x)
      PROVE  Good(result'[c], pc'[c], content'[c])
  BY <1>2, <1>3 DEF PutStart, Outcome, TypeOK
<1>4. ASSUME NEW e \in Callers, PutRefused(e)
      PROVE  Good(result'[c], pc'[c], content'[c])
  BY <1>2, <1>4 DEF PutRefused, KeyFree, TypeOK
<1>5. ASSUME NEW e \in Callers, NEW kind, kind # "ArtifactCollisionError",
             Reply(e, Outcome(kind)), UNCHANGED content \/ content' = [content EXCEPT ![e] = None]
      PROVE  Good(result'[c], pc'[c], content'[c])
  BY <1>2, <1>5 DEF Reply, Outcome, TypeOK
<1>6. ASSUME NEW e \in Callers, ReadBack(e)
      PROVE  Good(result'[c], pc'[c], content'[c])
  <2>1. CASE objects[DigestOf[content[e]]] \in {None, content[e]}
    <3>1. PICK kind \in {"ArtifactNotFoundError", "reference"} : Reply(e, Outcome(kind))
      BY <1>6, <2>1 DEF ReadBack
    <3> QED
      BY <1>5, <1>6, <3>1 DEF ReadBack
  <2>2. CASE objects[DigestOf[content[e]]] \notin {None, content[e]}
    <3>1. content[e] \in Contents
      BY <1>6 DEF ReadBack, TypeOK
    <3>2. Reply(e, Outcome("ArtifactCollisionError")) /\ UNCHANGED content
      BY <1>6, <2>2 DEF ReadBack
    <3> QED
      BY <1>2, <2>2, <3>1, <3>2 DEF Reply, Outcome, TypeOK
  <2> QED
    BY <2>1, <2>2
<1>7. ASSUME NEW e \in Callers, NEW d \in Digests, Get(e, d)
      PROVE  Good(result'[c], pc'[c], content'[c])
  <2>1. PICK res : Reply(e, res) /\ res.kind # "ArtifactCollisionError"
    BY <1>7 DEF Get, Outcome
  <2> QED
    BY <1>2, <1>7, <2>1 DEF Get, Reply, TypeOK
<1>8. ASSUME NEW e \in Callers,
             PutCreated(e) \/ PutFails(e) \/ ReadBackFails(e) \/ GetFails(e)
      PROVE  Good(result'[c], pc'[c], content'[c])
  BY <1>5, <1>8 DEF PutCreated, PutFails, ReadBackFails, GetFails
<1>9. ASSUME UNCHANGED <<result, pc, content>>
      PROVE  Good(result'[c], pc'[c], content'[c])
  BY <1>2, <1>9
<1> QED
  <2>1. Good(result'[c], pc'[c], content'[c])
    BY <1>3, <1>4, <1>6, <1>7, <1>8, <1>9 DEF Next, vars, PutUnanswered, LatePut
  <2> QED
    BY <1>1, <2>1

-----------------------------------------------------------------------------
\* The inductive invariant of put and get under any interleaving.
THEOREM IInvHolds == Spec => []IInv
<1>1. IInv /\ [Next]_vars => IInv'
  BY TypeStep, StepAcked, StepReads, StepCollisions DEF IInv
<1> QED
  BY <1>1, InitIInv, PTL DEF Spec

\* No object of the bucket is ever overwritten by this store.
THEOREM NothingIsOverwritten == Spec => ObjectsImmutable
<1>1. IInv /\ [Next]_vars =>
        [\A d \in Digests : objects[d] # None => objects'[d] = objects[d]]_vars
  BY StepImmutable DEF IInv
<1> QED
  BY <1>1, IInvHolds, PTL DEF Spec, ObjectsImmutable

\* A reference returned by put leads to exactly the bytes that were put.
THEOREM ReferencesKeepTheirBytes == Spec => []AckedRetrievable
BY IInvHolds, PTL DEF IInv

\* A get never returns bytes that differ from those of an acknowledged put.
THEOREM ReadsAreFaithful == Spec => []ReadsAgreeWithPuts
BY IInvHolds, PTL DEF IInv

\* A put is never refused with a collision because of a copy of its own bytes.
THEOREM NoFalseCollisions == Spec => []CollisionsAreReal
BY IInvHolds, PTL DEF IInv
=============================================================================
