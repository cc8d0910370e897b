-------------------------- MODULE RuleCandidatesProofs --------------------------
(***************************************************************************)
(* Proofs about RuleRegistry and, over it, about RuleCandidates, for any   *)
(* rules, versions, candidates and evidence.  What was approved under an   *)
(* identity stays what it means, through deprecation and restarts, so that *)
(* every rule set an assessment pinned can be built again from the         *)
(* approval snapshots; the registry keeps all of that under the candidates *)
(* that are approved into it, and the two registries stay in step.         *)
(***************************************************************************)
EXTENDS RuleCandidates, SequenceTheorems, TLAPS

-----------------------------------------------------------------------------
(* The registry.                                                            *)

\* Every registered Rule would pass _validate's checks of its content again.
RulesAuthentic ==
    \A id \in Identities : rules[id] # None =>
        Authentic(id, rules[id].content, approvals[id])

\* PolicyProfileRegistry.add let in registered Rules only.
ProfilesRegistered ==
    \A p \in ProfileIds : profiles[p] # None =>
        \A id \in profiles[p] : rules[id] # None

\* The approvals alone determine what a pinned set contains.
BuiltFromApprovals ==
    \A set \in built :
        /\ \A id \in set.pins : id \in Identities /\ rules[id] # None
        /\ DOMAIN set.rules =
              {id \in set.pins :
                 approvals[id].evaluation_type \in PhaseEvaluationTypes[set.phase]}
        /\ \A id \in DOMAIN set.rules :
              /\ set.rules[id].status = "ACTIVE"
              /\ RuleHash(set.rules[id].content) = approvals[id]

IInv ==
    /\ TypeOK
    /\ RulesAuthentic
    /\ ProfilesRegistered
    /\ BuiltFromApprovals
    /\ AuditAgrees

-----------------------------------------------------------------------------
\* A content and its hash agree on everything but the order of the references.
LEMMA HashKeeps ==
  ASSUME NEW content \in Contents
  PROVE  /\ RuleHash(content) \in Hashes
         /\ RuleHash(content).evaluation_type = content.evaluation_type
         /\ RuleHash(content) # None
BY NoneAssumption DEF RuleHash, Hashes, Contents

\* A stored array that comes back in another order makes no difference to what
\* _validate checks.
LEMMA Reordered ==
  ASSUME NEW content \in Contents, NEW list \in ReferenceLists,
         ToSet(list) = ToSet(content.source_references),
         NEW again, again = [content EXCEPT !.source_references = list],
         NEW id, NEW hash, Authentic(id, content, hash)
  PROVE  /\ again \in Contents
         /\ RuleHash(again) = RuleHash(content)
         /\ Authentic(id, again, hash)
<1>1. again \in Contents /\ again.source_references = list
      /\ again.scope = content.scope /\ again.source_type = content.source_type
      /\ again.evaluation_type = content.evaluation_type /\ again.text = content.text
  BY DEF Contents
<1>2. RuleHash(again) = RuleHash(content)
  BY <1>1 DEF RuleHash, Contents
<1> QED
  BY <1>1, <1>2 DEF Authentic

\* What Restart makes of the registered Rules: all of them come back, with the
\* status and the approved content they had.
LEMMA RestartKeepsRules ==
  ASSUME IInv, Restart, NEW id \in Identities
  PROVE  IF rules[id] = None THEN rules'[id] = None
         ELSE /\ rules'[id] \in Rules
              /\ rules'[id].status = rules[id].status
              /\ RuleHash(rules'[id].content) = RuleHash(rules[id].content)
              /\ Authentic(id, rules'[id].content, approvals[id])
<1> DEFINE registered == {i \in Identities : rules[i] # None}
<1>1. PICK lists \in [registered -> ReferenceLists] :
          /\ \A i \in registered :
                ToSet(lists[i]) = ToSet(rules[i].content.source_references)
          /\ rules' = [i \in Identities |->
                          IF i \in registered THEN Restored(i, lists[i]) ELSE None]
  BY DEF Restart
<1>2. CASE rules[id] = None
  BY <1>1, <1>2
<1>3. CASE rules[id] # None
  <2> DEFINE again == [rules[id].content EXCEPT !.source_references = lists[id]]
  <2>1. /\ id \in registered /\ lists[id] \in ReferenceLists
        /\ ToSet(lists[id]) = ToSet(rules[id].content.source_references)
    BY <1>1, <1>3
  <2>2. /\ rules[id] \in Rules /\ rules[id].content \in Contents
        /\ Authentic(id, rules[id].content, approvals[id])
    BY <1>3 DEF IInv, TypeOK, RulesAuthentic, Rules
  <2>3. /\ again \in Contents
        /\ RuleHash(again) = RuleHash(rules[id].content)
        /\ Authentic(id, again, approvals[id])
    <3> HIDE DEF again
    <3>1. again = [rules[id].content EXCEPT !.source_references = lists[id]]
      BY DEF again
    <3> QED
      BY <2>1, <2>2, <3>1, Reordered
  <2>4. rules'[id] = [rules[id] EXCEPT !.content = again]
    BY <1>1, <2>1, <2>3 DEF Restored
  <2>5. rules'[id] \in Rules /\ rules'[id].status = rules[id].status
        /\ rules'[id].content = again
    <3> HIDE DEF again
    <3> QED
      BY <2>2, <2>3, <2>4 DEF Rules
  <2> QED
    BY <1>3, <2>3, <2>5, NoneAssumption
<1> QED
  BY <1>2, <1>3

-----------------------------------------------------------------------------
\* The empty registries satisfy the invariant.
LEMMA InitIInv == Init => IInv
BY DEF Init, Empty, IInv, TypeOK, RulesAuthentic, ProfilesRegistered,
       BuiltFromApprovals, AuditAgrees

\* What a registered Rule must be for TypeOK and RulesAuthentic.
Coherent(rule, snapshot, approval, id) ==
    IF rule = None THEN snapshot = None
    ELSE /\ rule \in Rules
         /\ snapshot = ActiveForm(rule)
         /\ approval = RuleHash(rule.content)
         /\ Authentic(id, rule.content, approval)

\* Every step leaves every Rule coherent with its snapshot and its approval.
LEMMA StepCoherent ==
  ASSUME IInv, [Next]_vars
  PROVE  /\ rules' \in [Identities -> Rules \cup {None}]
         /\ approvals' \in [Identities -> Hashes \cup {None}]
         /\ \A id \in Identities :
               Coherent(rules'[id], snapshots'[id], approvals'[id], id)
<1> USE DEF IInv
<1>0. /\ rules \in [Identities -> Rules \cup {None}]
      /\ approvals \in [Identities -> Hashes \cup {None}]
      /\ \A id \in Identities : Coherent(rules[id], snapshots[id], approvals[id], id)
  BY DEF TypeOK, RulesAuthentic, Coherent
<1>1. ASSUME NEW i \in Identities, NEW hash \in Hashes, AddApproval(i, hash)
      PROVE  /\ rules' \in [Identities -> Rules \cup {None}]
             /\ approvals' \in [Identities -> Hashes \cup {None}]
             /\ \A id \in Identities :
                   Coherent(rules'[id], snapshots'[id], approvals'[id], id)
  <2>1. rules[i] = None
    <3> SUFFICES ASSUME rules[i] # None PROVE FALSE
      OBVIOUS
    <3>1. rules[i].content \in Contents /\ approvals[i] = RuleHash(rules[i].content)
      BY <1>0 DEF Coherent, Rules
    <3> QED
      BY <1>1, <3>1, HashKeeps DEF AddApproval
  <2> QED
    BY <1>0, <1>1, <2>1 DEF AddApproval, Coherent
<1>2. ASSUME NEW i \in Identities, NEW rule \in Rules, Add(i, rule)
      PROVE  /\ rules' \in [Identities -> Rules \cup {None}]
             /\ approvals' \in [Identities -> Hashes \cup {None}]
             /\ \A id \in Identities :
                   Coherent(rules'[id], snapshots'[id], approvals'[id], id)
  <2>1. snapshots' = [snapshots EXCEPT ![i] = ActiveForm(rule)]
    BY <1>2 DEF Add
  <2>2. \A id \in Identities : snapshots'[id] = IF id = i THEN ActiveForm(rule)
                                                ELSE snapshots[id]
    BY <2>1, <1>0 DEF TypeOK
  <2>3. Authentic(i, rule.content, approvals[i]) /\ approvals[i] = RuleHash(rule.content)
    BY <1>2 DEF Add, Valid, Authentic
  <2>4. rules' = [rules EXCEPT ![i] = rule] /\ approvals' = approvals
    BY <1>2 DEF Add
  <2>5. \A id \in Identities : rules'[id] = IF id = i THEN rule ELSE rules[id]
    BY <1>0, <2>4
  <2>6. rule # None
    BY NoneAssumption
  <2>7. ASSUME NEW id \in Identities
        PROVE  Coherent(rules'[id], snapshots'[id], approvals'[id], id)
    BY <1>0, <2>2, <2>3, <2>4, <2>5, <2>6 DEF Coherent
  <2> QED
    BY <1>0, <2>4, <2>7
<1>3. ASSUME NEW i \in Identities, Deprecate(i)
      PROVE  /\ rules' \in [Identities -> Rules \cup {None}]
             /\ approvals' \in [Identities -> Hashes \cup {None}]
             /\ \A id \in Identities :
                   Coherent(rules'[id], snapshots'[id], approvals'[id], id)
  <2>1. rules[i] \in Rules
    BY <1>0, <1>3 DEF Deprecate, IsActive
  <2>2. /\ rules' = [rules EXCEPT ![i] = [rules[i] EXCEPT !.status = "DEPRECATED"]]
        /\ UNCHANGED <<approvals, snapshots>>
    BY <1>3 DEF Deprecate
  <2>3. /\ [rules[i] EXCEPT !.status = "DEPRECATED"] \in Rules
        /\ [rules[i] EXCEPT !.status = "DEPRECATED"].content = rules[i].content
        /\ ActiveForm([rules[i] EXCEPT !.status = "DEPRECATED"]) = ActiveForm(rules[i])
    BY <2>1 DEF Rules, ActiveForm
  <2>4. rules[i] # None /\ [rules[i] EXCEPT !.status = "DEPRECATED"] # None
    BY <2>1, <2>3, NoneAssumption
  <2> QED
    BY <1>0, <2>2, <2>3, <2>4 DEF Coherent
<1>4. ASSUME NEW i \in Identities, NEW content \in Contents, Activate(i, content)
      PROVE  /\ rules' \in [Identities -> Rules \cup {None}]
             /\ approvals' \in [Identities -> Hashes \cup {None}]
             /\ \A id \in Identities :
                   Coherent(rules'[id], snapshots'[id], approvals'[id], id)
  <2> DEFINE rule == [status |-> "ACTIVE", content |-> content]
  <2>1. rule \in Rules /\ ActiveForm(rule) = rule /\ rule.content = content
    BY DEF Rules, ActiveForm
  <2>2. /\ approvals' = [approvals EXCEPT ![i] = RuleHash(content)]
        /\ rules' = [rules EXCEPT ![i] = rule]
        /\ snapshots' = [snapshots EXCEPT ![i] = rule]
        /\ Authentic(i, content, RuleHash(content))
    BY <1>4 DEF Activate, Valid
  <2>3. RuleHash(content) \in Hashes
    BY HashKeeps
  <2> HIDE DEF rule
  <2>4. \A id \in Identities :
          /\ snapshots'[id] = IF id = i THEN rule ELSE snapshots[id]
          /\ rules'[id] = IF id = i THEN rule ELSE rules[id]
          /\ approvals'[id] = IF id = i THEN RuleHash(content) ELSE approvals[id]
    BY <2>2 DEF TypeOK
  <2>5. rule # None
    BY <2>1, NoneAssumption
  <2>6. ASSUME NEW id \in Identities
        PROVE  Coherent(rules'[id], snapshots'[id], approvals'[id], id)
    BY <1>0, <2>1, <2>2, <2>4, <2>5 DEF Coherent
  <2> QED
    BY <1>0, <2>1, <2>2, <2>3, <2>6
<1>5. ASSUME Restart
      PROVE  /\ rules' \in [Identities -> Rules \cup {None}]
             /\ approvals' \in [Identities -> Hashes \cup {None}]
             /\ \A id \in Identities :
                   Coherent(rules'[id], snapshots'[id], approvals'[id], id)
  <2>1. /\ approvals' = approvals
        /\ \A id \in Identities : snapshots'[id] =
              IF rules'[id] = None THEN None ELSE ActiveForm(rules'[id])
        /\ rules' = [id \in Identities |-> rules'[id]]
    BY <1>5 DEF Restart
  <2>2. ASSUME NEW id \in Identities
        PROVE  /\ rules'[id] \in Rules \cup {None}
               /\ Coherent(rules'[id], snapshots'[id], approvals'[id], id)
    BY <1>0, <1>5, <2>1, RestartKeepsRules DEF Coherent
  <2> QED
    BY <1>0, <2>1, <2>2
<1>6. ASSUME UNCHANGED <<rules, approvals, snapshots>>
      PROVE  /\ rules' \in [Identities -> Rules \cup {None}]
             /\ approvals' \in [Identities -> Hashes \cup {None}]
             /\ \A id \in Identities :
                   Coherent(rules'[id], snapshots'[id], approvals'[id], id)
  BY <1>0, <1>6
<1>7. CASE ProfileStep
  BY <1>6, <1>7 DEF ProfileStep, AddProfile, Build
<1> QED
  BY <1>1, <1>2, <1>3, <1>4, <1>5, <1>6, <1>7 DEF Next, RuleStep, vars
\* What a step may do to the Rule registered under an identity.
SameMeaning(old, new) ==
    old # None =>
        /\ new # None
        /\ RuleHash(new.content) = RuleHash(old.content)
        /\ old.status = "DEPRECATED" => new.status = "DEPRECATED"

\* No step takes a Rule or an approval away, changes what was approved, or
\* makes a deprecated Rule ACTIVE.
LEMMA StepMonotone ==
  ASSUME IInv, [Next]_vars, NEW id \in Identities
  PROVE  /\ approvals[id] # None => approvals'[id] = approvals[id]
         /\ SameMeaning(rules[id], rules'[id])
<1>0. /\ rules \in [Identities -> Rules \cup {None}]
      /\ approvals \in [Identities -> Hashes \cup {None}]
  BY DEF IInv, TypeOK
<1>1. ASSUME NEW i \in Identities, NEW hash \in Hashes, AddApproval(i, hash)
      PROVE  /\ approvals[id] # None => approvals'[id] = approvals[id]
             /\ SameMeaning(rules[id], rules'[id])
  BY <1>0, <1>1 DEF AddApproval, SameMeaning
<1>2. ASSUME NEW i \in Identities, NEW rule \in Rules, Add(i, rule)
      PROVE  /\ approvals[id] # None => approvals'[id] = approvals[id]
             /\ SameMeaning(rules[id], rules'[id])
  <2>1. /\ rules[i] = None /\ approvals' = approvals
        /\ rules' = [rules EXCEPT ![i] = rule]
    BY <1>2 DEF Add, Valid
  <2> QED
    BY <1>0, <2>1 DEF SameMeaning
<1>3. ASSUME NEW i \in Identities, Deprecate(i)
      PROVE  /\ approvals[id] # None => approvals'[id] = approvals[id]
             /\ SameMeaning(rules[id], rules'[id])
  <2>1. /\ rules[i] \in Rules /\ approvals' = approvals
        /\ rules' = [rules EXCEPT ![i] = [rules[i] EXCEPT !.status = "DEPRECATED"]]
    BY <1>0, <1>3 DEF Deprecate, IsActive
  <2>2. /\ [rules[i] EXCEPT !.status = "DEPRECATED"] \in Rules
        /\ [rules[i] EXCEPT !.status = "DEPRECATED"].content = rules[i].content
        /\ [rules[i] EXCEPT !.status = "DEPRECATED"].status = "DEPRECATED"
    BY <2>1 DEF Rules
  <2>3. [rules[i] EXCEPT !.status = "DEPRECATED"] # None
    BY <2>2, NoneAssumption
  <2>4. rules'[id] = IF id = i THEN [rules[i] EXCEPT !.status = "DEPRECATED"]
                     ELSE rules[id]
    BY <1>0, <2>1
  <2> QED
    BY <2>1, <2>2, <2>3, <2>4 DEF SameMeaning
<1>4. ASSUME NEW i \in Identities, NEW content \in Contents, Activate(i, content)
      PROVE  /\ approvals[id] # None => approvals'[id] = approvals[id]
             /\ SameMeaning(rules[id], rules'[id])
  <2>1. /\ rules[i] = None /\ approvals[i] = None
        /\ \A j \in Identities : j # i => rules'[j] = rules[j] /\ approvals'[j] = approvals[j]
    BY <1>0, <1>4 DEF Activate, Valid
  <2> QED
    BY <2>1 DEF SameMeaning
<1>5. ASSUME Restart
      PROVE  /\ approvals[id] # None => approvals'[id] = approvals[id]
             /\ SameMeaning(rules[id], rules'[id])
  <2>1. approvals' = approvals
    BY <1>5 DEF Restart
  <2> QED
    BY <1>5, <2>1, RestartKeepsRules, NoneAssumption DEF SameMeaning
<1>6. ASSUME UNCHANGED <<rules, approvals>>
      PROVE  /\ approvals[id] # None => approvals'[id] = approvals[id]
             /\ SameMeaning(rules[id], rules'[id])
  BY <1>6 DEF SameMeaning
<1>7. CASE ProfileStep
  BY <1>6, <1>7 DEF ProfileStep, AddProfile, Build
<1> QED
  BY <1>1, <1>2, <1>3, <1>4, <1>5, <1>6, <1>7 DEF Next, RuleStep, vars

\* Profiles hold registered Rules only, before and after every step.
LEMMA StepProfiles ==
  ASSUME IInv, [Next]_vars
  PROVE  /\ profiles' \in [ProfileIds -> {None} \cup SUBSET Identities]
         /\ ProfilesRegistered'
<1>0. /\ profiles \in [ProfileIds -> {None} \cup SUBSET Identities]
      /\ \A p \in ProfileIds : profiles[p] # None =>
            \A id \in profiles[p] : id \in Identities /\ rules[id] # None
      /\ \A id \in Identities : rules[id] # None => rules'[id] # None
  BY StepMonotone DEF IInv, TypeOK, ProfilesRegistered, SameMeaning
<1>1. ASSUME NEW p \in ProfileIds, NEW pins \in SUBSET Identities \ {{}},
             AddProfile(p, pins)
      PROVE  /\ profiles' \in [ProfileIds -> {None} \cup SUBSET Identities]
             /\ ProfilesRegistered'
  BY <1>0, <1>1 DEF AddProfile, ProfilesRegistered, IsActive
<1>2. ASSUME Restart
      PROVE  /\ profiles' \in [ProfileIds -> {None} \cup SUBSET Identities]
             /\ ProfilesRegistered'
  <2>1. profiles' = [p \in ProfileIds |->
                        IF profiles[p] # None
                           /\ \A id \in profiles[p] : IsActive(rules', id)
                        THEN profiles[p] ELSE None]
    BY <1>2 DEF Restart
  <2> QED
    BY <1>0, <2>1 DEF ProfilesRegistered
<1>3. ASSUME UNCHANGED profiles
      PROVE  /\ profiles' \in [ProfileIds -> {None} \cup SUBSET Identities]
             /\ ProfilesRegistered'
  BY <1>0, <1>3 DEF ProfilesRegistered
<1>4. CASE RuleStep
  BY <1>3, <1>4 DEF RuleStep, AddApproval, Add, Deprecate
<1>5. ASSUME NEW p \in ProfileIds, NEW phase, Build(p, phase)
      PROVE  UNCHANGED profiles
  BY <1>5 DEF Build
<1>6. ASSUME NEW i \in Identities, NEW content \in Contents, Activate(i, content)
      PROVE  UNCHANGED profiles
  BY <1>6 DEF Activate
<1> QED
  BY <1>1, <1>2, <1>3, <1>4, <1>5, <1>6 DEF Next, ProfileStep, vars
\* A pinned set keeps agreeing with the approvals, and a new one does.
LEMMA StepBuilt ==
  ASSUME IInv, [Next]_vars
  PROVE  BuiltFromApprovals'
<1> DEFINE Agrees(set, R, A) ==
      /\ \A id \in set.pins : id \in Identities /\ R[id] # None
      /\ DOMAIN set.rules =
            {id \in set.pins : A[id].evaluation_type \in PhaseEvaluationTypes[set.phase]}
      /\ \A id \in DOMAIN set.rules :
            /\ set.rules[id].status = "ACTIVE"
            /\ RuleHash(set.rules[id].content) = A[id]
<1>0. SUFFICES \A set \in built' : Agrees(set, rules', approvals')
  BY DEF BuiltFromApprovals
<1>1. \A id \in Identities : rules[id] # None =>
         /\ rules[id] \in Rules /\ rules[id].content \in Contents
         /\ approvals[id] = RuleHash(rules[id].content)
         /\ approvals[id] # None
         /\ approvals[id].evaluation_type = rules[id].content.evaluation_type
  BY HashKeeps DEF IInv, TypeOK, Rules
<1>2. \A id \in Identities : rules[id] # None =>
         rules'[id] # None /\ approvals'[id] = approvals[id]
  BY <1>1, StepMonotone DEF SameMeaning
<1>3. ASSUME NEW set \in built
      PROVE  Agrees(set, rules', approvals')
  <2>1. Agrees(set, rules, approvals)
    BY DEF IInv, BuiltFromApprovals
  <2>2. \A id \in set.pins : approvals'[id] = approvals[id] /\ rules'[id] # None
    BY <1>2, <2>1
  <2>3. DOMAIN set.rules \subseteq set.pins
    BY <2>1
  <2> QED
    BY <2>1, <2>2, <2>3
<1>4. ASSUME NEW p \in ProfileIds, NEW phase \in DOMAIN PhaseEvaluationTypes,
             Build(p, phase)
      PROVE  \A set \in built' : Agrees(set, rules', approvals')
  <2> DEFINE new == [pins |-> profiles[p], phase |-> phase,
                     rules |-> Select(rules, profiles[p], phase)]
  <2>1. /\ built' = built \cup {new} /\ profiles[p] # None
        /\ UNCHANGED <<rules, approvals>>
        /\ \A id \in profiles[p] : IsActive(rules, id)
    BY <1>4 DEF Build
  <2>2. \A id \in profiles[p] : id \in Identities /\ rules[id] # None
    BY <2>1 DEF IInv, TypeOK, ProfilesRegistered
  <2>3. Agrees(new, rules, approvals)
    <3>1. DOMAIN new.rules = {id \in profiles[p] :
             approvals[id].evaluation_type \in PhaseEvaluationTypes[phase]}
      BY <1>1, <2>2 DEF Select
    <3>2. \A id \in DOMAIN new.rules : id \in profiles[p] /\ new.rules[id] = rules[id]
      BY DEF Select
    <3>3. \A id \in DOMAIN new.rules :
            /\ new.rules[id].status = "ACTIVE"
            /\ RuleHash(new.rules[id].content) = approvals[id]
      BY <1>1, <2>1, <2>2, <3>2 DEF IsActive
    <3> QED
      BY <2>2, <3>1, <3>3
  <2>4. ASSUME NEW set \in built' PROVE Agrees(set, rules', approvals')
    <3>1. CASE set \in built
      BY <1>3, <3>1
    <3>2. CASE set = new
      BY <2>1, <2>3, <3>2
    <3> QED
      BY <2>1, <3>1, <3>2
  <2> QED
    BY <2>4
<1>5. ASSUME UNCHANGED built
      PROVE  \A set \in built' : Agrees(set, rules', approvals')
  BY <1>3, <1>5
<1>6. CASE RuleStep
  BY <1>5, <1>6 DEF RuleStep, AddApproval, Add, Deprecate
<1>7. ASSUME NEW i \in Identities, NEW content \in Contents, Activate(i, content)
      PROVE  UNCHANGED built
  BY <1>7 DEF Activate
<1>8. CASE Restart
  BY <1>5, <1>8 DEF Restart
<1>9. ASSUME NEW p \in ProfileIds, NEW pins, AddProfile(p, pins)
      PROVE  UNCHANGED built
  BY <1>9 DEF AddProfile
<1> HIDE DEF Agrees
<1> QED
  BY <1>4, <1>5, <1>6, <1>7, <1>8, <1>9 DEF Next, ProfileStep, vars

\* What an audit entry must be for AuditAgrees, but for the entries around it.
Believable(entry, R, A) ==
    /\ R[entry.identity] # None
    /\ entry.hash = A[entry.identity]
    /\ entry.action = "DEPRECATED" => ~IsActive(R, entry.identity)

\* Entries stay believable whatever happens to the registry.
LEMMA StayBelievable ==
  ASSUME IInv, [Next]_vars, NEW entry \in Entries, Believable(entry, rules, approvals)
  PROVE  Believable(entry, rules', approvals')
<1>1. entry.identity \in Identities
  BY DEF Entries
<1>2. rules[entry.identity] \in Rules /\ approvals[entry.identity] # None
  BY <1>1, HashKeeps DEF Believable, IInv, TypeOK, Rules
<1>3. SameMeaning(rules[entry.identity], rules'[entry.identity])
      /\ approvals'[entry.identity] = approvals[entry.identity]
  BY <1>1, <1>2, StepMonotone
<1> QED
  BY <1>2, <1>3 DEF Believable, SameMeaning, IsActive, Rules

\* Every step leaves an audit log that agrees with the registry.
LEMMA StepAudit ==
  ASSUME IInv, [Next]_vars
  PROVE  audit' \in Seq(Entries) /\ AuditAgrees'
<1> DEFINE Ordered(log) ==
      \A i, j \in DOMAIN log : log[j].identity = log[i].identity =>
          /\ log[j].action = log[i].action => i = j
          /\ log[i].action = "DEPRECATED" => j <= i
<1>0. /\ audit \in Seq(Entries) /\ Ordered(audit)
      /\ \A i \in DOMAIN audit : audit[i] \in Entries
      /\ \A i \in DOMAIN audit : Believable(audit[i], rules, approvals)
  BY DEF IInv, TypeOK, AuditAgrees, Believable
<1>1. \A i \in DOMAIN audit : Believable(audit[i], rules', approvals')
  BY <1>0, StayBelievable
<1>2. SUFFICES /\ audit' \in Seq(Entries) /\ Ordered(audit')
               /\ \A i \in DOMAIN audit' : Believable(audit'[i], rules', approvals')
  BY DEF AuditAgrees, Believable
<1>3. ASSUME NEW entry \in Entries, audit' = Append(audit, entry),
             Believable(entry, rules', approvals'),
             \A i \in DOMAIN audit : audit[i].identity = entry.identity =>
                /\ audit[i].action # entry.action
                /\ audit[i].action # "DEPRECATED"
      PROVE  /\ audit' \in Seq(Entries) /\ Ordered(audit')
             /\ \A i \in DOMAIN audit' : Believable(audit'[i], rules', approvals')
  <2>1. /\ audit' \in Seq(Entries)
        /\ Len(audit') = Len(audit) + 1 /\ Len(audit) \in Nat
        /\ \A i \in DOMAIN audit : audit'[i] = audit[i]
        /\ audit'[Len(audit) + 1] = entry
        /\ DOMAIN audit = 1..Len(audit) /\ DOMAIN audit' = 1..(Len(audit) + 1)
    BY <1>0, <1>3, AppendProperties
  <2>2. \A i \in DOMAIN audit' : i \in DOMAIN audit \/ i = Len(audit) + 1
    BY <2>1
  <2>3. Ordered(audit')
    <3> SUFFICES ASSUME NEW i \in DOMAIN audit', NEW j \in DOMAIN audit',
                        audit'[j].identity = audit'[i].identity
                 PROVE  /\ audit'[j].action = audit'[i].action => i = j
                        /\ audit'[i].action = "DEPRECATED" => j <= i
      OBVIOUS
    <3>1. CASE i \in DOMAIN audit /\ j \in DOMAIN audit
      BY <1>0, <2>1, <3>1
    <3>2. CASE i \in DOMAIN audit /\ j = Len(audit) + 1
      BY <1>3, <2>1, <3>2
    <3>3. CASE i = Len(audit) + 1 /\ j \in DOMAIN audit
      BY <1>3, <2>1, <3>3
    <3>4. CASE i = Len(audit) + 1 /\ j = Len(audit) + 1
      BY <2>1, <3>4
    <3> QED
      BY <2>2, <3>1, <3>2, <3>3, <3>4
  <2> QED
    BY <1>1, <1>3, <2>1, <2>2, <2>3
<1>4. ASSUME UNCHANGED audit
      PROVE  /\ audit' \in Seq(Entries) /\ Ordered(audit')
             /\ \A i \in DOMAIN audit' : Believable(audit'[i], rules', approvals')
  BY <1>0, <1>1, <1>4
<1>5. ASSUME NEW id \in Identities, NEW content \in Contents, Activate(id, content)
      PROVE  /\ audit' \in Seq(Entries) /\ Ordered(audit')
             /\ \A i \in DOMAIN audit' : Believable(audit'[i], rules', approvals')
  <2> DEFINE entry == Entry("APPROVED_AND_ACTIVATED", id, RuleHash(content))
  <2>1. audit' = Append(audit, entry) /\ rules[id] = None
        /\ rules' = [rules EXCEPT ![id] = [status |-> "ACTIVE", content |-> content]]
        /\ approvals' = [approvals EXCEPT ![id] = RuleHash(content)]
    BY <1>5 DEF Activate, Valid
  <2>2. entry \in Entries /\ entry.action = "APPROVED_AND_ACTIVATED"
        /\ entry.identity = id /\ entry.hash = RuleHash(content)
    BY HashKeeps DEF Entry, Entries
  <2>3. \A i \in DOMAIN audit : audit[i].identity # id
    BY <1>0, <2>1 DEF Believable
  <2>4. [status |-> "ACTIVE", content |-> content] # None
    BY NoneAssumption DEF Rules
  <2>5. rules'[id] # None /\ approvals'[id] = RuleHash(content)
    BY <2>1, <2>4 DEF IInv, TypeOK
  <2> HIDE DEF entry
  <2>6. Believable(entry, rules', approvals')
    BY <2>2, <2>5 DEF Believable
  <2> QED
    BY <1>3, <2>1, <2>2, <2>3, <2>6
<1>6. ASSUME NEW id \in Identities, Deprecate(id)
      PROVE  /\ audit' \in Seq(Entries) /\ Ordered(audit')
             /\ \A i \in DOMAIN audit' : Believable(audit'[i], rules', approvals')
  <2> DEFINE entry == Entry("DEPRECATED", id, approvals[id])
  <2>1. /\ IsActive(rules, id) /\ approvals' = approvals
        /\ rules' = [rules EXCEPT ![id] = [rules[id] EXCEPT !.status = "DEPRECATED"]]
        /\ audit' = IF approvals[id] = None THEN audit ELSE Append(audit, entry)
    BY <1>6 DEF Deprecate
  <2>2. /\ rules[id] \in Rules /\ rules[id].content \in Contents
        /\ approvals[id] = RuleHash(rules[id].content)
        /\ approvals[id] \in Hashes /\ approvals[id] # None
    BY <2>1, HashKeeps DEF IInv, TypeOK, IsActive, Rules
  <2>3. entry \in Entries /\ entry.action = "DEPRECATED"
        /\ entry.identity = id /\ entry.hash = approvals[id]
    BY <2>2 DEF Entry, Entries
  <2>4. \A i \in DOMAIN audit : audit[i].identity = id => audit[i].action # "DEPRECATED"
    BY <1>0, <2>1 DEF Believable
  <2>5. [rules[id] EXCEPT !.status = "DEPRECATED"] \in Rules
        /\ [rules[id] EXCEPT !.status = "DEPRECATED"].status = "DEPRECATED"
    BY <2>2 DEF Rules
  <2>6. rules'[id] # None /\ rules'[id].status = "DEPRECATED"
    BY <2>1, <2>5, NoneAssumption DEF IInv, TypeOK
  <2> HIDE DEF entry
  <2>7. Believable(entry, rules', approvals')
    BY <2>1, <2>3, <2>6 DEF Believable, IsActive
  <2>8. audit' = Append(audit, entry)
    BY <2>1, <2>2
  <2> QED
    BY <1>3, <2>3, <2>4, <2>7, <2>8
<1>7. ASSUME Restart
      PROVE  /\ audit' \in Seq(Entries) /\ Ordered(audit')
             /\ \A i \in DOMAIN audit' : Believable(audit'[i], rules', approvals')
  <2>1. audit' = <<>>
    BY <1>7 DEF Restart
  <2> QED
    BY <2>1
<1>8. ASSUME NEW id \in Identities, NEW hash, NEW rule,
             AddApproval(id, hash) \/ Add(id, rule)
      PROVE  UNCHANGED audit
  BY <1>8 DEF AddApproval, Add
<1>9. CASE ProfileStep
  BY <1>4, <1>9 DEF ProfileStep, AddProfile, Build
<1> QED
  BY <1>4, <1>5, <1>6, <1>7, <1>8, <1>9 DEF Next, RuleStep, vars

-----------------------------------------------------------------------------
\* Every step keeps the invariant.
LEMMA StepIInv == IInv /\ [Next]_vars => IInv'
<1> SUFFICES ASSUME IInv, [Next]_vars PROVE IInv'
  OBVIOUS
<1>1. /\ rules' \in [Identities -> Rules \cup {None}]
      /\ approvals' \in [Identities -> Hashes \cup {None}]
      /\ \A id \in Identities : Coherent(rules'[id], snapshots'[id], approvals'[id], id)
  BY StepCoherent
<1>2. snapshots' \in [Identities -> Rules \cup {None}]
  <2>1. \A id \in Identities : snapshots'[id] \in Rules \cup {None}
    BY <1>1 DEF Coherent, ActiveForm, Rules
  <2>2. snapshots' = [id \in Identities |-> snapshots'[id]]
    BY DEF IInv, TypeOK, Next, RuleStep, ProfileStep, AddApproval, Add, Deprecate,
           AddProfile, Build, Activate, Restart, vars
  <2> QED
    BY <2>1, <2>2
<1>3. TypeOK' /\ RulesAuthentic'
  BY <1>1, <1>2, StepProfiles, StepAudit DEF Coherent, TypeOK, RulesAuthentic
<1> QED
  BY <1>3, StepProfiles, StepBuilt, StepAudit DEF IInv

\* The inductive invariant of the registries.
THEOREM IInvHolds == Spec => []IInv
BY InitIInv, StepIInv, PTL DEF Spec

\* The registry is coherent in every state: rule, approval and snapshot agree.
THEOREM RegistryCoherent == Spec => []TypeOK
BY IInvHolds, PTL DEF IInv

\* The audit log agrees with the registry in every state.
THEOREM AuditLogAgrees == Spec => []AuditAgrees
BY IInvHolds, PTL DEF IInv

\* In a state of the invariant the snapshots give back every pinned set.
LEMMA InvReproduces == IInv => PinnedSetsReproducible
<1> SUFFICES ASSUME IInv, NEW set \in built
             PROVE  /\ DOMAIN Reproduce(set.pins, set.phase) = DOMAIN set.rules
                    /\ \A id \in DOMAIN Reproduce(set.pins, set.phase) :
                          /\ Reproduce(set.pins, set.phase)[id].status
                               = set.rules[id].status
                          /\ RuleHash(Reproduce(set.pins, set.phase)[id].content)
                               = RuleHash(set.rules[id].content)
  BY DEF PinnedSetsReproducible
<1>1. /\ \A id \in set.pins : id \in Identities /\ rules[id] # None
      /\ DOMAIN set.rules =
            {id \in set.pins :
               approvals[id].evaluation_type \in PhaseEvaluationTypes[set.phase]}
      /\ \A id \in DOMAIN set.rules :
            /\ set.rules[id].status = "ACTIVE"
            /\ RuleHash(set.rules[id].content) = approvals[id]
  BY DEF IInv, BuiltFromApprovals
<1>2. ASSUME NEW id \in set.pins
      PROVE  /\ snapshots[id].status = "ACTIVE"
             /\ RuleHash(snapshots[id].content) = approvals[id]
             /\ snapshots[id].content.evaluation_type = approvals[id].evaluation_type
  <2>1. /\ rules[id] \in Rules /\ rules[id].content \in Contents
        /\ snapshots[id] = ActiveForm(rules[id])
        /\ approvals[id] = RuleHash(rules[id].content)
    BY <1>1 DEF IInv, TypeOK, Rules
  <2>2. snapshots[id].status = "ACTIVE" /\ snapshots[id].content = rules[id].content
    BY <2>1 DEF ActiveForm, Rules
  <2> QED
    BY <2>1, <2>2, HashKeeps
<1>3. DOMAIN Reproduce(set.pins, set.phase) = DOMAIN set.rules
  BY <1>1, <1>2 DEF Reproduce, Select
<1>4. \A id \in DOMAIN Reproduce(set.pins, set.phase) :
         id \in set.pins /\ Reproduce(set.pins, set.phase)[id] = snapshots[id]
  BY DEF Reproduce, Select
<1> QED
  BY <1>1, <1>2, <1>3, <1>4

\* reproduce_effective_rule_set gives every assessment its rules back, whatever
\* was deprecated or restarted since it pinned them.
THEOREM HistoryReproducible == Spec => []PinnedSetsReproducible
BY IInvHolds, InvReproduces, PTL

\* No approved Rule is lost, rewritten or revived under its identity.
THEOREM ApprovedMeaningIsForever == Spec => IdentityIsForever
<1>1. IInv /\ [Next]_vars =>
        [\A id \in Identities : rules[id] # None =>
            /\ rules'[id] # None
            /\ RuleHash(rules'[id].content) = RuleHash(rules[id].content)
            /\ rules[id].status = "DEPRECATED" => rules'[id].status = "DEPRECATED"]_vars
  BY StepMonotone DEF SameMeaning
<1> QED
  BY <1>1, IInvHolds, PTL DEF Spec, IdentityIsForever

\* No rule set built after a deprecation was recorded contains the Rule.
THEOREM NoDeprecatedRuleIsPinned == Spec => DeprecatedStaysOut
<1>1. ASSUME IInv, [Next]_vars, NEW set \in built' \ built, NEW i \in DOMAIN audit,
             audit[i].action = "DEPRECATED"
      PROVE  audit[i].identity \notin DOMAIN set.rules
  <2>1. PICK p \in ProfileIds, phase \in DOMAIN PhaseEvaluationTypes : Build(p, phase)
    BY <1>1 DEF Next, RuleStep, ProfileStep, AddApproval, Add, Deprecate, AddProfile,
                Activate, Restart, vars
  <2>2. /\ set.rules = Select(rules, profiles[p], phase)
        /\ \A id \in profiles[p] : IsActive(rules, id)
    BY <1>1, <2>1 DEF Build
  <2>3. DOMAIN set.rules \subseteq profiles[p]
    BY <2>2 DEF Select
  <2> QED
    BY <1>1, <2>2, <2>3 DEF IInv, AuditAgrees
<1>2. IInv /\ [Next]_vars =>
        [\A set \in built' \ built, i \in DOMAIN audit :
            audit[i].action = "DEPRECATED" => audit[i].identity \notin DOMAIN set.rules]_vars
  BY <1>1
<1> QED
  BY <1>2, IInvHolds, PTL DEF Spec, DeprecatedStaysOut

-----------------------------------------------------------------------------
(* Candidates.                                                              *)

\* The versions registered under every rule_id have a greatest one, 0 for none:
\* registrations come one at a time, so that next_version's maximum exists.
Latest ==
    \A ruleId \in RuleIds :
        \E m \in VersionsOf(ruleId) \cup {0} :
            \A v \in VersionsOf(ruleId) \cup {0} : m >= v

CandidatesTyped ==
    /\ candidates \in [CandidateIds -> Candidates \cup {None}]
    /\ bound \in [CandidateIds -> Identities \cup {None}]
    /\ \A c \in CandidateIds : bound[c] # None => candidates[c] # None

CandidatesInv ==
    /\ IInv
    /\ CandidatesTyped
    /\ OneRulePerCandidate
    /\ Latest
    /\ ApprovedVersionsIncrease

LEMMA CandidatesInitInv == CandidatesInit => CandidatesInv
<1> SUFFICES ASSUME CandidatesInit PROVE CandidatesInv
  OBVIOUS
<1>1. IInv
  BY InitIInv DEF CandidatesInit
<1>2. CandidatesTyped /\ OneRulePerCandidate /\ ApprovedVersionsIncrease
  BY DEF CandidatesInit, Init, CandidatesTyped, OneRulePerCandidate,
         ApprovedVersionsIncrease
<1>3. Latest
  <2>1. \A ruleId \in RuleIds : VersionsOf(ruleId) = {}
    BY DEF CandidatesInit, Init, Empty, VersionsOf, Identities
  <2> QED
    BY <2>1 DEF Latest
<1> QED
  BY <1>1, <1>2, <1>3 DEF CandidatesInv

-----------------------------------------------------------------------------
\* Whatever a candidate does, the registry makes one of its own steps.
LEMMA RegistryStep ==
    CandidatesTyped /\ [CandidatesNext]_<<vars, candidateVars>> => [Next]_vars
<1> SUFFICES ASSUME CandidatesTyped, [CandidatesNext]_<<vars, candidateVars>>
             PROVE  [Next]_vars
  OBVIOUS
<1>1. ASSUME NEW c \in CandidateIds, NEW candidate \in Candidates, Create(c, candidate)
      PROVE  UNCHANGED vars
  BY <1>1 DEF Create
<1>2. ASSUME NEW c \in CandidateIds, NEW ruleId \in RuleIds, Approve(c, ruleId)
      PROVE  Next
  BY <1>2 DEF Approve, CandidatesTyped, Candidates, Next
<1>3. ASSUME RuleStep \/ ProfileStep PROVE Next
  BY <1>3 DEF Next
<1>4. ASSUME RestartAll PROVE Next
  BY <1>4 DEF RestartAll, Next
<1> QED
  BY <1>1, <1>2, <1>3, <1>4 DEF CandidatesNext, candidateVars

\* A step of the registry registers at most one identity more.
LEMMA OneMoreIdentity ==
    ASSUME IInv, [Next]_vars
    PROVE  \/ \A id \in Identities : rules[id] = None => rules'[id] = None
           \/ \E new \in Identities :
                 \A id \in Identities \ {new} : rules[id] = None => rules'[id] = None
<1>0. rules \in [Identities -> Rules \cup {None}]
  BY DEF IInv, TypeOK
<1>1. ASSUME NEW new \in Identities, NEW rule,
             Add(new, rule) \/ Deprecate(new) \/ Activate(new, rule)
      PROVE  \A id \in Identities \ {new} : rules[id] = None => rules'[id] = None
  BY <1>0, <1>1 DEF Add, Deprecate, Activate
<1>2. CASE Restart
  BY <1>2, RestartKeepsRules
<1>3. ASSUME NEW id \in Identities, NEW hash, AddApproval(id, hash) PROVE rules' = rules
  BY <1>3 DEF AddApproval
<1>4. CASE ProfileStep
  BY <1>4 DEF ProfileStep, AddProfile, Build
<1> QED
  BY <1>1, <1>2, <1>3, <1>4 DEF Next, RuleStep, vars

\* Versions are numbers.
LEMMA VersionsAreNumbers ==
    ASSUME NEW ruleId
    PROVE  \A v \in VersionsOf(ruleId) \cup {0} : v \in Nat
<1>1. \A v \in Versions : v \in Nat
  BY VersionsAssumption
<1>2. \A v \in VersionsOf(ruleId) : v \in Versions
  BY DEF VersionsOf
<1> QED
  BY <1>1, <1>2

\* Hence the greatest version always exists.
LEMMA LatestStep ==
    ASSUME IInv, [Next]_vars, Latest
    PROVE  Latest'
<1> SUFFICES ASSUME NEW ruleId \in RuleIds
             PROVE  \E m \in VersionsOf(ruleId)' \cup {0} :
                       \A v \in VersionsOf(ruleId)' \cup {0} : m >= v
  BY DEF Latest
<1> DEFINE old == VersionsOf(ruleId) \cup {0}
           now == VersionsOf(ruleId)' \cup {0}
<1>1. PICK m \in old : \A v \in old : m >= v
  BY DEF Latest
<1>2. (\A v \in old : v \in Nat) /\ (\A v \in now : v \in Nat)
  BY VersionsAssumption, VersionsAreNumbers DEF VersionsOf
<1>3. old \subseteq now
  <2>1. ASSUME NEW v \in Versions, rules[<<ruleId, v>>] # None
        PROVE  rules'[<<ruleId, v>>] # None
    BY <2>1, StepMonotone DEF SameMeaning, Identities
  <2> QED
    BY <2>1 DEF VersionsOf
<1>4. now \subseteq old \/ \E w \in Nat : now \subseteq old \cup {w}
  <2>1. CASE \A id \in Identities : rules[id] = None => rules'[id] = None
    BY <2>1 DEF VersionsOf, Identities
  <2>2. ASSUME NEW new \in Identities,
               \A id \in Identities \ {new} : rules[id] = None => rules'[id] = None
        PROVE  now \subseteq old \cup {new[2]} /\ new[2] \in Nat
    <3>1. new[2] \in Nat
      BY VersionsAssumption DEF Identities
    <3>2. ASSUME NEW v \in Versions, v # new[2], rules'[<<ruleId, v>>] # None
          PROVE  rules[<<ruleId, v>>] # None
      <4>1. <<ruleId, v>> \in Identities \ {new}
        BY <3>2 DEF Identities
      <4> QED
        BY <2>2, <3>2, <4>1
    <3> QED
      BY <3>1, <3>2 DEF VersionsOf
  <2> QED
    BY <2>1, <2>2, OneMoreIdentity
<1>5. CASE now \subseteq old
  BY <1>1, <1>3, <1>5
<1>6. ASSUME NEW w \in Nat, now \subseteq old \cup {w}
      PROVE  \E n \in now : \A v \in now : n >= v
  <2>1. CASE w \in now /\ w > m
    <3> HIDE DEF old, now
    <3>1. \A v \in old \cup {w} : w >= v
      BY <1>1, <1>2, <2>1
    <3> QED
      BY <1>6, <2>1, <3>1
  <2>2. CASE ~(w \in now /\ w > m)
    <3> HIDE DEF old, now
    <3>1. \A v \in now : m >= v
      BY <1>1, <1>2, <1>6, <2>2
    <3> QED
      BY <1>1, <1>3, <3>1
  <2> QED
    BY <2>1, <2>2
<1> QED
  BY <1>4, <1>5, <1>6

\* next_version is above every version registered under the rule_id.
LEMMA NextVersionIsNew ==
    ASSUME Latest, NEW ruleId \in RuleIds, NEW v \in VersionsOf(ruleId)
    PROVE  v < NextVersion(ruleId)
<1> DEFINE S == VersionsOf(ruleId) \cup {0}
<1>1. \A w \in S : w \in Nat
  BY VersionsAreNumbers
<1>2. \E m \in S : \A w \in S : m >= w
  BY DEF Latest
<1>3. Max(S) \in S /\ \A w \in S : Max(S) >= w
  BY <1>2 DEF Max
<1>4. NextVersion(ruleId) = Max(S) + 1
  BY DEF NextVersion
<1>5. v \in S
  OBVIOUS
<1> HIDE DEF S
<1> QED
  BY <1>1, <1>3, <1>4, <1>5

-----------------------------------------------------------------------------
\* Between restarts a registered Rule keeps its content to the letter.
LEMMA ContentStays ==
    ASSUME IInv, RuleStep \/ ProfileStep, NEW id \in Identities, rules[id] # None
    PROVE  rules'[id] # None /\ rules'[id].content = rules[id].content
<1>0. rules \in [Identities -> Rules \cup {None}]
  BY DEF IInv, TypeOK
<1>1. ASSUME NEW i \in Identities, NEW rule, Add(i, rule)
      PROVE  rules'[id] = rules[id]
  BY <1>0, <1>1 DEF Add, Valid
<1>2. ASSUME NEW i \in Identities, Deprecate(i)
      PROVE  rules'[id] # None /\ rules'[id].content = rules[id].content
  <2>1. rules'[id].content = rules[id].content
    BY <1>0, <1>2 DEF Deprecate, Rules
  <2>2. rules'[id] # None
    BY StepMonotone DEF SameMeaning, Next
  <2> QED
    BY <2>1, <2>2
<1>3. ASSUME NEW i \in Identities, NEW hash, AddApproval(i, hash) PROVE rules' = rules
  BY <1>3 DEF AddApproval
<1>4. CASE ProfileStep
  BY <1>4 DEF ProfileStep, AddProfile, Build
<1> QED
  BY <1>1, <1>2, <1>3, <1>4 DEF RuleStep

\* Between restarts the log only grows, by deprecations unless a candidate is
\* approved.
LEMMA NoActivationRecorded ==
    ASSUME IInv, RuleStep \/ ProfileStep
    PROVE  \A i \in DOMAIN audit' : audit'[i].action = "APPROVED_AND_ACTIVATED" =>
              i \in DOMAIN audit /\ audit'[i] = audit[i]
<1>0. audit \in Seq(Entries)
  BY DEF IInv, TypeOK
<1>1. ASSUME NEW id \in Identities, Deprecate(id)
      PROVE  audit' = audit \/ audit' = Append(audit, Entry("DEPRECATED", id, approvals[id]))
  BY <1>1 DEF Deprecate
<1>2. ASSUME NEW entry, entry.action = "DEPRECATED", audit' = Append(audit, entry)
      PROVE  \A i \in DOMAIN audit' : audit'[i].action = "APPROVED_AND_ACTIVATED" =>
                i \in DOMAIN audit /\ audit'[i] = audit[i]
  BY <1>0, <1>2
<1>3. ASSUME NEW i \in Identities, NEW rule, Add(i, rule) \/ AddApproval(i, rule)
      PROVE  audit' = audit
  BY <1>3 DEF Add, AddApproval
<1>4. CASE ProfileStep
  BY <1>4 DEF ProfileStep, AddProfile, Build
<1>5. \A id : Entry("DEPRECATED", id, approvals[id]).action = "DEPRECATED"
  BY DEF Entry
<1> QED
  BY <1>1, <1>2, <1>3, <1>4, <1>5 DEF RuleStep

\* A registration on behalf of nobody disturbs no candidate.
LEMMA RegistryAlone ==
    ASSUME CandidatesInv, RuleStep \/ ProfileStep, UNCHANGED candidateVars
    PROVE  CandidatesTyped' /\ OneRulePerCandidate' /\ ApprovedVersionsIncrease'
<1>1. candidates' = candidates /\ bound' = bound
  BY DEF candidateVars
<1>2. CandidatesTyped'
  BY <1>1 DEF CandidatesInv, CandidatesTyped
<1>3. /\ IInv /\ [Next]_vars /\ CandidatesTyped /\ OneRulePerCandidate
      /\ ApprovedVersionsIncrease
  BY DEF CandidatesInv, Next
<1>4. ASSUME NEW c \in CandidateIds, bound[c] # None
      PROVE  /\ rules'[bound[c]] # None
             /\ rules'[bound[c]].content = candidates[c].content
             /\ CanBeApproved(candidates[c])
  <2>1. bound[c] \in Identities
    BY <1>3, <1>4 DEF CandidatesTyped
  <2> QED
    BY <1>3, <1>4, <2>1, ContentStays DEF OneRulePerCandidate
<1>5. \A i \in DOMAIN audit' : audit'[i].action = "APPROVED_AND_ACTIVATED" =>
         i \in DOMAIN audit /\ audit'[i] = audit[i]
  BY <1>3, NoActivationRecorded
<1>6. OneRulePerCandidate'
  BY <1>1, <1>3, <1>4, <1>5 DEF OneRulePerCandidate, CanBeApproved
<1>7. ApprovedVersionsIncrease'
  <2> SUFFICES ASSUME NEW i \in DOMAIN audit', NEW j \in DOMAIN audit', i < j,
                      audit'[j].action = "APPROVED_AND_ACTIVATED",
                      audit'[i].identity[1] = audit'[j].identity[1]
               PROVE  audit'[i].identity[2] < audit'[j].identity[2]
    BY DEF ApprovedVersionsIncrease
  <2>1. j \in DOMAIN audit /\ audit'[j] = audit[j]
    BY <1>5
  <2>2. i \in DOMAIN audit /\ audit'[i] = audit[i]
    <3>1. audit' = audit \/ \E entry : audit' = Append(audit, entry)
      BY DEF RuleStep, ProfileStep, AddApproval, Add, Deprecate, AddProfile, Build
    <3>2. audit \in Seq(Entries)
      BY <1>3 DEF IInv, TypeOK
    <3>3. DOMAIN audit = 1..Len(audit) /\ Len(audit) \in Nat
      BY <3>2
    <3>4. i \in Nat
      BY <3>1, <3>2, <3>3
    <3>5. i \in DOMAIN audit
      <4>1. i >= 1
        BY <3>1, <3>2, <3>3
      <4> QED
        BY <2>1, <3>3, <3>4, <4>1
    <3> QED
      BY <3>1, <3>2, <3>5
  <2> QED
    BY <1>3, <2>1, <2>2 DEF ApprovedVersionsIncrease
<1> QED
  BY <1>2, <1>6, <1>7

\* An approval binds a new Rule of the reviewed content to a candidate that had
\* none, and records it above every version recorded before.
LEMMA ApproveStep ==
    ASSUME CandidatesInv, NEW c \in CandidateIds, NEW ruleId \in RuleIds,
           Approve(c, ruleId)
    PROVE  CandidatesTyped' /\ OneRulePerCandidate' /\ ApprovedVersionsIncrease'
<1> DEFINE id == <<ruleId, NextVersion(ruleId)>>
           content == candidates[c].content
           entry == Entry("APPROVED_AND_ACTIVATED", id, RuleHash(content))
           rule == [status |-> "ACTIVE", content |-> content]
<1>1. /\ candidates[c] # None /\ bound[c] = None /\ CanBeApproved(candidates[c])
      /\ id \in Identities
      /\ bound' = [bound EXCEPT ![c] = id] /\ candidates' = candidates
      /\ rules[id] = None
      /\ rules' = [rules EXCEPT ![id] = rule]
      /\ audit' = Append(audit, entry)
  BY DEF Approve, Bind, Activate, Valid
<1>2. /\ rules \in [Identities -> Rules \cup {None}]
      /\ candidates \in [CandidateIds -> Candidates \cup {None}]
      /\ bound \in [CandidateIds -> Identities \cup {None}]
      /\ audit \in Seq(Entries)
  BY DEF CandidatesInv, IInv, TypeOK, CandidatesTyped
<1>3. content \in Contents /\ rule \in Rules /\ rule # None /\ rule.content = content
  BY <1>1, <1>2, NoneAssumption DEF Candidates, Rules
<1>4. /\ entry.action = "APPROVED_AND_ACTIVATED" /\ entry.identity = id
      /\ entry.identity[1] = ruleId /\ entry.identity[2] = NextVersion(ruleId)
  BY DEF Entry
<1> HIDE DEF id, content, entry, rule
<1>5. /\ rules'[id] = rule
      /\ \A i \in Identities \ {id} : rules'[i] = rules[i]
      /\ bound'[c] = id
      /\ \A d \in CandidateIds \ {c} : bound'[d] = bound[d]
      /\ id # None
  BY <1>1, <1>2, NoneIsNoCandidate
<1>6. CandidatesTyped'
  BY <1>1, <1>2, <1>5 DEF CandidatesInv, CandidatesTyped
<1>7. ASSUME NEW d \in CandidateIds, d # c, bound[d] # None
      PROVE  /\ bound[d] # id
             /\ rules'[bound[d]] # None
             /\ rules'[bound[d]].content = candidates[d].content
             /\ CanBeApproved(candidates[d])
  <2>1. /\ rules[bound[d]] # None
        /\ rules[bound[d]].content = candidates[d].content
        /\ CanBeApproved(candidates[d])
    BY <1>7 DEF CandidatesInv, OneRulePerCandidate
  <2>2. bound[d] \in Identities \ {id}
    BY <1>1, <1>2, <1>7, <2>1
  <2> QED
    BY <1>5, <2>1, <2>2
<1>8. /\ DOMAIN audit = 1..Len(audit) /\ Len(audit) \in Nat
      /\ DOMAIN audit' = 1..(Len(audit) + 1)
      /\ \A i \in DOMAIN audit : audit'[i] = audit[i]
      /\ audit'[Len(audit) + 1] = entry
      /\ \A i \in DOMAIN audit : audit[i] \in Entries
  BY <1>1, <1>2
<1>9. OneRulePerCandidate'
  <2>1. \A d, e \in CandidateIds : bound'[d] = bound'[e] => d = e \/ bound'[d] = None
    BY <1>5, <1>7 DEF CandidatesInv, OneRulePerCandidate
  <2>2. ASSUME NEW d \in CandidateIds, bound'[d] # None
        PROVE  /\ rules'[bound'[d]] # None
               /\ rules'[bound'[d]].content = candidates'[d].content
               /\ CanBeApproved(candidates'[d])
    <3>1. CASE d = c
      BY <1>1, <1>3, <1>5, <3>1 DEF content
    <3>2. CASE d # c
      BY <1>1, <1>5, <1>7, <2>2, <3>2
    <3> QED
      BY <3>1, <3>2
  <2>3. ASSUME NEW i \in DOMAIN audit', audit'[i].action = "APPROVED_AND_ACTIVATED"
        PROVE  \E d \in CandidateIds : bound'[d] = audit'[i].identity
    <3>1. CASE i = Len(audit) + 1
      BY <1>4, <1>5, <1>8, <3>1
    <3>2. CASE i \in DOMAIN audit
      <4>1. PICK d \in CandidateIds : bound[d] = audit[i].identity
        BY <1>8, <2>3, <3>2 DEF CandidatesInv, OneRulePerCandidate
      <4>2. audit[i].identity \in Identities
        BY <1>8, <3>2 DEF Entries
      <4>3. d # c
        BY <1>1, <4>1, <4>2, NoneIsNoCandidate
      <4> QED
        BY <1>5, <1>8, <3>2, <4>1, <4>3
    <3> QED
      BY <1>8, <3>1, <3>2
  <2> QED
    BY <2>1, <2>2, <2>3 DEF OneRulePerCandidate, CanBeApproved
<1>10. ASSUME NEW i \in DOMAIN audit, audit[i].identity[1] = ruleId
       PROVE  audit[i].identity[2] < NextVersion(ruleId)
  <2>1. audit[i].identity \in Identities /\ rules[audit[i].identity] # None
    BY <1>8 DEF CandidatesInv, IInv, AuditAgrees, Entries
  <2>2. audit[i].identity[2] \in VersionsOf(ruleId)
    BY <1>10, <2>1 DEF VersionsOf, Identities
  <2> QED
    BY <2>2, NextVersionIsNew DEF CandidatesInv
<1>11. ApprovedVersionsIncrease'
  <2> SUFFICES ASSUME NEW i \in DOMAIN audit', NEW j \in DOMAIN audit', i < j,
                      audit'[j].action = "APPROVED_AND_ACTIVATED",
                      audit'[i].identity[1] = audit'[j].identity[1]
               PROVE  audit'[i].identity[2] < audit'[j].identity[2]
    BY DEF ApprovedVersionsIncrease
  <2>1. i \in DOMAIN audit /\ audit'[i] = audit[i]
    BY <1>8
  <2>2. CASE j \in DOMAIN audit
    BY <1>8, <2>1, <2>2 DEF CandidatesInv, ApprovedVersionsIncrease
  <2>3. CASE j = Len(audit) + 1
    BY <1>4, <1>8, <1>10, <2>1, <2>3
  <2> QED
    BY <1>8, <2>2, <2>3
<1> QED
  BY <1>6, <1>9, <1>11

\* Every step over the two registries keeps the invariant.
LEMMA CandidatesStepInv ==
    CandidatesInv /\ [CandidatesNext]_<<vars, candidateVars>> => CandidatesInv'
<1> SUFFICES ASSUME CandidatesInv, [CandidatesNext]_<<vars, candidateVars>>
             PROVE  CandidatesInv'
  OBVIOUS
<1>1. IInv' /\ Latest'
  BY RegistryStep, StepIInv, LatestStep DEF CandidatesInv
<1>2. ASSUME NEW c \in CandidateIds, NEW candidate \in Candidates, Create(c, candidate)
      PROVE  CandidatesTyped' /\ OneRulePerCandidate' /\ ApprovedVersionsIncrease'
  <2>1. /\ candidates[c] = None /\ candidates' = [candidates EXCEPT ![c] = candidate]
        /\ bound' = bound /\ rules' = rules /\ audit' = audit
    BY <1>2 DEF Create, IsNew, vars
  <2>2. CandidatesTyped'
    BY <2>1, NoneIsNoCandidate DEF CandidatesInv, CandidatesTyped
  <2>3. \A d \in CandidateIds : bound[d] # None => candidates'[d] = candidates[d]
    BY <2>1 DEF CandidatesInv, CandidatesTyped
  <2>4. OneRulePerCandidate'
    BY <2>1, <2>3 DEF CandidatesInv, OneRulePerCandidate, CanBeApproved
  <2>5. ApprovedVersionsIncrease'
    BY <2>1 DEF CandidatesInv, ApprovedVersionsIncrease
  <2> QED
    BY <2>2, <2>4, <2>5
<1>3. ASSUME RestartAll
      PROVE  CandidatesTyped' /\ OneRulePerCandidate' /\ ApprovedVersionsIncrease'
  <2>1. /\ candidates' = [c \in CandidateIds |-> None]
        /\ bound' = [c \in CandidateIds |-> None]
        /\ audit' = <<>>
    BY <1>3 DEF RestartAll, Restart
  <2> QED
    BY <2>1 DEF CandidatesTyped, OneRulePerCandidate, ApprovedVersionsIncrease
<1>4. ASSUME UNCHANGED <<vars, candidateVars>>
      PROVE  CandidatesTyped' /\ OneRulePerCandidate' /\ ApprovedVersionsIncrease'
  <2>1. /\ candidates' = candidates /\ bound' = bound /\ rules' = rules /\ audit' = audit
    BY <1>4 DEF vars, candidateVars
  <2>2. CandidatesTyped'
    BY <2>1 DEF CandidatesInv, CandidatesTyped
  <2>3. OneRulePerCandidate'
    BY <2>1 DEF CandidatesInv, OneRulePerCandidate, CanBeApproved
  <2>4. ApprovedVersionsIncrease'
    BY <2>1 DEF CandidatesInv, ApprovedVersionsIncrease
  <2> QED
    BY <2>2, <2>3, <2>4
<1>5. ASSUME NEW c \in CandidateIds, NEW ruleId \in RuleIds, Approve(c, ruleId)
      PROVE  CandidatesTyped' /\ OneRulePerCandidate' /\ ApprovedVersionsIncrease'
  BY <1>5, ApproveStep
<1>6. ASSUME RuleStep \/ ProfileStep, UNCHANGED candidateVars
      PROVE  CandidatesTyped' /\ OneRulePerCandidate' /\ ApprovedVersionsIncrease'
  BY <1>6, RegistryAlone
<1>7. CandidatesTyped' /\ OneRulePerCandidate' /\ ApprovedVersionsIncrease'
  BY <1>2, <1>3, <1>4, <1>5, <1>6 DEF CandidatesNext
<1> QED
  BY <1>1, <1>7 DEF CandidatesInv

\* The inductive invariant of the two registries.
THEOREM CandidatesInvHolds == CandidatesSpec => []CandidatesInv
BY CandidatesInitInv, CandidatesStepInv, PTL DEF CandidatesSpec

\* Whatever is proposed and approved, the registry underneath behaves as one on
\* its own: all that is proved of RuleRegistry holds here too.
THEOREM RegistryIsRefined == CandidatesSpec => Spec
<1>1. CandidatesInit => Init
  BY DEF CandidatesInit
<1>2. CandidatesInv /\ [CandidatesNext]_<<vars, candidateVars>> => [Next]_vars
  BY RegistryStep DEF CandidatesInv
<1> QED
  BY <1>1, <1>2, CandidatesInvHolds, PTL DEF CandidatesSpec, Spec

\* A candidate produces at most one Rule, of the content that was reviewed, and
\* every recorded activation has its one candidate.
THEOREM CandidatesStayInStep == CandidatesSpec => []OneRulePerCandidate
BY CandidatesInvHolds, PTL DEF CandidatesInv

\* A newly approved version is above every version recorded under its rule_id,
\* the deprecated ones included.
THEOREM VersionsSupersede == CandidatesSpec => []ApprovedVersionsIncrease
BY CandidatesInvHolds, PTL DEF CandidatesInv

==============================================================================
