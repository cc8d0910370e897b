------------------------------ MODULE RuleRegistry ------------------------------
(***************************************************************************)
(* The approved Rules of the governance domain and the rule sets pinned    *)
(* from them: RuleRegistry, PolicyProfileRegistry and the Effective Rule   *)
(* Set builder (packages/governance/rules and profiles).                   *)
(*                                                                         *)
(* The registries live in the memory of one process and their calls do not *)
(* overlap.  What can go wrong is a long sequence of legal calls, the      *)
(* order of the steps inside one, and the restoration of a registry from   *)
(* stored Rules and approvals when the process is started again.           *)
(*                                                                         *)
(* A hash over canonical JSON is the value hashed: no two values collide.  *)
(***************************************************************************)
EXTENDS Naturals, SequencesExt

CONSTANTS
    RuleIds,
    Versions,         \* the versions a Rule may carry: bounds the runs
    Prefix,           \* the source type that each rule_id's prefix names
    References,       \* Source References, by their identity
    SourceTypeOf,     \* the source type of each reference's Policy Source
    Scopes,           \* (resource_type, control_key) pairs
    Mapped,           \* the mappings of SourceControlMappingRegistry
    EvaluationTypes,  \* those of EvaluationType that the Rules use
    Texts,            \* severity, requirement and remediation_type
    ProfileIds,       \* (policy_profile_id, policy_profile_version) pairs
    MaxBuilt,         \* rule sets pinned by assessments: bounds the runs
    None

SourceTypes == {"GLOBAL", "CUSTOMER"}

ASSUME VersionsAssumption == Versions \subseteq Nat \ {0}

ASSUME SourcesAssumption ==
    /\ Prefix \in [RuleIds -> SourceTypes]
    /\ SourceTypeOf \in [References -> SourceTypes]
    /\ Mapped \subseteq References \X Scopes
    /\ EvaluationTypes \subseteq {"IAC", "AWS", "HYBRID", "MANUAL"}

Identities == RuleIds \X Versions

\* source_references: an array without duplicates, never empty.
ReferenceLists == UNION {SetToSeqs(S) : S \in SUBSET References \ {{}}}

\* What of a Rule is approved: all of it but rule_id, version and status.
Contents ==
    [source_type : SourceTypes, scope : Scopes,
     evaluation_type : EvaluationTypes, text : Texts,
     source_references : ReferenceLists]

Rules == [status : {"ACTIVE", "DEPRECATED"}, content : Contents]

\* rule_content_hash: the references are sorted first, so their order is lost.
RuleHash(content) ==
    [content EXCEPT !.source_references = ToSet(content.source_references)]

Hashes == {RuleHash(content) : content \in Contents}

ASSUME NoneAssumption ==
    /\ None \notin Rules \cup Hashes
    /\ \A pins \in SUBSET Identities : pins # None

VARIABLES
    rules,      \* the registered Rule of each identity, or None
    approvals,  \* the rule_content_hash approved for each identity, or None
    snapshots,  \* the Rule of each ApprovedRuleSnapshot, or None
    audit,      \* the audit entries, in order
    profiles,   \* the rule pins of each Policy Profile, or None
    built       \* history: the Effective Rule Sets that assessments pinned

vars == <<rules, approvals, snapshots, audit, profiles, built>>

Entries == [action : {"APPROVED_AND_ACTIVATED", "DEPRECATED"},
            identity : Identities, hash : Hashes]

Entry(action, id, hash) == [action |-> action, identity |-> id, hash |-> hash]

Empty == [id \in Identities |-> None]

Init ==
    /\ rules = Empty
    /\ approvals = Empty
    /\ snapshots = Empty
    /\ audit = <<>>
    /\ profiles = [p \in ProfileIds |-> None]
    /\ built = {}

-----------------------------------------------------------------------------
(* RuleRegistry.                                                            *)

AddApproval(id, hash) ==
    /\ approvals[id] = None
    /\ approvals' = [approvals EXCEPT ![id] = hash]
    /\ UNCHANGED <<rules, snapshots, audit, profiles, built>>

\* Mutant: an approval of the identity is enough, whatever content it approved.
AuthenticUnhashed(id, content, hash) == hash # None

\* _validate but for the duplicate check: prefix, mappings, source types, and
\* the approval given or looked up.
Authentic(id, content, hash) ==
    /\ content.source_type = Prefix[id[1]]
    /\ \A ref \in ToSet(content.source_references) :
          <<ref, content.scope>> \in Mapped /\ SourceTypeOf[ref] = content.source_type
    /\ hash = RuleHash(content)

\* Mutant: a registered identity may be registered again.
ValidAgain(id, content, hash) == Authentic(id, content, hash)

Valid(id, content, hash) == rules[id] = None /\ Authentic(id, content, hash)

ActiveForm(rule) == [rule EXCEPT !.status = "ACTIVE"]

\* add: a Rule under the approval already held for its identity.
Add(id, rule) ==
    /\ Valid(id, rule.content, approvals[id])
    /\ rules' = [rules EXCEPT ![id] = rule]
    /\ snapshots' = [snapshots EXCEPT ![id] = ActiveForm(rule)]
    /\ UNCHANGED <<approvals, audit, profiles, built>>

\* activate: approval and ACTIVE registration in one operation.
Activate(id, content) ==
    LET rule == [status |-> "ACTIVE", content |-> content]
        hash == RuleHash(content)
    IN  /\ approvals[id] = None
        /\ Valid(id, content, hash)
        /\ approvals' = [approvals EXCEPT ![id] = hash]
        /\ rules' = [rules EXCEPT ![id] = rule]
        /\ snapshots' = [snapshots EXCEPT ![id] = rule]
        /\ audit' = Append(audit, Entry("APPROVED_AND_ACTIVATED", id, hash))
        /\ UNCHANGED <<profiles, built>>

IsActive(R, id) == R[id] # None /\ R[id].status = "ACTIVE"

\* Mutant: the audit entry is written and the status is not.
DeprecateLogsOnly(id) ==
    /\ IsActive(rules, id)
    /\ audit' = Append(audit, Entry("DEPRECATED", id, approvals[id]))
    /\ UNCHANGED <<rules, approvals, snapshots, profiles, built>>

\* deprecate: the status is written before the approval is looked up, and a
\* missing approval raises after that.
Deprecate(id) ==
    /\ IsActive(rules, id)
    /\ rules' = [rules EXCEPT ![id].status = "DEPRECATED"]
    /\ audit' = IF approvals[id] = None THEN audit
                ELSE Append(audit, Entry("DEPRECATED", id, approvals[id]))
    /\ UNCHANGED <<approvals, snapshots, profiles, built>>

-----------------------------------------------------------------------------
(* PolicyProfileRegistry and the Effective Rule Sets.                       *)

AddProfile(p, pins) ==
    /\ profiles[p] = None
    /\ \A id \in pins : IsActive(rules, id)
    /\ profiles' = [profiles EXCEPT ![p] = pins]
    /\ UNCHANGED <<rules, approvals, snapshots, audit, built>>

PhaseEvaluationTypes ==
    [phase \in {"INITIAL", "PRE_DEPLOY", "POST_DEPLOY", "MANUAL_REVIEW"} |->
        CASE phase = "INITIAL" -> {"IAC"}
          [] phase = "MANUAL_REVIEW" -> {"MANUAL"}
          [] OTHER -> {"IAC", "AWS", "HYBRID"}]

\* The Rules of R under the pins that the phase evaluates, by identity, which
\* is also their order in the set.  rule_set_hash is the hash of all of it.
Select(R, pins, phase) ==
    [id \in {i \in pins : R[i].content.evaluation_type \in PhaseEvaluationTypes[phase]}
        |-> R[id]]

\* Mutant: historical pins are read from the registry of today.
ReproduceFromRegistry(pins, phase) == Select(rules, pins, phase)

\* reproduce_effective_rule_set, from the approval snapshots.
Reproduce(pins, phase) == Select(snapshots, pins, phase)

\* Mutant: a new assessment takes its rules from the approval snapshots.
BuildFromSnapshots(p, phase) ==
    /\ Cardinality(built) < MaxBuilt
    /\ profiles[p] # None
    /\ built' = built \cup {[pins |-> profiles[p], phase |-> phase,
                             rules |-> Select(snapshots, profiles[p], phase)]}
    /\ UNCHANGED <<rules, approvals, snapshots, audit, profiles>>

\* build_effective_rule_set for a new assessment: every pin, of whatever
\* evaluation type, must still be ACTIVE.
Build(p, phase) ==
    /\ Cardinality(built) < MaxBuilt
    /\ profiles[p] # None
    /\ \A id \in profiles[p] : IsActive(rules, id)
    /\ built' = built \cup {[pins |-> profiles[p], phase |-> phase,
                             rules |-> Select(rules, profiles[p], phase)]}
    /\ UNCHANGED <<rules, approvals, snapshots, audit, profiles>>

-----------------------------------------------------------------------------
(* The process is started again.  Its stored approvals and Rules come back  *)
(* through add_approval and add; a store may serialise an array of          *)
(* references in another order.  Nothing brings the audit entries back, and *)
(* PolicyProfileRegistry.add takes back only profiles whose pins are all    *)
(* still ACTIVE.                                                            *)

\* What add makes of a stored Rule whose references come back as `list'.
Restored(id, list) ==
    LET content == [rules[id].content EXCEPT !.source_references = list]
    IN  IF Authentic(id, content, approvals[id])
        THEN [rules[id] EXCEPT !.content = content] ELSE None

Restart ==
    LET registered == {id \in Identities : rules[id] # None}
    IN  \E lists \in [registered -> ReferenceLists] :
          /\ \A id \in registered :
                ToSet(lists[id]) = ToSet(rules[id].content.source_references)
          /\ rules' = [id \in Identities |->
                          IF id \in registered THEN Restored(id, lists[id]) ELSE None]
          /\ snapshots' = [id \in Identities |->
                              IF rules'[id] = None THEN None ELSE ActiveForm(rules'[id])]
          /\ audit' = <<>>
          /\ profiles' = [p \in ProfileIds |->
                             IF profiles[p] # None
                                /\ \A id \in profiles[p] : IsActive(rules', id)
                             THEN profiles[p] ELSE None]
          /\ UNCHANGED <<approvals, built>>

RuleStep ==
    \/ \E id \in Identities, hash \in Hashes : AddApproval(id, hash)
    \/ \E id \in Identities, rule \in Rules : Add(id, rule)
    \/ \E id \in Identities : Deprecate(id)

ProfileStep ==
    \/ \E p \in ProfileIds, pins \in SUBSET Identities \ {{}} : AddProfile(p, pins)
    \/ \E p \in ProfileIds, phase \in DOMAIN PhaseEvaluationTypes : Build(p, phase)

Next ==
    \/ RuleStep
    \/ ProfileStep
    \/ \E id \in Identities, content \in Contents : Activate(id, content)
    \/ Restart

Spec == Init /\ [][Next]_vars

-----------------------------------------------------------------------------
\* The variables have their types, and the registry is coherent: a registered
\* Rule has an approval of exactly its content and a snapshot that is its ACTIVE
\* form, so that deprecate always finds the approval it looks up too late.
TypeOK ==
    /\ rules \in [Identities -> Rules \cup {None}]
    /\ snapshots \in [Identities -> Rules \cup {None}]
    /\ approvals \in [Identities -> Hashes \cup {None}]
    /\ profiles \in [ProfileIds -> {None} \cup SUBSET Identities]
    /\ audit \in Seq(Entries)
    /\ \A id \in Identities :
          IF rules[id] = None THEN snapshots[id] = None
          ELSE /\ snapshots[id] = ActiveForm(rules[id])
               /\ approvals[id] = RuleHash(rules[id].content)

\* What an assessment pinned can be reproduced for ever: whatever is deprecated,
\* registered or restarted since, its pins lead to Rules of the same identity,
\* status and approved meaning.
PinnedSetsReproducible ==
    \A set \in built :
        LET again == Reproduce(set.pins, set.phase)
        IN  /\ DOMAIN again = DOMAIN set.rules
            /\ \A id \in DOMAIN again :
                  /\ again[id].status = set.rules[id].status
                  /\ RuleHash(again[id].content) = RuleHash(set.rules[id].content)

\* An identity means one thing for ever: its Rule never disappears, never gets
\* another approved content, and never becomes ACTIVE again once deprecated,
\* not even by registering the approved Rule a second time or by a restart.
IdentityIsForever ==
    [][\A id \in Identities : rules[id] # None =>
          /\ rules'[id] # None
          /\ RuleHash(rules'[id].content) = RuleHash(rules[id].content)
          /\ rules[id].status = "DEPRECATED" => rules'[id].status = "DEPRECATED"]_vars

\* The audit log can be believed: an entry names the content approved for its
\* identity, no event of an identity is recorded twice, a Rule recorded as
\* deprecated is, and its activation is not recorded after that.  (It says
\* nothing of an entry that is missing.)
AuditAgrees ==
    \A i \in DOMAIN audit :
        LET entry == audit[i]
        IN  /\ rules[entry.identity] # None
            /\ entry.hash = approvals[entry.identity]
            /\ entry.action = "DEPRECATED" => ~IsActive(rules, entry.identity)
            /\ \A j \in DOMAIN audit : audit[j].identity = entry.identity =>
                  /\ audit[j].action = entry.action => i = j
                  /\ entry.action = "DEPRECATED" => j <= i

\* No assessment that starts after a deprecation was recorded is judged by the
\* Rule, however long its profile has pinned it.
DeprecatedStaysOut ==
    [][\A set \in built' \ built, i \in DOMAIN audit :
          audit[i].action = "DEPRECATED" => audit[i].identity \notin DOMAIN set.rules]_vars

\* CONTRACTS.md promises more: the rule_set_hash of a pinned set does not change.
\* The hash is over the references in their stored order.
RuleSetHashReproducible ==
    \A set \in built : Reproduce(set.pins, set.phase) = set.rules
=============================================================================
