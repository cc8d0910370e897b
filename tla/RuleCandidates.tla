----------------------------- MODULE RuleCandidates -----------------------------
(***************************************************************************)
(* From frozen evidence to an approved Rule: RuleCandidateRegistry and the *)
(* RuleCandidateApplicationService (packages/governance/rules/candidates.py*)
(* and services/rule_candidates.py) over the registry of RuleRegistry.     *)
(*                                                                         *)
(* approve is three calls on two registries: choose the next version, have *)
(* the rule activated, bind it to the candidate.                           *)
(***************************************************************************)
EXTENDS RuleRegistry

CONSTANTS
    CandidateIds,
    Uncertain   \* references to sections extracted with less than HIGH confidence

ASSUME UncertainAssumption == Uncertain \subseteq References

\* A candidate's content is that of the Rule it proposes; `limited' says that
\* the proposal names limitations of its own.
Candidates == [content : Contents, limited : BOOLEAN]

ASSUME NoneIsNoCandidate == None \notin Candidates \cup Identities

VARIABLES
    candidates,  \* the candidate under each id, or None
    bound        \* the Rule that each candidate has produced, or None

candidateVars == <<candidates, bound>>

CandidatesInit ==
    /\ Init
    /\ candidates = [c \in CandidateIds |-> None]
    /\ bound = [c \in CandidateIds |-> None]

-----------------------------------------------------------------------------
\* _build_candidate raises unless the evidence is mapped and of one source type.
IsValid(content) ==
    \A ref \in ToSet(content.source_references) :
        <<ref, content.scope>> \in Mapped /\ SourceTypeOf[ref] = content.source_type

\* The fingerprint hashes the evidence in the order it was given.
Fingerprint(content) == content

\* RuleCandidateRegistry.add: neither the id nor the fingerprint is registered.
IsNew(c, candidate) ==
    /\ candidates[c] = None
    /\ \A d \in CandidateIds : candidates[d] # None =>
          Fingerprint(candidates[d].content) # Fingerprint(candidate.content)

\* create: the candidate of a valid proposal is registered.
Create(c, candidate) ==
    /\ IsValid(candidate.content)
    /\ IsNew(c, candidate)
    /\ candidates' = [candidates EXCEPT ![c] = candidate]
    /\ UNCHANGED <<bound, vars>>

CanBeApproved(candidate) ==
    /\ ~candidate.limited
    /\ ToSet(candidate.content.source_references) \cap Uncertain = {}

VersionsOf(ruleId) == {v \in Versions : rules[<<ruleId, v>>] # None}

\* Mutant: deprecated versions do not count.
NextActiveVersion(ruleId) ==
    Max({v \in Versions : IsActive(rules, <<ruleId, v>>)} \cup {0}) + 1

\* next_version: one more than the highest version registered, 1 for none.
NextVersion(ruleId) == Max(VersionsOf(ruleId) \cup {0}) + 1

\* bind_approved_rule
Bind(c, id) == bound' = [bound EXCEPT ![c] = id]

\* Mutant: approve does not ask whether the candidate has produced a Rule, and
\* bind_approved_rule raises after the activation.
ApproveAgain(c, ruleId) ==
    LET id == <<ruleId, NextVersion(ruleId)>>
    IN  /\ candidates[c] # None
        /\ CanBeApproved(candidates[c])
        /\ id \in Identities
        /\ Activate(id, candidates[c].content)
        /\ (bound[c] = None /\ Bind(c, id)) \/ (bound[c] # None /\ UNCHANGED bound)
        /\ UNCHANGED candidates

Approve(c, ruleId) ==
    LET id == <<ruleId, NextVersion(ruleId)>>
    IN  /\ candidates[c] # None
        /\ bound[c] = None
        /\ CanBeApproved(candidates[c])
        /\ id \in Identities
        /\ Activate(id, candidates[c].content)
        /\ Bind(c, id)
        /\ UNCHANGED candidates

\* The candidates are in the memory of the process only.
RestartAll ==
    /\ Restart
    /\ candidates' = [c \in CandidateIds |-> None]
    /\ bound' = [c \in CandidateIds |-> None]

CandidatesNext ==
    \/ \E c \in CandidateIds, candidate \in Candidates : Create(c, candidate)
    \/ \E c \in CandidateIds, ruleId \in RuleIds : Approve(c, ruleId)
    \/ (RuleStep \/ ProfileStep) /\ UNCHANGED candidateVars
    \/ RestartAll

CandidatesSpec == CandidatesInit /\ [][CandidatesNext]_<<vars, candidateVars>>

-----------------------------------------------------------------------------
\* Candidates and Rules stay in step over the two registries: every activation
\* comes from exactly one candidate, a candidate produces at most one Rule, that
\* Rule has the content that was reviewed, and nothing unresolved was approved.
OneRulePerCandidate ==
    /\ \A c, d \in CandidateIds : bound[c] = bound[d] => c = d \/ bound[c] = None
    /\ \A c \in CandidateIds : bound[c] # None =>
          /\ rules[bound[c]] # None
          /\ rules[bound[c]].content = candidates[c].content
          /\ CanBeApproved(candidates[c])
    /\ \A i \in DOMAIN audit : audit[i].action = "APPROVED_AND_ACTIVATED" =>
          \E c \in CandidateIds : bound[c] = audit[i].identity

\* A newly approved version supersedes every version that the audit log has
\* seen before under its rule_id, the deprecated ones included.
ApprovedVersionsIncrease ==
    \A i, j \in DOMAIN audit :
        i < j /\ audit[j].action = "APPROVED_AND_ACTIVATED"
              /\ audit[i].identity[1] = audit[j].identity[1]
           => audit[i].identity[2] < audit[j].identity[2]

\* test_duplicate_candidate_content_is_rejected: no two candidates propose what
\* would be one approved content.
DuplicateContentRejected ==
    \A c, d \in CandidateIds :
        candidates[c] # None /\ candidates[d] # None
           /\ RuleHash(candidates[c].content) = RuleHash(candidates[d].content)
           => c = d
=============================================================================
