----------------------------- MODULE PolicyKnowledge -----------------------------
(***************************************************************************)
(* The read boundary of the policy knowledge tool                          *)
(* (tools/policy-knowledge/port.py) over the frozen documents and the      *)
(* registries: which evidence it answers with, and whether that evidence   *)
(* can still be found when an old answer is looked at again.               *)
(***************************************************************************)
EXTENDS FrozenDocuments, SourceRegistries, FiniteSets

CONSTANT MaxCited       \* references answered: bounds the runs

VARIABLE cited          \* history: the references of all evidence answered

vars == <<documents, uploaded, controls, sources, mappings, cited>>

Init ==
    /\ FrozenInit
    /\ RegistryInit
    /\ cited = {}

\* Mutant: the address of a section is enough, whatever its content.
IsRegisteredByAddress(ref) ==
    \/ AllowsReference(ref)
    \/ /\ documents[ref.key] # None
       /\ \E k \in DOMAIN documents[ref.key].sections :
             documents[ref.key].sections[k].section = ref.section

IsRegistered(ref) == AllowsReference(ref) \/ Verifies(ref)

\* The adapter may answer with anything.  One piece of evidence that is outside
\* the allowed documents, or not registered, makes the call raise.
Query(allowed, evidence) ==
    /\ allowed # {}
    /\ \A ref \in evidence : ref.key[1] \in allowed /\ IsRegistered(ref)
    /\ Cardinality(cited \cup evidence) <= MaxCited
    /\ cited' = cited \cup evidence
    /\ UNCHANGED <<documents, uploaded, controls, sources, mappings>>

Next ==
    \/ FrozenNext /\ UNCHANGED <<registryVars, cited>>
    \/ RegistryNext /\ UNCHANGED <<frozenVars, cited>>
    \/ \E allowed \in SUBSET DocumentIds, ref \in References : Query(allowed, {ref})

Spec == Init /\ [][Next]_vars

-----------------------------------------------------------------------------
(* Properties.                                                              *)

TypeOK == FrozenTypeOK /\ RegistryTypeOK /\ cited \subseteq References

\* Evidence that was answered once is evidence for ever: no later ingestion,
\* re-ingestion or registration takes its reference away.
EvidenceStaysRegistered == \A ref \in cited : IsRegistered(ref)

\* An answered reference leads to one section of the frozen document and to
\* that content only, unless it was let through by a mapping alone.
EvidenceLeadsToOneSection ==
    \A ref \in cited :
        \/ AllowsReference(ref)
        \/ \E k \in DOMAIN documents[ref.key].sections :
              /\ Matches(documents[ref.key].sections[k], ref)
              /\ \A other \in DOMAIN documents[ref.key].sections :
                    documents[ref.key].sections[other].section = ref.section => other = k

==============================================================================
