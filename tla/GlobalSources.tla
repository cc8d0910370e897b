----------------------------- MODULE GlobalSources -----------------------------
(***************************************************************************)
(* Global Sources: the catalog of their definitions and the registry of    *)
(* their frozen snapshots (sources/catalog.py), the official control sets  *)
(* that snapshots and Source References are taken from                     *)
(* (sources/official_snapshot.py), and the selection of sources for a      *)
(* customer (profiles/source_selection.py).                                *)
(*                                                                         *)
(* A hash is the value that is hashed.  Titles and labels are left out,    *)
(* and lists of identifiers without duplicates are sets.  A call that      *)
(* raises changes nothing and is no step.                                  *)
(***************************************************************************)
EXTENDS FiniteSets, SequencesExt

CONSTANTS
    Sources,
    Frameworks,     \* framework versions
    Urls,           \* official references
    Capabilities,   \* what a customer may have
    Payloads,       \* official control sets as they are delivered, hashes aside
    DocumentHashes, \* canonical hashes of frozen GLOBAL documents
    MaxLoaded,      \* control sets held: bounds the runs
    None

Roles == {"SECURITY_BASELINE", "GOVERNANCE_HYGIENE", "CONDITIONAL_GOVERNANCE",
          "MAPPING_EVIDENCE"}

Kinds == {"SCORE_AND_COVERAGE", "CONDITIONAL_CONTROL_COVERAGE",
          "MAPPING_AND_EVIDENCE_READINESS"}

\* _validate_policy
IsPolicy(def) ==
    /\ def.labelled <=> def.kind = "SCORE_AND_COVERAGE"
    /\ def.role = "MAPPING_EVIDENCE" =>
          def.kind = "MAPPING_AND_EVIDENCE_READINESS" /\ ~def.eligible
    /\ def.role = "CONDITIONAL_GOVERNANCE" => ~def.eligible /\ def.capabilities # {}

Definitions ==
    [framework : Frameworks, url : Urls, role : Roles, kind : Kinds, labelled : BOOLEAN,
     eligible : BOOLEAN, capabilities : SUBSET Capabilities]

Versions == {payload.source_version : payload \in Payloads}

\* The evidence of a payload is a sequence of [control_id, meaning, detail]: the
\* meaning is the four fields that a Rule has too, the detail all the others.
PayloadFields ==
    {"source_id", "source_version", "framework", "snapshot_date", "collected_at", "url",
     "mapping_version", "selected", "excluded", "observed", "evidence"}

ASSUME PayloadsAssumption ==
    \A payload \in Payloads :
        /\ payload = [field \in PayloadFields |-> payload[field]]
        /\ payload.source_id \in Sources
        /\ None # payload

VARIABLES
    definitions,    \* the catalog: the definition of each source, or None
    snapshots,      \* the frozen snapshot of each source and version, or None
    loaded,         \* history: each control set held, with the payload whose
                    \* hashes it was delivered with
    chosen          \* history: each source selected, with the customer's capabilities

vars == <<definitions, snapshots, loaded, chosen>>

Init ==
    /\ definitions = [source \in Sources |-> None]
    /\ snapshots = [identity \in Sources \X Versions |-> None]
    /\ loaded = {}
    /\ chosen = {}

-----------------------------------------------------------------------------
(* The catalog and the selection.                                           *)

\* Mutant: a definition that comes again replaces the one that is there.
IsUndefinedOrNot(source) == TRUE

IsUndefined(source) == definitions[source] = None

\* GlobalSourceDefinition.from_dict, then add.
AddDefinition(source, def) ==
    /\ IsPolicy(def)
    /\ IsUndefined(source)
    /\ definitions' = [definitions EXCEPT ![source] = def]
    /\ UNCHANGED <<snapshots, loaded, chosen>>

Missing(source, capabilities) == definitions[source].capabilities \ capabilities

Selectable(source, capabilities) ==
    /\ definitions[source] # None
    /\ definitions[source].role # "MAPPING_EVIDENCE"
    /\ Missing(source, capabilities) = {}

\* select_global_profile_sources: one source that this customer may not have makes
\* the whole selection fail.
Select(requested, capabilities) ==
    /\ \A source \in requested : Selectable(source, capabilities)
    /\ chosen' = chosen \cup (requested \X {capabilities})
    /\ UNCHANGED <<definitions, snapshots, loaded>>

-----------------------------------------------------------------------------
(* Official control sets.                                                   *)

ExcludedIds(payload) == DOMAIN payload.excluded

EvidenceIds(payload) ==
    {payload.evidence[i].control_id : i \in DOMAIN payload.evidence}

CanonicalHash(payload) == payload.evidence

\* The projection of create: neither the reference nor the content is in it, and
\* not the time of collection either.
ControlSetHash(payload) ==
    [source_id |-> payload.source_id, source_version |-> payload.source_version,
     framework |-> payload.framework, snapshot_date |-> payload.snapshot_date,
     selected |-> payload.selected, excluded |-> payload.excluded,
     mapping_version |-> payload.mapping_version]

\* Mutant: a control may be both selected and excluded.
CanCreateOverlapping(payload) == payload.selected # {}

\* FrozenGlobalSourceSnapshot.create
CanCreate(payload) ==
    /\ payload.selected # {}
    /\ payload.selected \cap ExcludedIds(payload) = {}

SnapshotOf(payload, canonical) ==
    [canonical |-> canonical, framework |-> payload.framework, url |-> payload.url,
     collected_at |-> payload.collected_at, control_set_hash |-> ControlSetHash(payload)]

\* The snapshot's own values are those of the definition.
AgreesWith(payload, def) == payload.framework = def.framework /\ payload.url = def.url

\* Mutant: the hashes are taken over from the payload.
IsAuthenticUnchecked(payload, claimed) == TRUE

\* Each hash that comes with the payload is the one derived from it.
IsAuthentic(payload, claimed) ==
    /\ \A i \in DOMAIN payload.evidence :
          i \in DOMAIN claimed.evidence /\ payload.evidence[i] = claimed.evidence[i]
    /\ CanonicalHash(payload) = CanonicalHash(claimed)
    /\ ControlSetHash(payload) = ControlSetHash(claimed)

\* What is observed is selected or excluded, and the selection has evidence.
IsPartitioned(payload) ==
    /\ payload.observed # {}
    /\ payload.selected \cup ExcludedIds(payload) = payload.observed
    /\ EvidenceIds(payload) = payload.selected
    /\ IsInjective([i \in DOMAIN payload.evidence |-> payload.evidence[i].control_id])

\* FrozenOfficialControlSet.from_dict, with the catalog's definition.
Load(payload, claimed) ==
    /\ Cardinality(loaded) < MaxLoaded
    /\ definitions[payload.source_id] # None
    /\ CanCreate(payload)
    /\ IsAuthentic(payload, claimed)
    /\ AgreesWith(payload, definitions[payload.source_id])
    /\ IsPartitioned(payload)
    /\ loaded' = loaded \cup {[set |-> payload, claimed |-> claimed]}
    /\ UNCHANGED <<definitions, snapshots, chosen>>

-----------------------------------------------------------------------------
(* The snapshot registry.                                                   *)

CanFreeze(identity, snapshot) ==
    /\ definitions[identity[1]] # None
    /\ AgreesWith(snapshot, definitions[identity[1]])
    /\ snapshots[identity] = None

Freeze(identity, snapshot) ==
    /\ CanFreeze(identity, snapshot)
    /\ snapshots' = [snapshots EXCEPT ![identity] = snapshot]
    /\ UNCHANGED <<definitions, loaded, chosen>>

\* A snapshot that is created from its fields again.
FreezeCreated(payload) ==
    /\ CanCreate(payload)
    /\ Freeze(<<payload.source_id, payload.source_version>>,
              SnapshotOf(payload, CanonicalHash(payload)))

\* from_frozen_document: identity and content are the document's, framework and
\* reference the catalog's; the controls are given.
FreezeDocument(payload, canonical) ==
    LET def == definitions[payload.source_id]
        own == [payload EXCEPT !.framework = def.framework, !.url = def.url]
    IN  /\ def # None
        /\ CanCreate(own)
        /\ Freeze(<<own.source_id, own.source_version>>, SnapshotOf(own, canonical))

Next ==
    \/ \E source \in Sources, def \in Definitions : AddDefinition(source, def)
    \/ \E requested \in SUBSET Sources, capabilities \in SUBSET Capabilities :
          Select(requested, capabilities)
    \/ \E payload, claimed \in Payloads : Load(payload, claimed)
    \/ \E payload \in Payloads : FreezeCreated(payload)
    \/ \E payload \in Payloads, canonical \in DocumentHashes :
          FreezeDocument(payload, canonical)

Spec == Init /\ [][Next]_vars

-----------------------------------------------------------------------------
(* Properties.                                                              *)

Held == {entry.set : entry \in loaded}

\* A control set that is held partitions what was observed: each control is
\* selected, with its evidence, or excluded, and never both.
TypeOK ==
    /\ definitions \in [Sources -> Definitions \cup {None}]
    /\ DOMAIN snapshots = Sources \X Versions
    /\ chosen \subseteq Sources \X SUBSET Capabilities
    /\ \A set \in Held :
          /\ set \in Payloads
          /\ set.observed = EvidenceIds(set) \cup ExcludedIds(set)
          /\ EvidenceIds(set) \cap ExcludedIds(set) = {}

\* A control set that is accepted is the one its hashes were made from, down to
\* the observed controls, which are in no hash, as long as that one was partitioned
\* itself.  Two fields are excepted, because no hash covers them: the reference,
\* which is the catalog's, and the time of collection, which nothing determines.
HeldAsPublished ==
    \A entry \in loaded :
        IsPartitioned(entry.claimed) =>
            entry.set = [entry.claimed EXCEPT !.url = entry.set.url,
                                              !.collected_at = entry.set.collected_at]

\* What was decided on the catalog once is right by the catalog as it is now, and
\* nothing looks at it again: a snapshot is frozen and a control set held under the
\* framework and reference of its source, and a source that was selected may enter
\* a Profile of a customer with those capabilities.
DecisionsStand ==
    /\ \A identity \in Sources \X Versions : snapshots[identity] # None =>
          /\ definitions[identity[1]] # None
          /\ AgreesWith(snapshots[identity], definitions[identity[1]])
    /\ \A set \in Held :
          /\ definitions[set.source_id] # None
          /\ AgreesWith(set, definitions[set.source_id])
    /\ \A choice \in chosen : Selectable(choice[1], choice[2])
==============================================================================
