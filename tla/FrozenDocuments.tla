----------------------------- MODULE FrozenDocuments -----------------------------
(***************************************************************************)
(* Ingestion of a canonical document, its FrozenDocument, re-ingestion     *)
(* under the same version, and FrozenDocumentIndex (sources/ingestion.py   *)
(* and sources/index.py).                                                  *)
(*                                                                         *)
(* A call that raises changes nothing and is no step.                      *)
(***************************************************************************)
EXTENDS CanonicalDocument, PolicySources

CONSTANT Canonicals     \* what the loaders make of the uploads

VARIABLES
    documents,      \* FrozenDocumentIndex: the document of each version, or None
    uploaded        \* history: what was last accepted under each version, or None

frozenVars == <<documents, uploaded>>

FrozenInit ==
    /\ documents = [key \in Keys |-> None]
    /\ uploaded = [key \in Keys |-> None]

-----------------------------------------------------------------------------
(* Ingestion.                                                               *)

Profiles == {"canonical-heading", "xlsx-control-matrix"}

Supports(profile, format) == (profile = "xlsx-control-matrix") <=> (format = "xlsx")

SegmentDocument(canonical, profile) ==
    IF profile = "canonical-heading"
    THEN HeadingSections(canonical.blocks)
    ELSE MatrixSections(canonical.blocks)

\* Mutant: the snapshot is the addresses of the sections.
SnapshotOfAddresses(key, canonical, profile, sections) ==
    [key |-> key, sections |-> [k \in DOMAIN sections |-> sections[k].section]]

\* Neither the locators nor the source type and the bytes are in it.
SnapshotHash(key, canonical, profile, sections) ==
    [key |-> key, format |-> canonical.format, parser |-> canonical.parser,
     profile |-> profile,
     sections |-> [k \in DOMAIN sections |->
                      [section |-> sections[k].section,
                       content_hash |-> sections[k].content_hash]]]

\* Mutant: a document without a section is ingested.
CanIngestNothing(canonical, profile) == Supports(profile, canonical.format)

\* segment_document finds the profile's structure, and at least one section.
CanIngest(canonical, profile) ==
    /\ Supports(profile, canonical.format)
    /\ SegmentDocument(canonical, profile) # <<>>

Ingest(key, type, canonical, profile) ==
    LET sections == SegmentDocument(canonical, profile)
    IN  [key |-> key, source_type |-> type, source_hash |-> canonical.source_hash,
         sections |-> sections,
         snapshot_hash |-> SnapshotHash(key, canonical, profile, sections)]

ASSUME FrozenAssumption ==
    \A key \in Keys, type \in SourceTypes, canonical \in Canonicals, profile \in Profiles :
        CanIngest(canonical, profile) => Ingest(key, type, canonical, profile) # None

-----------------------------------------------------------------------------
(* FrozenDocumentIndex.                                                     *)

IsFreeOrSame(frozen) ==
    documents[frozen.key] # None =>
        documents[frozen.key].snapshot_hash = frozen.snapshot_hash

Add(key, type, canonical, profile) ==
    /\ CanIngest(canonical, profile)
    /\ LET frozen == Ingest(key, type, canonical, profile)
       IN  /\ IsFreeOrSame(frozen)
           /\ documents' = [documents EXCEPT ![key] = frozen]
    /\ uploaded' = [uploaded EXCEPT ![key] = canonical]

\* reingest_document, reingest_upload: the frozen document is kept when the
\* candidate has its snapshot.
Reingest(key, canonical, profile) ==
    /\ documents[key] # None
    /\ CanIngest(canonical, profile)
    /\ Ingest(key, documents[key].source_type, canonical, profile).snapshot_hash =
           documents[key].snapshot_hash
    /\ uploaded' = [uploaded EXCEPT ![key] = canonical]
    /\ UNCHANGED documents

FrozenNext ==
    \E key \in Keys, canonical \in Canonicals, profile \in Profiles :
        \/ \E type \in SourceTypes : Add(key, type, canonical, profile)
        \/ Reingest(key, canonical, profile)

Matches(section, ref) ==
    section.section = ref.section /\ section.content_hash = ref.content_hash

Verifies(ref) ==
    /\ documents[ref.key] # None
    /\ \E k \in DOMAIN documents[ref.key].sections :
          Matches(documents[ref.key].sections[k], ref)

-----------------------------------------------------------------------------
(* Properties.                                                              *)

FrozenTypeOK ==
    /\ DOMAIN documents = Keys /\ DOMAIN uploaded = Keys
    /\ \A key \in Keys : documents[key] # None =>
          /\ documents[key].key = key
          /\ documents[key].source_type \in SourceTypes
          /\ documents[key].sections # <<>>
          /\ uploaded[key] \in Canonicals

\* Rule 2 of ingestion.py: a frozen version that is collected again is not
\* overwritten.  FrozenDocumentIndex.add replaces it when the snapshots agree,
\* locators and source type included.
FrozenDocumentsStay ==
    [][\A key \in Keys : documents[key] # None => documents'[key] = documents[key]]_frozenVars

\* Changed content under the same version is rejected: whatever is accepted
\* under a version has the text of what was accepted before.  Text before the
\* first heading is in no section, so that it can change.
AcceptedUploadsKeepTheirText ==
    [][\A key \in Keys :
           uploaded[key] # None =>
               uploaded'[key].source_hash.text = uploaded[key].source_hash.text]_frozenVars

==============================================================================
