------------------------- MODULE PolicyKnowledgeProofs -------------------------
(***************************************************************************)
(* What PolicyKnowledge promises, for all documents, keys, references and  *)
(* registries.                                                             *)
(***************************************************************************)
EXTENDS PolicyKnowledge, FiniteSetTheorems, TLAPS

\* The index is a function on Keys.
IndexOK == documents = [key \in Keys |-> documents[key]]

\* The snapshot of a frozen document lists its sections: what makes the
\* comparison of snapshots in FrozenDocumentIndex.add enough to keep evidence.
SnapshotListsSections(frozen) ==
    frozen.snapshot_hash.sections =
        [k \in DOMAIN frozen.sections |->
            [section |-> frozen.sections[k].section,
             content_hash |-> frozen.sections[k].content_hash]]

AddressesDiffer(sections) ==
    \A i, j \in DOMAIN sections : sections[i].section = sections[j].section => i = j

DocumentsCoherent ==
    \A key \in Keys : documents[key] # None =>
        SnapshotListsSections(documents[key]) /\ AddressesDiffer(documents[key].sections)

IInv ==
    /\ IndexOK
    /\ DocumentsCoherent
    /\ RegistryTypeOK
    /\ SourceTypesAgree
    /\ MappingsResolve
    /\ cited \subseteq References
    /\ EvidenceStaysRegistered

\* A base that comes again has a higher copy number: no two positions share an
\* address.
LEMMA CopiesDiffer ==
    ASSUME NEW bases, NEW i \in Nat \ {0}, NEW j \in Nat \ {0}, i < j
    PROVE  Address(bases, i) # Address(bases, j)
<1> SUFFICES ASSUME Address(bases, i) = Address(bases, j)
             PROVE  FALSE
    OBVIOUS
<1> DEFINE Earlier(k) == {m \in 1 .. k - 1 : bases[m] = bases[k]}
<1>1. bases[i] = bases[j] /\ Cardinality(Earlier(i)) = Cardinality(Earlier(j))
    BY DEF Address, Copy
<1>2. Earlier(i) \subseteq Earlier(j) /\ i \in Earlier(j) /\ i \notin Earlier(i)
    BY <1>1
<1>3. IsFiniteSet(Earlier(j))
    <2>1. IsFiniteSet(1 .. j - 1)
        BY FS_Interval
    <2> QED
        BY <2>1, FS_Subset
<1>4. Earlier(i) # Earlier(j)
    BY <1>2
<1> QED
    BY <1>1, <1>2, <1>3, <1>4, FS_Subset

\* What segment_document returns has unique addresses, whichever the profile.
LEMMA SegmentsUnique ==
    ASSUME NEW canonical, NEW profile,
           NEW i \in DOMAIN SegmentDocument(canonical, profile),
           NEW j \in DOMAIN SegmentDocument(canonical, profile),
           SegmentDocument(canonical, profile)[i].section =
               SegmentDocument(canonical, profile)[j].section
    PROVE  i = j
<1> DEFINE blocks == canonical.blocks
           starts == Starts(blocks)
           headings == [k \in DOMAIN starts |-> Base(blocks[starts[k]], k - 1)]
           rows == [k \in DOMAIN blocks |-> RowBase(blocks[k])]
<1>1. CASE profile = "canonical-heading"
    <2>1. SegmentDocument(canonical, profile) = HeadingSections(blocks)
        BY <1>1 DEF SegmentDocument
    <2>2. i \in 1 .. Len(starts) /\ j \in 1 .. Len(starts)
        BY <2>1 DEF HeadingSections
    <2>3. Address(headings, i) = Address(headings, j)
        BY <2>1, <2>2 DEF HeadingSections
    <2>4. i \in Nat \ {0} /\ j \in Nat \ {0}
        BY <2>2
    <2> HIDE DEF headings
    <2> QED
        BY <2>3, <2>4, CopiesDiffer
<1>2. CASE profile # "canonical-heading"
    <2>1. SegmentDocument(canonical, profile) = MatrixSections(blocks)
        BY <1>2 DEF SegmentDocument
    <2>2. i \in 1 .. Len(blocks) /\ j \in 1 .. Len(blocks)
        BY <2>1 DEF MatrixSections
    <2>3. Address(rows, i) = Address(rows, j)
        BY <2>1, <2>2 DEF MatrixSections
    <2>4. i \in Nat \ {0} /\ j \in Nat \ {0}
        BY <2>2
    <2> HIDE DEF rows
    <2> QED
        BY <2>3, <2>4, CopiesDiffer
<1> QED
    BY <1>1, <1>2

LEMMA InitIInv == Init => IInv
<1> SUFFICES ASSUME Init PROVE IInv
    OBVIOUS
<1> USE DEF Init, FrozenInit, RegistryInit
<1>1. IndexOK /\ DocumentsCoherent
    BY DEF IndexOK, DocumentsCoherent
<1>2. RegistryTypeOK /\ SourceTypesAgree /\ MappingsResolve
    BY DEF RegistryTypeOK, SourceTypesAgree, MappingsResolve
<1>3. cited \subseteq References /\ EvidenceStaysRegistered
    BY DEF EvidenceStaysRegistered
<1> QED
    BY <1>1, <1>2, <1>3 DEF IInv

-----------------------------------------------------------------------------
(* Steps of the index.                                                      *)

\* A document that has the snapshot of the one in its place verifies the same
\* references.
LEMMA AddKeepsIInv ==
    ASSUME IInv, UNCHANGED <<registryVars, cited>>,
           NEW key \in Keys, NEW type \in SourceTypes,
           NEW canonical \in Canonicals, NEW profile \in Profiles,
           Add(key, type, canonical, profile)
    PROVE  IInv'
<1> DEFINE frozen == Ingest(key, type, canonical, profile)
           sections == SegmentDocument(canonical, profile)
<1>1. frozen # None /\ CanIngest(canonical, profile)
    BY FrozenAssumption DEF Add
<1>2. /\ frozen.key = key
      /\ frozen.sections = sections
      /\ SnapshotListsSections(frozen)
    BY DEF Ingest, SnapshotHash, SnapshotListsSections
<1>3. documents' = [documents EXCEPT ![key] = frozen] /\ IsFreeOrSame(frozen)
    BY DEF Add
<1>4. AddressesDiffer(sections)
    BY SegmentsUnique DEF AddressesDiffer
<1> HIDE DEF frozen, sections
<1>5. IndexOK'
    BY <1>3 DEF IInv, IndexOK
<1>6. documents'[key] = frozen /\ \A k \in Keys \ {key} : documents'[k] = documents[k]
    BY <1>3 DEF IInv, IndexOK
<1>7. DocumentsCoherent'
    BY <1>2, <1>4, <1>6 DEF IInv, DocumentsCoherent
<1>8. RegistryTypeOK' /\ SourceTypesAgree' /\ MappingsResolve' /\ (cited \subseteq References)'
    BY DEF IInv, registryVars, RegistryTypeOK, SourceTypesAgree, MappingsResolve
<1>9. EvidenceStaysRegistered'
    <2> SUFFICES ASSUME NEW ref \in cited PROVE IsRegistered(ref)'
        BY DEF EvidenceStaysRegistered
    <2>1. CASE AllowsReference(ref)
        BY <2>1 DEF IsRegistered, AllowsReference, registryVars
    <2>2. CASE Verifies(ref)
        <3>1. ref.key \in Keys
            BY ReferencesAssumption DEF IInv
        <3>2. CASE ref.key # key
            BY <2>2, <3>1, <3>2, <1>6 DEF IsRegistered, Verifies, Matches
        <3>3. CASE ref.key = key
            <4> DEFINE old == documents[key].sections
            <4>1. documents[key] # None /\ documents[key].snapshot_hash = frozen.snapshot_hash
                BY <2>2, <3>3, <1>2, <1>3 DEF Verifies, IsFreeOrSame
            <4>2. [k \in DOMAIN old |-> [section |-> old[k].section,
                                         content_hash |-> old[k].content_hash]] =
                  [k \in DOMAIN sections |-> [section |-> sections[k].section,
                                              content_hash |-> sections[k].content_hash]]
                BY <4>1, <1>2 DEF IInv, DocumentsCoherent, SnapshotListsSections
            <4>3. PICK k \in DOMAIN old : Matches(old[k], ref)
                BY <2>2, <3>3 DEF Verifies
            <4> HIDE DEF old
            <4>4. k \in DOMAIN sections /\ Matches(sections[k], ref)
                <5>1. DOMAIN old = DOMAIN sections
                    BY <4>2
                <5>2. [section |-> old[k].section, content_hash |-> old[k].content_hash] =
                      [section |-> sections[k].section, content_hash |-> sections[k].content_hash]
                    BY <4>2, <5>1
                <5> QED
                    BY <4>3, <5>1, <5>2 DEF Matches
            <4> QED
                BY <4>4, <3>3, <1>1, <1>2, <1>6 DEF IsRegistered, Verifies
        <3> QED
            BY <3>2, <3>3
    <2> QED
        BY <2>1, <2>2 DEF IInv, EvidenceStaysRegistered, IsRegistered
<1> QED
    BY <1>5, <1>7, <1>8, <1>9 DEF IInv

\* A step that keeps the index and the mappings, and cites nothing new.
LEMMA SameEvidence ==
    ASSUME IInv, UNCHANGED <<documents, cited>>, mappings \subseteq mappings'
    PROVE  IndexOK' /\ DocumentsCoherent' /\ EvidenceStaysRegistered'
<1>1. IndexOK' /\ DocumentsCoherent'
    BY DEF IInv, IndexOK, DocumentsCoherent
<1>2. EvidenceStaysRegistered'
    BY DEF IInv, EvidenceStaysRegistered, IsRegistered, AllowsReference, Verifies, Matches
<1> QED
    BY <1>1, <1>2

-----------------------------------------------------------------------------
(* Steps of the registries.                                                 *)

LEMMA AddSourceKeepsIInv ==
    ASSUME IInv, UNCHANGED <<frozenVars, cited>>,
           NEW key \in Keys, NEW type \in SourceTypes, AddSource(key, type)
    PROVE  IInv'
<1> USE DEF AddSource
<1>1. IndexOK' /\ DocumentsCoherent' /\ EvidenceStaysRegistered'
    BY SameEvidence DEF frozenVars
<1>2. RegistryTypeOK'
    BY DEF IInv, RegistryTypeOK
<1>3. sources'[key] = type /\ \A k \in Keys \ {key} : sources'[k] = sources[k]
    BY DEF IInv, RegistryTypeOK
<1>4. SourceTypesAgree'
    BY <1>3 DEF IInv, SourceTypesAgree, MayHaveType
<1>5. MappingsResolve'
    <2>1. type # None
        BY PolicySourcesAssumption
    <2>2. \A mapping \in mappings : mapping[1].key \in Keys
        BY ReferencesAssumption DEF IInv, RegistryTypeOK
    <2> QED
        BY <2>1, <2>2, <1>3 DEF IInv, MappingsResolve
<1> QED
    BY <1>1, <1>2, <1>4, <1>5 DEF IInv

LEMMA AddControlKeepsIInv ==
    ASSUME IInv, UNCHANGED <<frozenVars, cited>>,
           NEW control \in Controls, AddControl(control)
    PROVE  IInv'
<1> USE DEF AddControl
<1>1. IndexOK' /\ DocumentsCoherent' /\ EvidenceStaysRegistered'
    BY SameEvidence DEF frozenVars
<1>2. RegistryTypeOK' /\ SourceTypesAgree' /\ MappingsResolve'
    BY DEF IInv, RegistryTypeOK, SourceTypesAgree, MappingsResolve
<1> QED
    BY <1>1, <1>2 DEF IInv

LEMMA AddMappingKeepsIInv ==
    ASSUME IInv, UNCHANGED <<frozenVars, cited>>,
           NEW ref \in References, NEW target \in Targets, NEW control \in Controls,
           AddMapping(ref, target, control)
    PROVE  IInv'
<1> USE DEF AddMapping
<1>1. IndexOK' /\ DocumentsCoherent' /\ EvidenceStaysRegistered'
    BY SameEvidence DEF frozenVars
<1>2. RegistryTypeOK' /\ SourceTypesAgree'
    BY DEF IInv, RegistryTypeOK, SourceTypesAgree
<1>3. MappingsResolve'
    BY DEF IInv, MappingsResolve, IsMappable
<1> QED
    BY <1>1, <1>2, <1>3 DEF IInv

-----------------------------------------------------------------------------

LEMMA NextIInv == IInv /\ [Next]_vars => IInv'
<1> SUFFICES ASSUME IInv, [Next]_vars PROVE IInv'
    OBVIOUS
<1>1. ASSUME FrozenNext, UNCHANGED <<registryVars, cited>> PROVE IInv'
    <2> PICK key \in Keys, canonical \in Canonicals, profile \in Profiles :
            \/ \E type \in SourceTypes : Add(key, type, canonical, profile)
            \/ Reingest(key, canonical, profile)
        BY <1>1 DEF FrozenNext
    <2>1. CASE \E type \in SourceTypes : Add(key, type, canonical, profile)
        BY <1>1, <2>1, AddKeepsIInv
    <2>2. CASE Reingest(key, canonical, profile)
        <3>1. IndexOK' /\ DocumentsCoherent' /\ EvidenceStaysRegistered'
            BY <1>1, <2>2, SameEvidence DEF Reingest, registryVars
        <3> QED
            BY <1>1, <3>1 DEF IInv, registryVars, RegistryTypeOK, SourceTypesAgree, MappingsResolve
    <2> QED
        BY <2>1, <2>2
<1>2. ASSUME RegistryNext, UNCHANGED <<frozenVars, cited>> PROVE IInv'
    BY <1>2, AddControlKeepsIInv, AddSourceKeepsIInv, AddMappingKeepsIInv DEF RegistryNext
<1>3. ASSUME NEW allowed \in SUBSET DocumentIds, NEW ref \in References, Query(allowed, {ref})
      PROVE  IInv'
    <2> USE <1>3 DEF Query
    <2>1. IndexOK' /\ DocumentsCoherent'
        BY DEF IInv, IndexOK, DocumentsCoherent
    <2>2. RegistryTypeOK' /\ SourceTypesAgree' /\ MappingsResolve' /\ (cited \subseteq References)'
        BY DEF IInv, RegistryTypeOK, SourceTypesAgree, MappingsResolve
    <2>3. EvidenceStaysRegistered'
        BY DEF IInv, EvidenceStaysRegistered, IsRegistered, AllowsReference, Verifies, Matches
    <2> QED
        BY <2>1, <2>2, <2>3 DEF IInv
<1>4. CASE UNCHANGED vars
    <2>1. IndexOK' /\ DocumentsCoherent' /\ EvidenceStaysRegistered'
        BY <1>4, SameEvidence DEF vars
    <2> QED
        BY <1>4, <2>1 DEF vars, IInv, RegistryTypeOK, SourceTypesAgree, MappingsResolve
<1> QED
    BY <1>1, <1>2, <1>3, <1>4 DEF Next

THEOREM SpecIInv == Spec => []IInv
BY InitIInv, NextIInv, PTL DEF Spec

\* Types: a version that is frozen has sections, and its identity.
THEOREM TypeCorrect == Spec => []TypeOK
<1> USE DEF TypeOK
<1>1. Init => TypeOK
    BY DEF Init, FrozenInit, RegistryInit, FrozenTypeOK, RegistryTypeOK
<1>2. ASSUME TypeOK, [Next]_vars PROVE TypeOK'
    <2>1. ASSUME FrozenNext, UNCHANGED <<registryVars, cited>> PROVE TypeOK'
        <3> PICK key \in Keys, canonical \in Canonicals, profile \in Profiles :
                \/ \E type \in SourceTypes : Add(key, type, canonical, profile)
                \/ Reingest(key, canonical, profile)
            BY <2>1 DEF FrozenNext
        <3>1. RegistryTypeOK' /\ (cited \subseteq References)'
            BY <1>2, <2>1 DEF RegistryTypeOK, registryVars
        <3>2. ASSUME NEW type \in SourceTypes, Add(key, type, canonical, profile)
              PROVE  FrozenTypeOK'
            <4> DEFINE frozen == Ingest(key, type, canonical, profile)
            <4>1. frozen.key = key /\ frozen.source_type = type /\ frozen.sections # <<>>
                BY <3>2 DEF Add, CanIngest, Ingest
            <4> HIDE DEF frozen
            <4>2. /\ documents' = [documents EXCEPT ![key] = frozen]
                  /\ uploaded' = [uploaded EXCEPT ![key] = canonical]
                BY <3>2 DEF Add, frozen
            <4>3. DOMAIN documents' = Keys /\ DOMAIN uploaded' = Keys
                BY <1>2, <4>2 DEF FrozenTypeOK
            <4>4. /\ documents'[key] = frozen /\ uploaded'[key] = canonical
                  /\ \A k \in Keys \ {key} :
                        documents'[k] = documents[k] /\ uploaded'[k] = uploaded[k]
                BY <1>2, <4>2 DEF FrozenTypeOK
            <4> QED
                BY <1>2, <4>1, <4>3, <4>4 DEF FrozenTypeOK
        <3>3. ASSUME Reingest(key, canonical, profile) PROVE FrozenTypeOK'
            <4>1. documents' = documents /\ uploaded' = [uploaded EXCEPT ![key] = canonical]
                BY <3>3 DEF Reingest
            <4>2. DOMAIN uploaded' = Keys
                BY <1>2, <4>1 DEF FrozenTypeOK
            <4>3. uploaded'[key] = canonical /\ \A k \in Keys \ {key} : uploaded'[k] = uploaded[k]
                BY <1>2, <4>1 DEF FrozenTypeOK
            <4> QED
                BY <1>2, <4>1, <4>2, <4>3 DEF FrozenTypeOK
        <3> QED
            BY <3>1, <3>2, <3>3
    <2>2. ASSUME RegistryNext, UNCHANGED <<frozenVars, cited>> PROVE TypeOK'
        <3>1. FrozenTypeOK' /\ (cited \subseteq References)'
            BY <1>2, <2>2 DEF FrozenTypeOK, frozenVars
        <3>2. RegistryTypeOK'
            <4>1. ASSUME NEW control \in Controls, AddControl(control) PROVE RegistryTypeOK'
                BY <1>2, <4>1 DEF AddControl, RegistryTypeOK
            <4>2. ASSUME NEW key \in Keys, NEW type \in SourceTypes, AddSource(key, type)
                  PROVE  RegistryTypeOK'
                BY <1>2, <4>2 DEF AddSource, RegistryTypeOK
            <4>3. ASSUME NEW ref \in References, NEW target \in Targets,
                         NEW control \in Controls, AddMapping(ref, target, control)
                  PROVE  RegistryTypeOK'
                BY <1>2, <4>3 DEF AddMapping, RegistryTypeOK
            <4> QED
                BY <2>2, <4>1, <4>2, <4>3 DEF RegistryNext
        <3> QED
            BY <3>1, <3>2
    <2>3. ASSUME NEW allowed \in SUBSET DocumentIds, NEW ref \in References, Query(allowed, {ref})
          PROVE  TypeOK'
        BY <1>2, <2>3 DEF Query, FrozenTypeOK, RegistryTypeOK
    <2>4. CASE UNCHANGED vars
        BY <1>2, <2>4 DEF vars, FrozenTypeOK, RegistryTypeOK
    <2> QED
        BY <1>2, <2>1, <2>2, <2>3, <2>4 DEF Next
<1> QED
    BY <1>1, <1>2, PTL DEF Spec

\* Evidence that was answered once is registered for ever.
THEOREM EvidenceIsForEver == Spec => []EvidenceStaysRegistered
BY SpecIInv, PTL DEF IInv

\* Answered evidence leads to one section and one content, or was mapped.
THEOREM EvidenceIsUnambiguous == Spec => []EvidenceLeadsToOneSection
<1>1. IInv => EvidenceLeadsToOneSection
    <2> SUFFICES ASSUME IInv, NEW ref \in cited, ~AllowsReference(ref)
                 PROVE  \E k \in DOMAIN documents[ref.key].sections :
                            /\ Matches(documents[ref.key].sections[k], ref)
                            /\ \A other \in DOMAIN documents[ref.key].sections :
                                  documents[ref.key].sections[other].section = ref.section
                                      => other = k
        BY DEF EvidenceLeadsToOneSection
    <2>1. Verifies(ref)
        BY DEF IInv, EvidenceStaysRegistered, IsRegistered
    <2>2. ref.key \in Keys /\ documents[ref.key] # None
        BY <2>1, ReferencesAssumption DEF IInv, Verifies
    <2>3. PICK k \in DOMAIN documents[ref.key].sections :
              Matches(documents[ref.key].sections[k], ref)
        BY <2>1 DEF Verifies
    <2>4. \A other \in DOMAIN documents[ref.key].sections :
              documents[ref.key].sections[other].section = ref.section => other = k
        BY <2>2, <2>3 DEF IInv, DocumentsCoherent, AddressesDiffer, Matches
    <2> QED
        BY <2>3, <2>4
<1> QED
    BY <1>1, SpecIInv, PTL

\* All versions of a policy source have one source type, and every mapping leads
\* to a registered source and control.
THEOREM RegistriesAgree == Spec => [](SourceTypesAgree /\ MappingsResolve)
BY SpecIInv, PTL DEF IInv

==============================================================================
