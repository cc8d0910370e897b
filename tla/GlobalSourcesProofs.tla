-------------------------- MODULE GlobalSourcesProofs --------------------------
(***************************************************************************)
(* Proofs about GlobalSources, for any sources, frameworks, references,    *)
(* capabilities and control sets.  What is held, frozen or selected was    *)
(* checked when it came in; the invariant keeps the outcome of those       *)
(* checks, and that the catalog they were made against is still the same.  *)
(***************************************************************************)
EXTENDS GlobalSources, TLAPS

\* The catalog holds definitions whose role, kind and conditions fit together.
CatalogOK ==
    /\ definitions \in [Sources -> Definitions \cup {None}]
    /\ \A source \in Sources : definitions[source] # None => IsPolicy(definitions[source])

\* Every control set that is held passed the checks of from_dict.
HeldWasChecked ==
    \A entry \in loaded :
        /\ entry.set \in Payloads /\ entry.claimed \in Payloads
        /\ CanCreate(entry.set)
        /\ IsAuthentic(entry.set, entry.claimed)
        /\ IsPartitioned(entry.set)

SnapshotsOK == snapshots = [identity \in Sources \X Versions |-> snapshots[identity]]

ChosenOK == chosen \subseteq Sources \X SUBSET Capabilities

IInv == CatalogOK /\ HeldWasChecked /\ SnapshotsOK /\ ChosenOK /\ DecisionsStand

LEMMA InitIInv == Init => IInv
BY DEF Init, IInv, CatalogOK, HeldWasChecked, SnapshotsOK, ChosenOK, DecisionsStand, Held

\* A source is added to the catalog once: nothing that was checked against a
\* definition is affected.
LEMMA AddDefinitionKeepsIInv ==
    ASSUME IInv, NEW source \in Sources, NEW def \in Definitions, AddDefinition(source, def)
    PROVE  IInv'
<1>1. /\ definitions[source] = None /\ IsPolicy(def)
      /\ definitions' = [definitions EXCEPT ![source] = def]
      /\ snapshots' = snapshots /\ loaded' = loaded /\ chosen' = chosen
    BY DEF AddDefinition, IsUndefined
<1>2. definitions'[source] = def /\ \A s \in Sources \ {source} : definitions'[s] = definitions[s]
    BY <1>1 DEF IInv, CatalogOK
<1>3. CatalogOK'
    BY <1>1, <1>2 DEF IInv, CatalogOK, IsPolicy
<1>4. HeldWasChecked' /\ SnapshotsOK' /\ ChosenOK'
    BY <1>1 DEF IInv, HeldWasChecked, SnapshotsOK, ChosenOK, CanCreate, IsAuthentic,
                IsPartitioned
<1>5. ASSUME NEW s \in Sources, definitions[s] # None
      PROVE  definitions'[s] = definitions[s]
    BY <1>1, <1>2, <1>5
<1>6. \A identity \in Sources \X Versions : identity[1] \in Sources
    OBVIOUS
<1>7. \A set \in Held : set.source_id \in Sources
    BY PayloadsAssumption DEF IInv, HeldWasChecked, Held
<1>8. \A choice \in chosen : choice[1] \in Sources
    BY DEF IInv, ChosenOK
<1>9. \A choice \in chosen : Selectable(choice[1], choice[2])'
    BY <1>5, <1>8 DEF IInv, DecisionsStand, Selectable, Missing
<1>10. DecisionsStand'
    BY <1>1, <1>5, <1>6, <1>7, <1>9 DEF IInv, DecisionsStand, Held, AgreesWith
<1> QED
    BY <1>3, <1>4, <1>10 DEF IInv

LEMMA SelectKeepsIInv ==
    ASSUME IInv, NEW requested \in SUBSET Sources, NEW capabilities \in SUBSET Capabilities,
           Select(requested, capabilities)
    PROVE  IInv'
<1>1. /\ chosen' = chosen \cup (requested \X {capabilities})
      /\ definitions' = definitions /\ snapshots' = snapshots /\ loaded' = loaded
      /\ \A source \in requested : Selectable(source, capabilities)
    BY DEF Select
<1>2. CatalogOK' /\ HeldWasChecked' /\ SnapshotsOK'
    BY <1>1 DEF IInv, CatalogOK, HeldWasChecked, SnapshotsOK, CanCreate, IsAuthentic,
                IsPartitioned
<1>3. ChosenOK'
    BY <1>1 DEF IInv, ChosenOK
<1>4. \A choice \in chosen' : Selectable(choice[1], choice[2])'
    BY <1>1 DEF IInv, DecisionsStand, Selectable, Missing
<1>5. DecisionsStand'
    BY <1>1, <1>4 DEF IInv, DecisionsStand, Held, AgreesWith
<1> QED
    BY <1>2, <1>3, <1>5 DEF IInv

LEMMA LoadKeepsIInv ==
    ASSUME IInv, NEW payload \in Payloads, NEW claimed \in Payloads, Load(payload, claimed)
    PROVE  IInv'
<1>1. /\ loaded' = loaded \cup {[set |-> payload, claimed |-> claimed]}
      /\ definitions' = definitions /\ snapshots' = snapshots /\ chosen' = chosen
      /\ CanCreate(payload) /\ IsAuthentic(payload, claimed) /\ IsPartitioned(payload)
      /\ definitions[payload.source_id] # None
      /\ AgreesWith(payload, definitions[payload.source_id])
    BY DEF Load
<1>2. CatalogOK' /\ SnapshotsOK' /\ ChosenOK'
    BY <1>1 DEF IInv, CatalogOK, SnapshotsOK, ChosenOK
<1>3. HeldWasChecked'
    <2> SUFFICES ASSUME NEW entry \in loaded'
                 PROVE  /\ entry.set \in Payloads /\ entry.claimed \in Payloads
                        /\ CanCreate(entry.set)
                        /\ IsAuthentic(entry.set, entry.claimed)
                        /\ IsPartitioned(entry.set)
        BY DEF HeldWasChecked, CanCreate, IsAuthentic, IsPartitioned
    <2>1. CASE entry \in loaded
        BY <2>1 DEF IInv, HeldWasChecked
    <2>2. CASE entry = [set |-> payload, claimed |-> claimed]
        BY <2>2, <1>1
    <2> QED
        BY <1>1, <2>1, <2>2
<1>4. DecisionsStand'
    <2>1. ASSUME NEW set \in Held'
          PROVE  definitions[set.source_id] # None /\ AgreesWith(set, definitions[set.source_id])
        <3>1. PICK entry \in loaded' : set = entry.set
            BY DEF Held
        <3>2. CASE entry \in loaded
            BY <3>1, <3>2 DEF IInv, DecisionsStand, Held
        <3>3. CASE entry = [set |-> payload, claimed |-> claimed]
            BY <1>1, <3>1, <3>3
        <3> QED
            BY <1>1, <3>2, <3>3
    <2> QED
        BY <1>1, <2>1 DEF IInv, DecisionsStand, AgreesWith, Selectable, Missing
<1> QED
    BY <1>2, <1>3, <1>4 DEF IInv

\* Whichever way a snapshot came about, it agrees with the catalog.
LEMMA FreezeKeepsIInv ==
    ASSUME IInv, NEW identity, NEW snapshot, Freeze(identity, snapshot)
    PROVE  IInv'
<1>1. /\ snapshots' = [snapshots EXCEPT ![identity] = snapshot]
      /\ definitions' = definitions /\ loaded' = loaded /\ chosen' = chosen
      /\ definitions[identity[1]] # None
      /\ AgreesWith(snapshot, definitions[identity[1]])
    BY DEF Freeze, CanFreeze
<1>2. CatalogOK' /\ HeldWasChecked' /\ ChosenOK'
    BY <1>1 DEF IInv, CatalogOK, HeldWasChecked, ChosenOK, CanCreate, IsAuthentic,
                IsPartitioned
<1>3. SnapshotsOK'
    BY <1>1 DEF IInv, SnapshotsOK
<1>4. \A other \in Sources \X Versions :
          snapshots'[other] = IF other = identity THEN snapshot ELSE snapshots[other]
    BY <1>1 DEF IInv, SnapshotsOK
<1>5. DecisionsStand'
    BY <1>1, <1>4 DEF IInv, DecisionsStand, Held, AgreesWith, Selectable, Missing
<1> QED
    BY <1>2, <1>3, <1>5 DEF IInv

LEMMA NextIInv == IInv /\ [Next]_vars => IInv'
<1> SUFFICES ASSUME IInv, [Next]_vars PROVE IInv'
    OBVIOUS
<1>1. ASSUME NEW source \in Sources, NEW def \in Definitions, AddDefinition(source, def)
      PROVE  IInv'
    BY <1>1, AddDefinitionKeepsIInv
<1>2. ASSUME NEW payload \in Payloads, NEW claimed \in Payloads, Load(payload, claimed)
      PROVE  IInv'
    BY <1>2, LoadKeepsIInv
<1>3. ASSUME NEW payload \in Payloads, FreezeCreated(payload)
      PROVE  IInv'
    BY <1>3, FreezeKeepsIInv DEF FreezeCreated
<1>4. ASSUME NEW payload \in Payloads, NEW canonical \in DocumentHashes,
             FreezeDocument(payload, canonical)
      PROVE  IInv'
    BY <1>4, FreezeKeepsIInv DEF FreezeDocument
<1>5. ASSUME NEW requested \in SUBSET Sources, NEW capabilities \in SUBSET Capabilities,
             Select(requested, capabilities)
      PROVE  IInv'
    BY <1>5, SelectKeepsIInv
<1>6. CASE UNCHANGED vars
    BY <1>6 DEF vars, IInv, CatalogOK, HeldWasChecked, SnapshotsOK, ChosenOK, DecisionsStand,
                Held, AgreesWith, Selectable, Missing, CanCreate, IsAuthentic, IsPartitioned
<1> QED
    BY <1>1, <1>2, <1>3, <1>4, <1>5, <1>6 DEF Next

THEOREM IInvHolds == Spec => []IInv
BY InitIInv, NextIInv, PTL DEF Spec

-----------------------------------------------------------------------------
(* What follows.                                                            *)

\* Types: each control of a held control set is selected, with its evidence, or
\* excluded, and never both.
THEOREM TypeCorrect == Spec => []TypeOK
<1>1. IInv => TypeOK
    <2> SUFFICES ASSUME IInv PROVE TypeOK
        OBVIOUS
    <2>1. definitions \in [Sources -> Definitions \cup {None}]
        BY DEF IInv, CatalogOK
    <2>2. DOMAIN snapshots = Sources \X Versions
        BY DEF IInv, SnapshotsOK
    <2>3. ASSUME NEW set \in Held
          PROVE  /\ set \in Payloads
                 /\ set.observed = EvidenceIds(set) \cup ExcludedIds(set)
                 /\ EvidenceIds(set) \cap ExcludedIds(set) = {}
        <3>1. set \in Payloads /\ CanCreate(set) /\ IsPartitioned(set)
            BY DEF IInv, HeldWasChecked, Held
        <3> QED
            BY <3>1 DEF CanCreate, IsPartitioned
    <2>4. chosen \subseteq Sources \X SUBSET Capabilities
        BY DEF IInv, ChosenOK
    <2> QED
        BY <2>1, <2>2, <2>3, <2>4 DEF TypeOK
<1> QED
    BY <1>1, IInvHolds, PTL

\* An accepted control set is the one its hashes were made from, in every field but
\* the reference and the time of collection: the observed controls, which no hash
\* covers, follow from the partition.
THEOREM HeldIsPublished == Spec => []HeldAsPublished
<1>1. IInv => HeldAsPublished
    <2> SUFFICES ASSUME IInv, NEW entry \in loaded, IsPartitioned(entry.claimed)
                 PROVE  entry.set = [entry.claimed EXCEPT !.url = entry.set.url,
                                                          !.collected_at = entry.set.collected_at]
        BY DEF HeldAsPublished
    <2> DEFINE set == entry.set
               claimed == entry.claimed
    <2>1. /\ set \in Payloads /\ claimed \in Payloads
          /\ IsAuthentic(set, claimed) /\ IsPartitioned(set)
        BY DEF IInv, HeldWasChecked
    <2> HIDE DEF set, claimed
    <2>2. set.evidence = claimed.evidence
        BY <2>1 DEF IsAuthentic, CanonicalHash
    <2>3. /\ set.source_id = claimed.source_id
          /\ set.source_version = claimed.source_version
          /\ set.framework = claimed.framework
          /\ set.snapshot_date = claimed.snapshot_date
          /\ set.selected = claimed.selected
          /\ set.excluded = claimed.excluded
          /\ set.mapping_version = claimed.mapping_version
        BY <2>1 DEF IsAuthentic, ControlSetHash
    <2>4. set.observed = claimed.observed
        BY <2>1, <2>3 DEF IsPartitioned, ExcludedIds, claimed
    <2>5. \A field \in PayloadFields \ {"url", "collected_at"} : set[field] = claimed[field]
        BY <2>2, <2>3, <2>4 DEF PayloadFields, set, claimed
    <2>6. /\ set = [field \in PayloadFields |-> set[field]]
          /\ claimed = [field \in PayloadFields |-> claimed[field]]
        BY <2>1, PayloadsAssumption
    <2> DEFINE own == [claimed EXCEPT !.url = set.url, !.collected_at = set.collected_at]
    <2>7. own = [field \in PayloadFields |-> own[field]]
        BY <2>6
    <2>8. \A field \in PayloadFields : own[field] = set[field]
        BY <2>5, <2>6 DEF PayloadFields
    <2>9. set = own
        <3> HIDE DEF own
        <3> QED
            BY <2>6, <2>7, <2>8
    <2> QED
        BY <2>9 DEF set, claimed
<1> QED
    BY <1>1, IInvHolds, PTL

\* Neither the catalog nor a frozen snapshot is ever overwritten, and no control
\* set is dropped; frozen snapshots, held control sets and selections agree with the
\* catalog for ever, although they were compared with it once.
THEOREM FrozenAgainstOneCatalog ==
    Spec => /\ []DecisionsStand
            /\ [][/\ \A source \in Sources : definitions[source] # None =>
                        definitions'[source] = definitions[source]
                  /\ \A identity \in Sources \X Versions : snapshots[identity] # None =>
                        snapshots'[identity] = snapshots[identity]
                  /\ loaded \subseteq loaded']_vars
<1> DEFINE Keeps == /\ \A source \in Sources : definitions[source] # None =>
                          definitions'[source] = definitions[source]
                    /\ \A identity \in Sources \X Versions : snapshots[identity] # None =>
                          snapshots'[identity] = snapshots[identity]
                    /\ loaded \subseteq loaded'
<1>1. IInv /\ [Next]_vars => [Keeps]_vars
    <2> SUFFICES ASSUME IInv, Next PROVE Keeps
        OBVIOUS
    <2>1. ASSUME NEW source \in Sources, NEW def \in Definitions, AddDefinition(source, def)
          PROVE  Keeps
        BY <2>1 DEF AddDefinition, IsUndefined, IInv, CatalogOK
    <2>2. ASSUME NEW payload \in Payloads, NEW claimed \in Payloads, Load(payload, claimed)
          PROVE  Keeps
        BY <2>2 DEF Load
    <2>3. ASSUME NEW identity, NEW snapshot, Freeze(identity, snapshot)
          PROVE  Keeps
        <3>1. /\ snapshots' = [snapshots EXCEPT ![identity] = snapshot]
              /\ snapshots[identity] = None
              /\ definitions' = definitions /\ loaded' = loaded
            BY <2>3 DEF Freeze, CanFreeze
        <3>2. \A other \in Sources \X Versions :
                  snapshots'[other] = IF other = identity THEN snapshot ELSE snapshots[other]
            BY <3>1 DEF IInv, SnapshotsOK
        <3> QED
            BY <3>1, <3>2
    <2>4. ASSUME NEW payload \in Payloads, FreezeCreated(payload)
          PROVE  Keeps
        BY <2>3, <2>4 DEF FreezeCreated
    <2>5. ASSUME NEW payload \in Payloads, NEW canonical \in DocumentHashes,
                 FreezeDocument(payload, canonical)
          PROVE  Keeps
        BY <2>3, <2>5 DEF FreezeDocument
    <2>6. ASSUME NEW requested \in SUBSET Sources, NEW capabilities \in SUBSET Capabilities,
                 Select(requested, capabilities)
          PROVE  Keeps
        BY <2>6 DEF Select
    <2> QED
        BY <2>1, <2>2, <2>4, <2>5, <2>6 DEF Next
<1>2. IInv => DecisionsStand
    BY DEF IInv
<1> QED
    BY <1>1, <1>2, IInvHolds, PTL DEF Spec

==============================================================================
