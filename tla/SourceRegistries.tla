---------------------------- MODULE SourceRegistries ----------------------------
(***************************************************************************)
(* PolicySourceRegistry, ControlRegistry and SourceControlMappingRegistry  *)
(* (packages/governance/sources, controls and mappings): registered values *)
(* that are never removed, and what a later one may say of an earlier one. *)
(*                                                                         *)
(* A call that raises changes nothing and is no step.                      *)
(***************************************************************************)
EXTENDS PolicySources

CONSTANTS
    Controls,        \* control keys
    Targets,         \* resource types
    References       \* Source References: [key, section, content_hash]

ASSUME ReferencesAssumption == \A ref \in References : ref.key \in Keys

VARIABLES
    controls,   \* the registered control keys
    sources,    \* the source type registered for each document version, or None
    mappings    \* the <<reference, resource type, control>> triples

registryVars == <<controls, sources, mappings>>

RegistryInit ==
    /\ controls = {}
    /\ sources = [key \in Keys |-> None]
    /\ mappings = {}

AddControl(control) ==
    /\ control \notin controls
    /\ controls' = controls \cup {control}
    /\ UNCHANGED <<sources, mappings>>

\* A new version, and of the type of every other version of the source.
MayHaveType(key, type) ==
    /\ sources[key] = None
    /\ \A other \in Keys : other[1] = key[1] => sources[other] \in {None, type}

AddSource(key, type) ==
    /\ MayHaveType(key, type)
    /\ sources' = [sources EXCEPT ![key] = type]
    /\ UNCHANGED <<controls, mappings>>

IsMappable(ref, control) == control \in controls /\ sources[ref.key] # None

AddMapping(ref, target, control) ==
    /\ IsMappable(ref, control)
    /\ <<ref, target, control>> \notin mappings
    /\ mappings' = mappings \cup {<<ref, target, control>>}
    /\ UNCHANGED <<controls, sources>>

RegistryNext ==
    \/ \E control \in Controls : AddControl(control)
    \/ \E key \in Keys, type \in SourceTypes : AddSource(key, type)
    \/ \E ref \in References, target \in Targets, control \in Controls :
          AddMapping(ref, target, control)

\* allows_reference: mapped for some resource type and control.
AllowsReference(ref) == \E mapping \in mappings : mapping[1] = ref

-----------------------------------------------------------------------------
(* Properties.                                                              *)

RegistryTypeOK ==
    /\ controls \subseteq Controls
    /\ sources \in [Keys -> SourceTypes \cup {None}]
    /\ mappings \subseteq References \X Targets \X Controls

\* All versions of one policy source keep one source type, in whatever order
\* they are registered: a Rule's source type does not depend on the version.
SourceTypesAgree ==
    \A key, other \in Keys :
        key[1] = other[1] /\ sources[key] # None /\ sources[other] # None
            => sources[key] = sources[other]

\* A mapping never leads nowhere: source_type of a mapped reference cannot raise.
MappingsResolve ==
    \A mapping \in mappings :
        mapping[3] \in controls /\ sources[mapping[1].key] # None

==============================================================================
