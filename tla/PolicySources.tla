------------------------------ MODULE PolicySources ------------------------------
(* The identities that documents, sources and references share.             *)

CONSTANTS
    Keys,           \* <<document_id, document_version>> pairs
    SourceTypes,
    None

ASSUME PolicySourcesAssumption == None \notin SourceTypes

DocumentIds == {key[1] : key \in Keys}

==============================================================================
