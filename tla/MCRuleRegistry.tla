---------------------------- MODULE MCRuleRegistry ----------------------------
(* One customer rule id, two versions, two references into one source. *)
EXTENDS RuleRegistry

MCPrefix == [r \in RuleIds |-> "CUSTOMER"]
MCSourceTypeOf == [ref \in References |-> "CUSTOMER"]
MCMapped == References \X Scopes
=============================================================================
