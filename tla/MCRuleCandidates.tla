--------------------------- MODULE MCRuleCandidates ---------------------------
(* Candidates from two sections of one customer source. *)
EXTENDS RuleCandidates

MCPrefix == [r \in RuleIds |-> "CUSTOMER"]
MCSourceTypeOf == [ref \in References |-> "CUSTOMER"]
MCMapped == References \X Scopes

Symmetry == Permutations(CandidateIds)
=============================================================================
