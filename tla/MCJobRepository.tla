---------------------------- MODULE MCJobRepository ----------------------------
(* What the TLC runs of JobRepository add to it. *)
EXTENDS JobRepository, TLC

\* `result' is written by every call and read by none, so two states that
\* differ in it alone behave alike.
View == <<table, requests, waiting, acked>>

\* Callers, owners and identifier values are interchangeable.
Symmetry == {p @@ q @@ r : p \in Permutations(Callers),
                           q \in Permutations(Users),
                           r \in Permutations(LinkIds)}
=============================================================================
