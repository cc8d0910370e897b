----------------------------- MODULE MCGlobalSources -----------------------------
(* One control set, and what can go wrong with it: other evidence, another  *)
(* meaning, evidence in another order, a control that is excluded as well,  *)
(* selected without evidence, or unaccounted for, another reference or      *)
(* date, collected at another time.                                         *)
EXTENDS GlobalSources

CONSTANTS c1, c2, c3

Evidence(control, meaning, detail) ==
    [control_id |-> control, meaning |-> meaning, detail |-> detail]

Official ==
    [source_id |-> "fsbp", source_version |-> 1, framework |-> "1.0",
     snapshot_date |-> "jan", collected_at |-> "feb", url |-> "u1",
     mapping_version |-> 1, selected |-> {c1, c2}, excluded |-> c3 :> "later",
     observed |-> {c1, c2, c3},
     evidence |-> <<Evidence(c1, "m1", "d1"), Evidence(c2, "m1", "d1")>>]

MCPayloads ==
    {Official,
     [Official EXCEPT !.evidence[1].detail = "d2"],
     [Official EXCEPT !.evidence[1].meaning = "m2"],
     [Official EXCEPT !.evidence = Reverse(@)],
     [Official EXCEPT !.excluded = c3 :> "later" @@ c2 :> "never"],
     [Official EXCEPT !.selected = {c1, c2, c3}, !.excluded = <<>>],
     [Official EXCEPT !.observed = {c1, c2}],
     [Official EXCEPT !.url = "u2"],
     [Official EXCEPT !.snapshot_date = "feb"],
     [Official EXCEPT !.collected_at = "mar"],
     [Official EXCEPT !.source_version = 2]}
==============================================================================
