---------------------------- MODULE MCArtifactStore ----------------------------
(* Two of three contents collide under one digest. *)
EXTENDS ArtifactStore, TLC

MCContents == {"plan", "plan_collision", "report"}
MCDigestOf == "plan" :> "d1" @@ "plan_collision" :> "d1" @@ "report" :> "d2"

Symmetry == Permutations(Callers)
=============================================================================
