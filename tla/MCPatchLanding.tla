--------------------------- MODULE MCPatchLanding ----------------------------
(* Two reconcilers, on two home hosts or on one. *)
EXTENDS PatchLanding

CONSTANTS r1, r2, h1, h2, s1, s2

MCReconciler == {r1, r2}
MCSha == {s1, s2}
TwoHosts == [r \in MCReconciler |-> IF r = r1 THEN h1 ELSE h2]
OneHost == [r \in Reconciler |-> h1]
==============================================================================
