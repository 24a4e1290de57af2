------------------------------ MODULE MCGraph ------------------------------
(* Model-checking instances of RelayGraph. *)
EXTENDS MCRelay, RelayGraph

\* A hard request that ends in a plan: the small model is skipped.
HardPlanRequest == {Request(FALSE, TRUE, TRUE, FALSE)}

\* That request, and every request that the cloud answers without a plan.
RoutesAndPlan == HardPlanRequest \cup {r \in RequestType : ~r.plans}
=============================================================================
