------------------------------ MODULE MCRelay ------------------------------
(* Model-checking instances of RelayEngine. *)
EXTENDS RelayProperties, TLC

CONSTANTS a, b, c

Request(extract, hard, plans, bulk) ==
  [extract |-> extract, hard |-> hard, plans |-> plans, bulk |-> bulk]

\* The plain request that ends in a plan; with the same for a big goal, and the requests
\* that the cloud answers without a plan.
PlanRequests == {Request(FALSE, FALSE, TRUE, FALSE)}
MostRequests == {Request(FALSE, FALSE, TRUE, bulk) : bulk \in BOOLEAN} \cup {r \in RequestType : ~r.plans}

\* A plan over ids; what it says of other ids does not matter.
PlanOf(ids, deps, tier) ==
  [ids  |-> ids,
   deps |-> [t \in Tasks |-> IF t \in ids THEN deps[t] ELSE {}],
   tier |-> [t \in Tasks |-> IF t \in ids THEN tier[t] ELSE "local"]]

\* Every graph: empty, with unknown, self and cyclic dependencies; for local models, or one
\* of the tasks for the cloud.
AllGraphs ==
  {PlanOf(ids, deps, tier) : ids \in SUBSET Tasks, deps \in [Tasks -> SUBSET Tasks],
                             tier \in {[t \in Tasks |-> "local"], [t \in Tasks |-> IF t = a THEN "local" ELSE "cloud"]}}

\* One local task, one that needs the other, two independent ones, and a cycle.
FewPlans ==
  {PlanOf({a}, [t \in Tasks |-> {}], [t \in Tasks |-> "local"]),
   PlanOf({a, b}, a :> {} @@ b :> {a}, [t \in Tasks |-> "local"]),
   PlanOf({a, b}, a :> {} @@ b :> {}, [t \in Tasks |-> "local"]),
   PlanOf({a, b}, a :> {b} @@ b :> {a}, [t \in Tasks |-> "local"])}

\* Three tasks: all at once, a chain, a fork, a join; and a cycle, to be refused.
Edges(x, y, z) == a :> x @@ b :> y @@ c :> z
Shapes3 == {Edges({}, {}, {}), Edges({}, {a}, {b}), Edges({}, {a}, {a}),
            Edges({}, {}, {a, b}), Edges({}, {c}, {b})}
Tiers3  == {a :> "local" @@ b :> "local" @@ c :> "local",
            a :> "local" @@ b :> "cloud" @@ c :> "cloud"}
Plans3  == {PlanOf(Tasks, deps, tier) : deps \in Shapes3, tier \in Tiers3}
=============================================================================
