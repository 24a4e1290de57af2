---------------------------- MODULE MCPlanParse ----------------------------
(* Model-checking instance of PlanParse. *)
EXTENDS PlanParse

CONSTANTS a, b, c, doc, gone

MCKeys == {a, b, c, doc, gone}

\* Well-formed rows over every set of dependencies, fed from a source.
PlainRows ==
  [id : Tasks, tier : {"local"}, deps : SUBSET Tasks, refs : {{<<"sources", doc>>}}, wellFormed : {TRUE}]

\* Rows with every kind of reference, an unknown tier, bad fields, no input.
OddRows ==
  [id : {a, b}, tier : {"cloud", "unknown"}, deps : {{}, {a}, {b}, {c}},
   refs : {{}, {<<"sources", doc>>}, {<<"sources", gone>>}, {<<"results", a>>}, {<<"other", doc>>}},
   wellFormed : BOOLEAN]

Tuples(S, n) == [1..n -> S]

\* Every graph over three tasks, every pair of odd rows, and replies that are too
\* short or too long.
MCReplies ==
  {<<>>} \cup Tuples(OddRows, 1) \cup Tuples(OddRows, 2) \cup Tuples(PlainRows, 2)
    \cup {s \in Tuples(PlainRows, 3) : s[1].id = a /\ s[2].id \in {a, b}}
    \cup {[i \in 1..4 |-> [id |-> a, tier |-> "local", deps |-> {}, refs |-> {<<"sources", doc>>},
                           wellFormed |-> TRUE]]}
=============================================================================
