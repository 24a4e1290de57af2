-------------------------- MODULE MCRoutingTuning --------------------------
(* Model-checking instances of RoutingTuning. *)
EXTENDS RoutingTuning

TwoLocalTiers == <<"local", "mid">>

Thousandths(n) == n * 10 * Grain

Tokens(prob, hesitation, count) ==
  {[prob |-> Thousandths(prob), hesitation |-> Thousandths(hesitation), count |-> count]}
Sample(confidence, tokens) == [confidence |-> confidence, needs |-> FALSE, empty |-> FALSE, tokens |-> tokens]

\* Sure, hesitant at length, hesitant in a word, unsure without log-probabilities, empty,
\* and asking for a larger model.  The unsure one, disagreeing with itself, has a score
\* just below 0.3 that is rounded to 0.3.
SomeAnswers ==
  {Sample(Thousandths(950), Tokens(970, 0, 9)), Sample(Thousandths(950), Tokens(850, 100, 9)),
   Sample(Thousandths(900), Tokens(850, 500, 2)), Sample(Thousandths(480) + Grain - 1, {}),
   [Sample(Thousandths(900), {}) EXCEPT !.empty = TRUE], [Sample(0, {}) EXCEPT !.needs = TRUE]}

SomeDisagreements == {0, Thousandths(600)}

Critique(passed, severity) == [passed |-> passed, severity |-> Thousandths(severity), skipped |-> FALSE]
SomeCritiques == {Critique(TRUE, 0), Critique(FALSE, 400), Critique(FALSE, 500)}

Case(parts, complexity) == [parts |-> parts, complexity |-> Thousandths(complexity)]
SomeCases == {Case(1, 50), Case(1, 400), Case(4, 50)}

DefaultWeights ==
  [self_uncertainty |-> 25, token_uncertainty |-> 30, inconsistency |-> 25,
   critic_risk |-> 25, task_complexity |-> 10, explicit_escalation |-> 10]

Policy(local, mid, criticMin, skipAbove) ==
  [weights |-> DefaultWeights, thresholds |-> [local |-> Thousandths(local), mid |-> Thousandths(mid)],
   criticMin |-> {Thousandths(v) : v \in criticMin}, skipAbove |-> {Thousandths(v) : v \in skipAbove},
   tokenMax |-> {Thousandths(120)}, tokenMinLength |-> 3, tokenSignal |-> "mean",
   bulkParts |-> {4}, rules |-> TRUE]

\* The defaults, and a policy that skips the small model and has no critic rule.
SomePolicies == {Policy(300, 250, {500}, {}), Policy(200, 400, {}, {400})}

\* Members of search's grid, for both token statistics.
SomeCandidates ==
  {[Current(Policy(300, 250, {500}, {})) EXCEPT !.tokenMinLength = 1, !.tokenSignal = {s}] :
     s \in {"mean", "hesitation"}}
=============================================================================
