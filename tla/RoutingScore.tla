---------------------------- MODULE RoutingScore ----------------------------
(***************************************************************************)
(* RoutingPolicy.decide: whether the answer of a local model is trusted.   *)
(*                                                                         *)
(* Fractions are integers in units of 1/One, of which Grain are one ten-   *)
(* thousandth, the last digit that rounding keeps.  Means are taken to the *)
(* unit.  A value that may be None is a set with at most one member.       *)
(*                                                                         *)
(* A judgment is what one local model and its critic gave:                 *)
(*   samples   sequence of [confidence, needs, empty, tokens], where       *)
(*             tokens is {} or {[prob, hesitation, count]}                 *)
(*   disagree  1 - mean agreement between the answers of the samples       *)
(*   critique  [passed, severity, skipped]                                 *)
(***************************************************************************)
EXTENDS Integers, Sequences, FiniteSets, FiniteSetsExt

CONSTANT Grain  \* units in a ten-thousandth

ASSUME GrainAssumption == Grain \in Nat \ {0}

One == 10000 * Grain

SignalNames == <<"self_uncertainty", "token_uncertainty", "inconsistency",
                 "critic_risk", "task_complexity", "explicit_escalation">>

The(option) == CHOOSE v \in option : TRUE

Total(s) ==
  LET total[n \in 0..Len(s)] == IF n = 0 THEN 0 ELSE total[n - 1] + s[n]
  IN  total[Len(s)]

\* round(num / den, 4): a tie goes to the even digit.
Rounded(num, den) ==
  LET half   == den * Grain
      digits == (2 * num + half) \div (2 * half)
      tie    == (2 * num + half) % (2 * half) = 0
  IN  Grain * (IF tie /\ digits % 2 = 1 THEN digits - 1 ELSE digits)

Clamp(v) == IF v < 0 THEN 0 ELSE IF v > One THEN One ELSE v

AnyNeeds(samples) == \E i \in DOMAIN samples : samples[i].needs

\* The tokens of the longest answer; 0 if the model returned no log-probabilities.
AnswerTokens(samples) ==
  Max({0} \cup UNION {{t.count : t \in samples[i].tokens} : i \in DOMAIN samples})

\* Mean of the statistic over the samples that have one.
TokenUncertainty(tokenSignal, samples) ==
  LET known  == {i \in DOMAIN samples : samples[i].tokens # {}}
      stat(t) == IF tokenSignal = "hesitation" THEN t.hesitation ELSE t.prob
      mean   == Total([i \in 1..Len(samples) |-> IF i \in known THEN stat(The(samples[i].tokens)) ELSE 0])
                  \div Cardinality(known)
  IN  IF known = {} THEN {} ELSE {Clamp(IF tokenSignal = "hesitation" THEN mean ELSE One - mean)}

\* What policy.signals computes, before rounding.
Values(tokenSignal, complexity, judgment) ==
  LET samples == judgment.samples
      mean    == Total([i \in 1..Len(samples) |-> samples[i].confidence]) \div Len(samples)
  IN  [self_uncertainty    |-> {One - mean},
       token_uncertainty   |-> TokenUncertainty(tokenSignal, samples),
       inconsistency       |-> {IF Len(samples) > 1 THEN judgment.disagree ELSE 0},
       critic_risk         |-> {judgment.critique.severity},
       task_complexity     |-> {complexity},
       explicit_escalation |-> {IF AnyNeeds(samples) THEN One ELSE 0}]

\* The signals as the rules see them and as they are recorded.
Signals(tokenSignal, complexity, judgment) ==
  LET values == Values(tokenSignal, complexity, judgment)
  IN  [k \in Range(SignalNames) |-> {Rounded(v, 1) : v \in values[k]}]

\* The weight of the values that are available, and their weighted sum.
Weight(weights, values) ==
  Total([i \in 1..Len(SignalNames) |-> IF values[SignalNames[i]] = {} THEN 0 ELSE weights[SignalNames[i]]])

Weighted(weights, values) ==
  Total([i \in 1..Len(SignalNames) |->
           IF values[SignalNames[i]] = {} THEN 0 ELSE weights[SignalNames[i]] * The(values[SignalNames[i]])])

\* combined_score: the weighted mean of what is available, clamped and rounded; 0 and One are
\* multiples of Grain, so that the order of the two does not matter.
CombinedScore(weights, values) ==
  IF Weight(weights, values) = 0 THEN 0 ELSE Clamp(Rounded(Weighted(weights, values), Weight(weights, values)))

CriticRejects(criticMin, critique) ==
  \E least \in criticMin : ~critique.skipped /\ ~critique.passed /\ critique.severity >= least

\* token_uncertainty_at_least: on the smallest model, for answers that are long enough.
TokensTooUncertain(policy, tier, uncertainty, length) ==
  /\ tier = "local"
  /\ \E limit \in policy.tokenMax, value \in uncertainty : value >= limit
  /\ length >= policy.tokenMinLength

BigGoal(policy, parts) == \E least \in policy.bulkParts : parts >= least

\* The rules only ever force an escalation, so their order does not matter.  A probe has
\* no rules (policy.rules = FALSE).
Forced(policy, tier, signals, judgment) ==
  /\ policy.rules
  /\ \/ AnyNeeds(judgment.samples)
     \/ judgment.samples[1].empty
     \/ CriticRejects(policy.criticMin, judgment.critique)
     \/ TokensTooUncertain(policy, tier, signals.token_uncertainty, AnswerTokens(judgment.samples))

Escalates(policy, tier, case, judgment) ==
  \/ BigGoal(policy, case.parts)
  \/ Forced(policy, tier, Signals(policy.tokenSignal, case.complexity, judgment), judgment)
  \/ CombinedScore(policy.weights, Values(policy.tokenSignal, case.complexity, judgment)) >= policy.thresholds[tier]
=============================================================================
