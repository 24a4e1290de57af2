--------------------------- MODULE RoutingTuning ---------------------------
(***************************************************************************)
(* horizon-relay tune: profile_case records what every local model answers *)
(* under a probe policy that trusts none of them; simulate replays the     *)
(* record under a candidate policy.  Beside it, the loop of the engine     *)
(* routes the same replies under that policy.                              *)
(*                                                                         *)
(* A call that exceeds call_timeout, or the deadline of the run, ends the  *)
(* probe with what it has recorded.                                        *)
(***************************************************************************)
EXTENDS RoutingScore

CONSTANTS
  LocalTiers,    \* the local models, smallest first
  LocalSamples,  \* RoutingPolicy.local_samples
  Answers,       \* samples that a model may give
  Critiques,     \* verdicts that a critic may give
  Disagreements, \* how much two samples may disagree
  Cases,         \* requests: [parts, complexity]
  Deployed,      \* policies of the relay that is tuned
  Candidates     \* parameters that search tries

Fractions  == 0..One
FourDigits == {v \in Fractions : v % Grain = 0}

PolicyType ==
  [weights : [Range(SignalNames) -> Nat], thresholds : [{"local", "mid"} -> Fractions],
   criticMin : SUBSET Fractions, skipAbove : SUBSET Fractions, tokenMax : SUBSET Fractions,
   tokenMinLength : Nat, tokenSignal : {"mean", "hesitation"}, bulkParts : SUBSET Nat, rules : BOOLEAN]

\* What replies and RoutingPolicy.__post_init__ admit; token_stats are rounded when they
\* are made; search and the tune command never set big_goal_parts.
ASSUME TuningAssumption ==
  /\ LocalSamples \in Nat \ {0}
  /\ LocalTiers \in {<<"local">>, <<"mid">>, <<"local", "mid">>}
  /\ Answers \subseteq [confidence : Fractions, needs : BOOLEAN, empty : BOOLEAN,
                       tokens : SUBSET [prob : FourDigits, hesitation : FourDigits, count : Nat]]
  /\ Critiques \subseteq [passed : BOOLEAN, severity : Fractions, skipped : BOOLEAN]
  /\ Disagreements \subseteq Fractions
  /\ \A c \in Cases : c.complexity \in Fractions
  /\ Deployed \subseteq PolicyType
  /\ \A p \in Candidates : /\ p.weights \in [Range(SignalNames) -> Nat]
                            /\ p.thresholds \in [{"local", "mid"} -> Fractions]
                            /\ p.bulkParts = {}

VARIABLES
  case,      \* the profiled request
  policy,    \* the policy of the relay that makes the profile
  params,    \* what simulate is given; tokenSignal is {} if the key is missing
  replies,   \* tier -> judgment: what the model answers whenever a call to it returns
  prof,      \* tier -> what profile_case recorded
  stopped,   \* the probe was cut off
  phase,     \* profiling, replaying, routing, over
  rung,      \* the local model being looked at
  simulated, \* what simulate returned
  routed     \* where the engine found its answer

input == <<case, policy, params>>
vars  == <<input, replies, prof, stopped, phase, rung, simulated, routed>>

\* What judge_locally may produce: it stops sampling at the first sample that asks for a
\* larger model, and then asks no critic.
Judgments ==
  LET Sampled  == {s \in UNION {[1..n -> Answers] : n \in 1..LocalSamples} :
                     /\ \A i \in 1..(Len(s) - 1) : ~s[i].needs
                     /\ Len(s) < LocalSamples => s[Len(s)].needs}
      NoCritic == [passed |-> FALSE, severity |-> One, skipped |-> TRUE]
  IN  [samples : {s \in Sampled : ~AnyNeeds(s)}, disagree : Disagreements, critique : Critiques]
        \cup [samples : {s \in Sampled : AnyNeeds(s)}, disagree : Disagreements, critique : {NoCritic}]

\* The parameters of the deployed policy as the tune command writes them down: the number
\* of parts that makes a big goal and the token statistic are not among them.
Current(p) ==
  [weights |-> p.weights, thresholds |-> p.thresholds, criticMin |-> p.criticMin,
   skipAbove |-> p.skipAbove, tokenMax |-> p.tokenMax, tokenMinLength |-> p.tokenMinLength,
   tokenSignal |-> {}, bulkParts |-> {}]

\* The policy that parameters describe.  What they do not mention stays as deployed.
Described ==
  [weights |-> params.weights, thresholds |-> params.thresholds, criticMin |-> params.criticMin,
   skipAbove |-> params.skipAbove, tokenMax |-> params.tokenMax,
   tokenMinLength |-> params.tokenMinLength, rules |-> TRUE, bulkParts |-> policy.bulkParts,
   tokenSignal |-> IF params.tokenSignal = {} THEN policy.tokenSignal ELSE The(params.tokenSignal)]

Init ==
  /\ case \in Cases
  /\ policy \in Deployed
  /\ params \in {Current(policy)} \cup Candidates
  /\ replies = <<>>
  /\ prof = <<>>
  /\ stopped = FALSE
  /\ phase = "profiling"
  /\ rung = 1
  /\ simulated = "none"
  /\ routed = "none"

\* The smallest of several local models is skipped for a request that looks hard.
Skips(tier, tiers, skipAbove) ==
  tiers \ {tier} # {} /\ tier = LocalTiers[1] /\ \E least \in skipAbove : case.complexity >= least

\* RoutingPolicy.skips.
Skipped(tier, skipAbove) == Skips(tier, Range(LocalTiers), skipAbove)

-----------------------------------------------------------------------------
(* profile_case *)

\* Mutant of Probe: the thresholds are kept.
ProbeKeepsThresholds == [policy EXCEPT !.rules = FALSE, !.skipAbove = {}]

\* rules=(), escalation_threshold=0.0, tier_thresholds={}, skip_small_above=None
Probe ==
  [policy EXCEPT !.rules = FALSE, !.thresholds = [t \in DOMAIN @ |-> 0], !.skipAbove = {}]

\* The record of one tier, made from its local_verdict event.
Recorded(judgment) ==
  [signals      |-> Signals(Probe.tokenSignal, case.complexity, judgment),
   tokenStats   |-> judgment.samples[1].tokens,
   answerTokens |-> AnswerTokens(judgment.samples),
   requested    |-> AnyNeeds(judgment.samples),
   empty        |-> judgment.samples[1].empty,
   critic       |-> judgment.critique]

With(f, tier, value) == [t \in DOMAIN f \cup {tier} |-> IF t = tier THEN value ELSE f[t]]

\* A round of the engine's loop under the probe: the model is judged unless it is skipped,
\* and the next one follows unless it is trusted.
ProfileTier ==
  /\ phase = "profiling"
  /\ \E judgment \in Judgments :
       LET tier    == LocalTiers[rung]
           skipped == Skipped(tier, Probe.skipAbove)
           last    == rung = Len(LocalTiers) \/ (~skipped /\ ~Escalates(Probe, tier, case, judgment))
       IN  /\ replies' = With(replies, tier, judgment)
           /\ prof' = IF skipped THEN prof ELSE With(prof, tier, Recorded(judgment))
           /\ phase' = IF last THEN "replaying" ELSE "profiling"
           /\ rung' = IF last THEN 1 ELSE rung + 1
  /\ UNCHANGED <<input, stopped, simulated, routed>>

\* A call exceeds call_timeout, which judge_locally does not catch, or the run its deadline:
\* run raises a RelayError, which profile_case takes for the expected one.
ProfileStops ==
  /\ phase = "profiling"
  /\ stopped' = TRUE
  /\ phase' = "replaying"
  /\ rung' = 1
  /\ UNCHANGED <<input, replies, prof, simulated, routed>>

-----------------------------------------------------------------------------
(* simulate *)

\* The tier's signals under the token statistic of the parameters.
SignalsOf(tier) ==
  IF params.tokenSignal = {"mean"}
  THEN [prof[tier].signals EXCEPT !.token_uncertainty = {One - t.prob : t \in prof[tier].tokenStats}]
  ELSE prof[tier].signals

\* combine(signals) >= threshold: the weighted mean of the recorded signals, not rounded
\* again and so compared without dividing.
ScoreReaches(weights, signals, threshold) ==
  IF Weight(weights, signals) = 0 THEN threshold <= 0
  ELSE Weighted(weights, signals) >= threshold * Weight(weights, signals)

\* Mutant of SimulateTrusts: short answers are held to the token rule too.
SimulateTrustsNoShortAnswer(tier) ==
  LET t == prof[tier]
  IN  /\ ~Skips(tier, DOMAIN prof, params.skipAbove)
      /\ ~t.requested /\ ~t.empty
      /\ ~CriticRejects(params.criticMin, t.critic)
      /\ ~(tier = "local" /\ \E limit \in params.tokenMax, v \in SignalsOf(tier).token_uncertainty : v >= limit)
      /\ ~ScoreReaches(params.weights, SignalsOf(tier), params.thresholds[tier])

SimulateTrusts(tier) ==
  LET t == prof[tier]
  IN  /\ ~Skips(tier, DOMAIN prof, params.skipAbove)
      /\ ~t.requested /\ ~t.empty
      /\ ~CriticRejects(params.criticMin, t.critic)
      /\ ~TokensTooUncertain(params, tier, SignalsOf(tier).token_uncertainty, t.answerTokens)
      /\ ~ScoreReaches(params.weights, SignalsOf(tier), params.thresholds[tier])

\* The loop over the profiled tiers, after the question whether the goal is a big one.
Simulate ==
  LET trusted == {i \in DOMAIN LocalTiers : LocalTiers[i] \in DOMAIN prof /\ SimulateTrusts(LocalTiers[i])}
  IN  /\ phase = "replaying"
      /\ simulated' = IF BigGoal(params, case.parts) \/ trusted = {} THEN "cloud" ELSE LocalTiers[Min(trusted)]
      /\ phase' = "routing"
      /\ UNCHANGED <<input, replies, prof, stopped, rung, routed>>

-----------------------------------------------------------------------------
\* One round of the loop in RelayEngine.execute, with the same replies; a model that the
\* probe did not reach gives any.
RouteTier ==
  LET tier == LocalTiers[rung]
  IN  /\ phase = "routing"
      /\ \E judgment \in IF tier \in DOMAIN replies THEN {replies[tier]} ELSE Judgments :
           LET trusted == ~Skipped(tier, Described.skipAbove) /\ ~Escalates(Described, tier, case, judgment)
               last    == trusted \/ rung = Len(LocalTiers)
           IN  /\ replies' = With(replies, tier, judgment)
               /\ routed' = IF trusted THEN tier ELSE IF last THEN "cloud" ELSE "none"
               /\ phase' = IF last THEN "over" ELSE "routing"
               /\ rung' = IF last THEN rung ELSE rung + 1
      /\ UNCHANGED <<input, prof, stopped, simulated>>

Over == phase = "over" /\ UNCHANGED vars

Next == ProfileTier \/ ProfileStops \/ Simulate \/ RouteTier \/ Over

Spec == Init /\ [][Next]_vars

-----------------------------------------------------------------------------
\* tuning.py: "every local model answers every test", with escalation forced: no reply,
\* however good, keeps the probe from asking the larger model.  Only a call or a run that
\* takes too long does, and then the profile has the models below the one it stopped at.
EveryModelIsProfiled ==
  phase # "profiling" =>
    /\ ~stopped => DOMAIN prof = Range(LocalTiers)
    /\ \A i \in DOMAIN LocalTiers : LocalTiers[i] \in DOMAIN prof =>
         \A k \in 1..i : LocalTiers[k] \in DOMAIN prof

\* The statistic that the replay uses is the one the policy would use.
SameStatistic ==
  \A t \in DOMAIN prof :
    SignalsOf(t).token_uncertainty
      = Signals(Described.tokenSignal, case.complexity, replies[t]).token_uncertainty

\* The exact score of the reply is within half a ten-thousandth of the threshold.  There
\* the policy, which rounds the score, and the replay, which rounds the signals, may differ.
CloseCall(tier) ==
  LET values == Values(Described.tokenSignal, case.complexity, replies[tier])
      weight == Weight(params.weights, values)
      gap    == Weighted(params.weights, values) - params.thresholds[tier] * weight
  IN  weight > 0 /\ 2 * gap <= Grain * weight /\ -2 * gap <= Grain * weight

\* simulate is a second copy of the routing rules: where it sees the same token statistic,
\* the goal is not a big one and no score is a close call, it returns the tier to which
\* the policy routes.  Of a profile that was cut off this is said only where the policy
\* trusts a model that is in it.
ReplayFollowsPolicy ==
  /\ phase = "over"
  /\ ~BigGoal(policy, case.parts)
  /\ params = Current(policy) \/ SameStatistic
  /\ \A t \in DOMAIN prof : ~CloseCall(t)
  /\ stopped => routed \in DOMAIN prof
  => simulated = routed

\* tuning.py: signals_of gives "the tier's signals under this policy's token statistic".
ReplayUsesTokenStatistic == phase = "replaying" => SameStatistic
=============================================================================
