CONSTANTS
  Grain = 10
  LocalTiers <- TwoLocalTiers
  LocalSamples = 2
  Answers <- SomeAnswers
  Critiques <- SomeCritiques
  Disagreements <- SomeDisagreements
  Cases <- SomeCases
  Deployed <- SomePolicies
  Candidates <- SomeCandidates
SPECIFICATION Spec
INVARIANT
  ReplayUsesTokenStatistic
