CONSTANTS
  m1 = m1
  m2 = m2
  m3 = m3
  pA = pA
  pB = pB
  Requests = {r1, r2}
  Models <- ThreeModels
  Providers <- TwoProviders
  ProviderOf <- ProviderOfModel
  CandidateLists <- SomeCandidateLists
  MaxRetries = 1
  Failures <- SomeFailures
SPECIFICATION FairSpec
INVARIANTS TypeOK RetriesThenFallsBack ResultMatchesLog MetricsAddUp
PROPERTY EveryRequestAnswered
