\* Two routes at a time: one provider fails, the other answers.
SPECIFICATION FairSpec
CONSTANTS
  p1 = p1
  p2 = p2
  m1 = m1
  m2 = m2
  m3 = m3
  Caller = {c1, c2}
  Model = {m1, m2, m3}
  Provider = {p1, p2}
  ProviderOf <- Providers
  Rank <- Scores
  Catalogs <- Configurations
  Answers <- Lists
  AnyModel = AnyModel
  NoModel = NoModel
  Healthy = {p2}
  Threshold = 2
  MaxRetries = 1
  MaxUsd = 1
  Estimate = 1
  MaxCost = 2
  MaxChanges = 1
INVARIANTS TypeOK OverrunBounded DiscoveryShared FailoverReachesHealthy
PROPERTIES OpenHolds EveryRouteEnds
