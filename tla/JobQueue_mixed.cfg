SPECIFICATION FairSpec
CONSTANTS
  e1 = e1  o1 = o1  o2 = o2
  w1 = w1  w2 = w2  w3 = w3
  d = d  p = p
  None = None
  Jobs = {d, p}
  JobType <- DecisionAndAnchor
  Executors = {e1}
  Orchestrators = {o1, o2}
  Workers = {w1, w2, w3}
  WorkerMaps <- OneOrTwoIsolates
  MaxAttempts = 2
  ClaimLimit = 2
  MaxRevivals = 1
  ManualRuns = TRUE
INVARIANTS TypeOK LockDiscipline LatestClaimSettles RetryBudget
PROPERTIES SucceededIsFinal ImplementsLeaseQueue EveryJobSettles
CHECK_DEADLOCK FALSE
