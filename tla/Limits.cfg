CONSTANTS
  k1 = k1
  k2 = k2
  k3 = k3
  ann = ann
  bob = bob
  here = here
  there = there
  r1 = r1
  r2 = r2
  r3 = r3
  Calls <- ThreeCalls
  Estimate <- Estimates
  MaxPeriod = 2
  Limit = 4
  BlockAtLimit = TRUE
  Costs = {0, 1}
  Admins <- TwoAdmins
  Requests <- ThreeRequests
  Replicas <- TwoReplicas
  Day = 2
  TwoDays = 4
  Month = 6
  Ttl = 1
  StaleTtl = 1
  TokenLife = 3
  Margin = 1
  FetchTime = 1
  MaxTime = 7
  Scenarios <- AllScenarios
  Executions <- ThreeExecutions
  Processes <- TwoProcesses
  MaxConcurrent = 1
  AcquireTimeout = 1
  LeaseTtl = 2
  MaxAttempts = 1
  MaxDelay = 2
  FailureThreshold = 2
  SuccessThreshold = 2
  OpenTime = 1
  MaxClock = 3
  Situations <- AllSituations
SYMMETRY Interchangeable
SPECIFICATION LimitsSpec
INVARIANTS
  LedgerTypeOK
  CountersExact
  NeverOverstated
  CountersWithinLimit
  StoredAsDecided
  CachedIsRecent
  OneKeyPerPeriod
  SlotsWithinLimit
PROPERTIES
  PromiseKept
  LimitedOnlyWhenFull
  CircuitHolds
