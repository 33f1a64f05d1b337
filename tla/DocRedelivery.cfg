CONSTANTS
  e1 = e1
  e2 = e2
  r1 = r1
  r2 = r2
  Events <- TwoEvents
  Relays <- TwoRelays
  BatchSize = 2
  MaxAttempts = 2
  MaxLeases = 3
  MaxCrashes = 1
  FaultSets <- AllFaultSets
  c1 = c1
  c2 = c2
  Consumers <- TwoConsumers
  Subscriptions <- AllSubscriptions
  ReadCount = 2
  MaxRestarts = 1
  Environments <- OnlyRefusing
SPECIFICATION MessagingSpec
PROPERTIES
  FailedReturns
