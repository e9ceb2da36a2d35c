SPECIFICATION AutoSpec
CONSTANTS
  MaxIterations = 2
  MaxDeliveryAttempts = 1
  MaxCollectAttempts = 2
  MaxInfraRetries = 1
  LegacyReviews = {1}
  MaxCrashes = 1
  MaxFaults = 1
  MaxFailures = 1
INVARIANTS
  NoSecondLaunch
PROPERTIES
  ImplementsLoop
  LoopMovesOn
CHECK_DEADLOCK FALSE
