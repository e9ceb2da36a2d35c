SPECIFICATION MCSpec
CONSTANTS
  r1 = r1
  r2 = r2
  p1 = p1
  p2 = p2
  k1 = k1
  k2 = k2
  NoPage = NoPage
  NoCall = NoCall
  Reviews <- TwoReviews
  Pages <- TwoPages
  Calls <- TwoCalls
  ReviewOf <- AllOfFirst
  DeliveryPage = p1
  MaxCompletions = 1
  LeaseTicks = 1
  ConfirmTicks = 1
  MaxCrashes = 1
  MaxFaults = 1
INVARIANTS
  AnswerTruthful
  DecisionIsProved
  NoVerdictMissed
CHECK_DEADLOCK FALSE
