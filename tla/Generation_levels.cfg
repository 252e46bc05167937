SPECIFICATION GenSpec
CONSTANTS
  Order <- TwoInOrder
  DefaultModel <- Defaults
  Plans <- AllPlans
  MaxJudgeRegens = 1
  MaxSolveRegens = 1
  MaxRuns = 2
  NoModel = NoModel
  Nobody = Nobody
  Calls = {"c1", "c2"}
  Asks <- AllAsks
  Books <- AllBooks
  Permits = 1
  MaxRetries = 1
  PageCount = 4
  FrontPages = 1
  BackPages = 1
  Margin = 1
  MaxPages = 3
  Bystander <- Keyed
INVARIANT ShippedWhole
INVARIANT ShippedAsReviewed
INVARIANT ProviderIsolation
INVARIANT NothingOutlivesItsCall
INVARIANT ChecksDoNoHarm
INVARIANT EveryCallIsBooked
PROPERTY GenerationEnds
CHECK_DEADLOCK FALSE
