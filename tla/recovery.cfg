SPECIFICATION Spec
CONSTANTS
  Configs = {1, 2}
  Legs <- SharedLeg
  Samples = 2
  Slaves = {w1}
  None = None
  w1 = w1
  Paired = TRUE
  MaxRefinements = 0
  MaxRuns = 2
  AggregationFails = TRUE
  TaskFails = TRUE
  Crashes = TRUE
INVARIANTS
  MissingExact
  PairAgrees
  UnfailedHasAll
  SeedPreserved
