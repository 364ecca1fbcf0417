SPECIFICATION Spec
CONSTANTS
  Configs = {1, 2}
  Legs <- SharedLeg
  Samples = 2
  Slaves = {w1, w2}
  None = None
  w1 = w1
  w2 = w2
  Paired = TRUE
  MaxRefinements = 1
  MaxRuns = 2
  AggregationFails = TRUE
  TaskFails = FALSE
  Crashes = FALSE
SYMMETRY Symmetry
INVARIANTS
  TypeOK
  StoredWhole
  NoDuplicateRows
  UnfailedHasAll
  SeedPreserved
