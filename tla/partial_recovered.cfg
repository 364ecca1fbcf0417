SPECIFICATION Spec
CONSTANTS
  Configs = {1, 2}
  Legs <- NoLegs
  Samples = 2
  Slaves = {w1}
  None = None
  w1 = w1
  Paired = FALSE
  MaxRefinements = 1
  MaxRuns = 1
  AggregationFails = FALSE
  TaskFails = FALSE
  Crashes = TRUE
INVARIANT
  StoredWhole
