SPECIFICATION Spec
CONSTANTS
  Configs = {1, 2}
  Legs <- SharedLeg
  Samples = 1
  Slaves = {w1}
  None = None
  w1 = w1
  Paired = FALSE
  MaxRefinements = 0
  MaxRuns = 1
  AggregationFails = FALSE
  TaskFails = FALSE
  Crashes = FALSE
INVARIANT
  LegsPresent
