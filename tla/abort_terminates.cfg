SPECIFICATION Spec
CONSTANTS
  Configs = {1, 2}
  Legs <- NoLegs
  Samples = 1
  Slaves = {w1}
  None = None
  w1 = w1
  Paired = TRUE
  MaxRefinements = 0
  MaxRuns = 1
  AggregationFails = FALSE
  TaskFails = TRUE
  Crashes = FALSE
PROPERTY
  AbortIsFinal
