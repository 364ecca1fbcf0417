SPECIFICATION FairSpec
CONSTANTS
  Workers = {w1, w2}
  Items = {i1}
  Kinds = {"cpu"}
  ShareDivisor = 1
  NumTasks = 1
  Checkpointed = {1}
  CommitFailed = TRUE
  BackendThrows = FALSE
  MasterThrows = FALSE
  SlaveSkips = TRUE
  w1 = w1
  w2 = w2
  i1 = i1
CHECK_DEADLOCK FALSE
PROPERTIES
  Terminates
