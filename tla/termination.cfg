SPECIFICATION FairSpec
CONSTANTS
  Workers = {w1, w2}
  Items = {i1}
  Kinds = {"cpu"}
  ShareDivisor = 1
  NumTasks = 2
  Checkpointed = {1}
  CommitFailed = FALSE
  BackendThrows = TRUE
  MasterThrows = TRUE
  SlaveSkips = FALSE
  w1 = w1
  w2 = w2
  i1 = i1
PROPERTIES
  Terminates
