SPECIFICATION Spec
CONSTANTS
  Workers = {w1, w2}
  Items = {i1, i2, i3}
  Kinds = {"gpu"}
  ShareDivisor = 1
  NumTasks = 2
  Checkpointed = {1}
  CommitFailed = TRUE
  BackendThrows = FALSE
  MasterThrows = TRUE
  SlaveSkips = TRUE
  w1 = w1
  w2 = w2
  i1 = i1
  i2 = i2
  i3 = i3
SYMMETRY Symmetry
CHECK_DEADLOCK FALSE
INVARIANTS
  TypeOK
  OneCopy
  NothingUnread
  OnlyExpectedMessages
  NoSchedulingError
  NoStaleMessage
  CheckpointOfOwnTask
  JoinedBeforeWork
PROPERTIES
  Contract
