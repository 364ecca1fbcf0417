SPECIFICATION Spec
CONSTANTS
  Tasks <- MCTasks
  Kind <- MCKind
  Parents <- MCParents
  Paired <- MCPaired
  Missing = "missing"
  Tags <- MCTags
  Stored <- MCStored
  MaxAsked = 2
CHECK_DEADLOCK FALSE
INVARIANTS
  TypeOK
  QueueAsAsked
  PairComputedOnce
  DependenciesReady
