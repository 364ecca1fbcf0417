SPECIFICATION FairSpec
CONSTANTS
  p1 = p1
  p2 = p2
  g0 = g0
  g1 = g1
  g2 = g2
  Procs = {p1, p2}
  Groups = {g0, g1}
  Stored = {g0}
  None = None
  Attempts = 2
  Commands <- OneGroup
  MaxCommands = 3
  MaxTime = 1
  MaxCrashes = 1
  Readers = TRUE
INVARIANTS
  TypeOK
  ExclusiveAccess
  NoLockLeftBehind
  ListingAgreesUnlessTorn
  NoLostUpdate
  RowsDocumented
  OutputInPlace
  RefusedOnlyAfterTimeout
PROPERTIES
  WriterNeverForgotten
  Settles
