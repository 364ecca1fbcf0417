SPECIFICATION FairSpec
CONSTANTS
  p1 = p1
  p2 = p2
  g0 = g0
  g1 = g1
  g2 = g2
  Procs = {p1}
  Groups = {g0, g2}
  Stored = {g0, g2}
  None = None
  Attempts = 2
  Commands <- TwoGroups
  MaxCommands = 1
  MaxTime = 0
  MaxCrashes = 0
  Readers = FALSE
INVARIANT ListingAgrees
