SPECIFICATION SchedSpec
CONSTANTS
  Workers = {w1, w2}
  Items = {i1, i2, i3, i4}
  Kinds = {"cpu", "gpu"}
  ShareDivisor = 1
  w1 = w1
  w2 = w2
  i1 = i1
  i2 = i2
  i3 = i3
  i4 = i4
SYMMETRY Symmetry
INVARIANTS
  SchedTypeOK
  CountersAgree
  PlanSound
  ItemsConserved
  OwnChecksNeverFire
