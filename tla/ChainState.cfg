SPECIFICATION Spec
CONSTANTS
  Keys = {k1, k2, k3}
  Capacity = 2
  Cooldown = 2
  MaxTime = 4
  MaxMarks = 3
INVARIANTS
  MapInv
  WithinCapacity
PROPERTIES
  EvictsTheNextToEnd
  SamplesAreNewerThanFailures
CHECK_DEADLOCK FALSE
