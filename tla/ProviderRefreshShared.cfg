SPECIFICATION Spec
CONSTANTS
  None = None
  Requests = {r1, r2}
  Tasks = {1, 2, 3}
  Loops = {1, 2}
  Variant <- TwoSchedules
  MaxTime = 1
  MaxReloads = 1
INVARIANT
  OneRefresh
CHECK_DEADLOCK FALSE
