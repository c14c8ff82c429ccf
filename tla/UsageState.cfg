SPECIFICATION UsageSpec
CONSTANTS
  Callers = {g1, g2, g3}
  UsageKeys = {k1, k2, k3}
  UsageCapacity = 2
  MaxCalls = 3
INVARIANTS
  UsageInv
PROPERTIES
  EveryGetReturns
CHECK_DEADLOCK FALSE
