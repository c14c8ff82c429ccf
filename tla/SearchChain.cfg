SPECIFICATION Spec
CONSTANTS
  None = None
  Requests = {r1, r2, r3}
  N = 2
  Tavily = {0}
  MaxEvents = 1
INVARIANTS
  ChainInv
PROPERTIES
  FailuresAreSettled
  CurrentIsNotCooling
  CallsAreAllowed
  EverySearchEnds
CHECK_DEADLOCK FALSE
