SPECIFICATION Spec
CONSTANTS
  None = None
  c1 = c1
  c2 = c2
  c3 = c3
  Requests = {r1, r2}
  Candidates = {c1, c2, c3}
  Provider <- MCProvider
  Index <- MCIndex
  Rate <- MCRate
  ProviderOnly = {}
  MaxEvents = 1
INVARIANTS
  RingInv
PROPERTIES
  FailoverAvoidsCooling
  OnlyCurrentIsCooled
  ArrivalsAreServed
CHECK_DEADLOCK FALSE
