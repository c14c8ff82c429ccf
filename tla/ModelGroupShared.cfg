SPECIFICATION Spec
CONSTANTS
  None = None
  c1 = c1
  c2 = c2
  c3 = c3
  Requests = {r1, r2, r3}
  Candidates = {c1, c3}
  Provider <- MCProvider
  Index <- MCIndex
  Rate <- MCRate
  ProviderOnly = {c3}
  MaxEvents = 0
PROPERTIES
  EveryRequestAnswers
CHECK_DEADLOCK FALSE
