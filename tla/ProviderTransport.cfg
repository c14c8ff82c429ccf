SPECIFICATION Spec
CONSTANTS
  None = None
  Requests = {r1, r2}
  NUrls = 2
  NCreds = 2
  Fixed <- NotFixed
  AutoRotate = TRUE
  OptIn = {r1}
  NoFailover = {}
  Streams = {r1, r2}
  Retries = 1
  OptInRetries = 1
  Threshold = 2
  Faults = {"502", "503", "errorPage"}
  MaxFaults = 4
  MaxEvents = 1
INVARIANTS
  TransportInv
  NobodyWaitsInACircle
PROPERTIES
  UrlCoolsAfterBudget
  CredentialCoolsForCause
  RotationLeavesWhatFailed
  EveryRequestEnds
CHECK_DEADLOCK FALSE
