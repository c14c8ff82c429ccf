SPECIFICATION Spec
CONSTANTS
  Tasks = {t1, t2, t3}
  None = None
  Nobody = Nobody
  Vacant = Vacant
  MaxRequests = 4
  MaxAttempts = 1
INVARIANTS
  GateInv
PROPERTIES
  FailuresAreHandedOn
  EveryRequestLeaves
  ImplementsLeadership
CHECK_DEADLOCK FALSE
