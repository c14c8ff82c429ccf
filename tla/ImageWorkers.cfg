SPECIFICATION Spec
CONSTANTS
  Runs = {r1, r2, r3}
  Workers = {w1, w2}
  Idle = Idle
  Exited = Exited
  Stop = Stop
INVARIANTS
  PermitInv
  ClosedPoolIsCancelled
PROPERTIES
  WaitersLeaveClosedPool
  ThreadsLeaveClosedPool
  EveryRunEnds
CHECK_DEADLOCK FALSE
