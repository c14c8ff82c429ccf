SPECIFICATION Spec
CONSTANTS
  None = None
  Admins = {a1}
  Recorders = {u1, g1}
  Refreshers = {f1}
  Selecting = {a1, u1, f1}
  Tools = {t1}
  Syncing = {t1}
  Retrying = {g1}
  Attempts = 2
  MaxCrashes = 1
INVARIANTS
  StoreInv
  RefusalLeavesNoTrace
  
PROPERTIES
  ImplementsAtomicConfig
  SuccessIsEverywhere
  EveryWriterEnds
CHECK_DEADLOCK FALSE
