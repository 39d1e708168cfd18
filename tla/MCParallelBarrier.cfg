SPECIFICATION Spec
CONSTANTS
  num_task = 3
  Rounds = 3
  MayFail = {0, 1}
INVARIANTS
  Synchronised
PROPERTIES
  BarrierReturns
CHECK_DEADLOCK FALSE
