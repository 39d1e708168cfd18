SPECIFICATION Spec
CONSTANTS
  Task = {t1, t2}
  NoTask = NoTask
  kRingSize = 2
INVARIANTS
  PendingInRange
  SleepIsSafe
PROPERTIES
  WorkerStops
  ImplementsFifo
