CONSTANTS
  Threads = {t1, t2}
  NumJobs = 3
  MaximumUses = 2
  Initializer = TRUE
  InitMayRaise = TRUE
  Timeout = TRUE
  MaxCrash = 1
SPECIFICATION Spec
CHECK_DEADLOCK FALSE
INVARIANTS
  ResultIsOwn
  NothingRunsOn
  RecycledInTime
PROPERTIES
  EveryJobEnds
