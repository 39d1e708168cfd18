CONSTANTS
  Threads = {t1}
  NumJobs = 3
  MaximumUses = 1
  Initializer = TRUE
  InitMayRaise = TRUE
  Timeout = TRUE
  MaxCrash = 0
SPECIFICATION Spec
CHECK_DEADLOCK FALSE
INVARIANT UsesBounded
