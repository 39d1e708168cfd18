SPECIFICATION Spec
CONSTANTS
  DefaultConcurrency = 2
  BigCount = 2
  LittleCount = 0
  ExcludeWorker0 = {TRUE}
  TaskCounts = {0}
  Configs <- MCRestoreDefault
  MayFail = {}
  MaxLaunches = 2
PROPERTY CallsReturn
CHECK_DEADLOCK FALSE
