SPECIFICATION Spec
CONSTANTS
  DefaultConcurrency = 2
  BigCount = 2
  LittleCount = 0
  ExcludeWorker0 = {TRUE}
  TaskCounts = {0}
  Configs <- NoConfigs
  MayFail = {1}
  MaxLaunches = 2
INVARIANTS
  FailureIsReturned
