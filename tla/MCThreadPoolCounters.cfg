SPECIFICATION Spec
CONSTANTS
  DefaultConcurrency = 3
  BigCount = 3
  LittleCount = 0
  ExcludeWorker0 = {TRUE}
  TaskCounts = {2, 3}
  Configs <- NoConfigs
  MayFail = {}
  MaxLaunches = 2
INVARIANT CounterForEveryTask
