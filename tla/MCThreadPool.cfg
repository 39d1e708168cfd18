SPECIFICATION Spec
CONSTANTS
  DefaultConcurrency = 4
  BigCount = 4
  LittleCount = 0
  ExcludeWorker0 = {TRUE, FALSE}
  TaskCounts = {0, 1, 5}
  Configs <- MCConfigs
  MayFail = {0, 1}
  MaxLaunches = 2
INVARIANTS
  RunsInsideItsLaunch
  EveryTaskRanOnce
  PushReachesAWorker
PROPERTIES
  CallsReturn
