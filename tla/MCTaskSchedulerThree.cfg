CONSTANTS
  NumTasks = 3
  NumMeasureTrials = 9
  MeasuresPerRound = {1}
  EarlyStopAll = 6
  EarlyStopTask = 2
  BackwardWindow = 1
  DeadRounds = 1
  MaxCost = 1
  MaxRestarts = 0
  MaxCalls = 1
SPECIFICATION Spec
CHECK_DEADLOCK FALSE
INVARIANTS
  RoundRobinFair
PROPERTIES
  DeadStaysDead
