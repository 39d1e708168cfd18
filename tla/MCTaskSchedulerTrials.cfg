CONSTANTS
  NumTasks = 2
  NumMeasureTrials = 4
  MeasuresPerRound = {3}
  EarlyStopAll = 1
  EarlyStopTask = 2
  BackwardWindow = 1
  DeadRounds = 1
  MaxCost = 2
  MaxRestarts = 1
  MaxCalls = 3
SPECIFICATION Spec
CHECK_DEADLOCK FALSE
INVARIANT TrialsInTotal
