CONSTANTS
  Kinds = {"grid", "random", "ga", "model"}
  Dims <- TwoKnobs
  KnobShapes <- Shapes
  NParallel = 2
  PopSize = 3
  PlanSize = 2
  Ranges <- LastThree
  Trials = {3, 5}
  Stops = {2, 9}
  MaxFlops = 2
  MaxCalls = 2
SPECIFICATION Spec
CHECK_DEADLOCK FALSE
INVARIANTS
  NoConfigTwice
  UntriedIsExact
  BestIsBest
