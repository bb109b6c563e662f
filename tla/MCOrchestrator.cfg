CONSTANTS
  MaxSteps = 3
  Plan <- MCPlan
SPECIFICATION Spec
INVARIANTS
  StepsWithinBudget
  DependenciesFirst
  CompletedMeansDone
  JobAgrees
PROPERTIES
  JobSettles
  StopHaltsWaves
  RunEnds
  Implements
CHECK_DEADLOCK FALSE
