SPECIFICATION Spec
CONSTANTS
  MaxRuns = 1
  MayDie = FALSE
CHECK_DEADLOCK FALSE
PROPERTIES OwnChainsSurvive
