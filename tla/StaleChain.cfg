SPECIFICATION Spec
CONSTANTS
  MaxRuns = 2
  MayDie = FALSE
CHECK_DEADLOCK FALSE
INVARIANTS TargetChainIsOwn
