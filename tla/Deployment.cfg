SPECIFICATION FairSpec
CONSTANTS
  MaxRuns = 2
  MayDie = TRUE
CHECK_DEADLOCK FALSE
INVARIANTS RelayerTracked
PROPERTIES ScriptEnds PacketPickedUp
