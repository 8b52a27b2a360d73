SPECIFICATION Spec
CONSTANTS
  Thresholds <- MCThresholds
  MaxEvents = 2
  MaxMoves = 2
  MaxTurns = 1
  MaxFaults = 1
CHECK_DEADLOCK FALSE
INVARIANTS
  CountedOnce
  StrandedIsUnregistered
  
PROPERTIES
  CompactIsCounted
