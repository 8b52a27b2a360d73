CONSTANTS
  Senders = {1, 2, 3}
  MaxArrivals = 4
SPECIFICATION Spec
INVARIANTS
  LoopAgreesWithRelation
CHECK_DEADLOCK FALSE
