CONSTANTS
  w1 = w1
  w2 = w2
  NoEvent = NoEvent
  Events = {1, 2}
  Workers = {w1, w2}
  BatchSize = 2
  MaxAttempts = 2
  MaxFaults = 1
  MaxReplays = 1
SPECIFICATION Spec
SYMMETRY Symmetry
INVARIANTS
  TypeOK
  OneEffect
PROPERTIES
  ImplementsDelivery
CHECK_DEADLOCK FALSE
