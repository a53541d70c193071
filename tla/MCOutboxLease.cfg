CONSTANTS
  w1 = w1
  w2 = w2
  NoEvent = NoEvent
  Events = {1}
  Workers = {w1, w2}
  BatchSize = 1
  MaxAttempts = 2
  MaxFaults = 1
  MaxReplays = 0
SPECIFICATION Spec
INVARIANTS
  LeaseIsExclusive
CHECK_DEADLOCK FALSE
