CONSTANTS
  w1 = w1
  w2 = w2
  NoEvent = NoEvent
  Events = {1, 2}
  Workers = {w1, w2}
  BatchSize = 2
  MaxAttempts = 2
  MaxFaults = 1
  MaxReplays = 0
SPECIFICATION FairSpec
PROPERTIES
  EventuallyDelivered
CHECK_DEADLOCK FALSE
