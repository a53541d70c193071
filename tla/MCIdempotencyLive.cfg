CONSTANTS
  r1 = r1
  r2 = r2
  r3 = r3
  kt = kt
  kf = kf
  NoResult = NoResult
  Keys = {kt, kf}
  TransferKeys = {kt}
  Requests = {r1, r2}
  Bodies = {"x", "y"}
  MaxClaimAttempts = 2
  MaxAttempts = 2
  Retention = TRUE
SPECIFICATION FairSpec
PROPERTIES
  EveryRequestAnswered
CHECK_DEADLOCK FALSE
