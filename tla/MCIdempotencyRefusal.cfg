CONSTANTS
  r1 = r1
  r2 = r2
  r3 = r3
  kt = kt
  kf = kf
  NoResult = NoResult
  Keys = {kt}
  TransferKeys = {kt}
  Requests = {r1, r2}
  Bodies = {"x"}
  MaxClaimAttempts = 2
  MaxAttempts = 2
  Retention = FALSE
SPECIFICATION Spec
INVARIANTS
  RefusalIsRemembered
CHECK_DEADLOCK FALSE
