CONSTANTS
  r1 = r1
  r2 = r2
  r3 = r3
  kt = kt
  kf = kf
  NoResult = NoResult
  Keys = {kt}
  TransferKeys = {kt}
  Requests = {r1, r2, r3}
  Bodies = {"x", "y"}
  MaxClaimAttempts = 2
  MaxAttempts = 2
  Retention = TRUE
SPECIFICATION Spec
SYMMETRY Symmetry
INVARIANTS
  TypeOK
  ClaimBacksPayment
  ResultIsThePayment
  AnswersAreTrue
PROPERTIES
  ImplementsOneResult
CHECK_DEADLOCK FALSE
