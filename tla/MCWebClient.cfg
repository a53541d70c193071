SPECIFICATION Spec
CONSTANTS
  a1 = a1  a2 = a2  a3 = a3
  k1 = k1  k2 = k2  m1 = m1  u1 = u1
  NoAttempt = NoAttempt
  NoResult = NoResult
  Attempts = {a1, a2, a3}
  Contents = {"x", "y"}
  Blank = "blank"
  MaxKeys = 4
  Unstored = {"rejected", "unsettled"}
  NoOne = NoOne
  Restoring = Restoring
  ApiKeys = {k1, k2}
  AdminKeys = {m1}
  Users = {u1}
  MaxSessionCalls = 2
  MaxRevoked = 1
  Views = {"badge", "account"}
  Timed = {"badge"}
  Slow = TRUE
  MaxLoads = 2
  MaxNow = 1
  PageSize = 1
  MaxEntries = 3
  MaxReloads = 2
  MaxPageRequests = 3
  MaxCustomers = 2
  MaxIssued = 3
  MaxRequested = 2
  MaxFailures = 1
  MaxAbandoned = 2
SYMMETRY Symmetry
INVARIANTS
  TypeOK
  PaysAsIntended
  ShownIsNoOlderThanAsked
  PagesFollow
  KeysAreAccountedFor
PROPERTIES
  CredentialsAreEarned
CHECK_DEADLOCK FALSE
