SPECIFICATION ProgressSpec
CONSTANTS
  Views = {"badge", "account"}
  Timed = {"badge"}
  Slow = FALSE
  MaxLoads = 2
  MaxNow = 1
  PageSize = 1
  MaxEntries = 3
  MaxReloads = 2
  MaxPageRequests = 3
  Callers = {SIGINT, SIGTERM}
  Polls = {poll1, poll2}
  MaxBatch = 2
  NoPoll = NoPoll
  MaxRequests = 2
  Runners = {r1, r2}
  Files = 3
  MaxStarts = 3
  Borrowers = {c1, c2, c3}
  Connections = {d1, d2}
  NoConnection = NoConnection
  TimesOut = TRUE
INVARIANTS
  TypeOK
  ClosesInOrder
  CallsAreIndependent
PROPERTIES
  StopsAreClean
  MigratesOnce
  NothingHangs
CHECK_DEADLOCK FALSE
