SPECIFICATION Spec
CONSTANTS
  sweepA = sweepA  sweepB = sweepB  preview = preview
  inr = inr  usd = usd
  Requests = {r1, r2}
  Subjects = {s1, s2}
  Principals = {admin, p1, p2}
  Keys = {k1}
  Accounts = {a1}
  Administrator = admin
  None = None
  Ids = {1, 2, 3, 4}
  MaxTime = 2
  DefaultLimit = 2
  MaxLimit = 2
  Requested = {0, 1, 5}
  MaxPages = 3
  Books = {treasury, b1}
  Postings = {t1, t2}
  PostedAmounts = {1, 2}
  MaxTampers = 2
  OutboxRows = {o1, o2, o3}
  IdempotencyRows = {i1}
  Sweepers <- MCSweepers
  BatchSize = 2
  Days <- MCDays
  DryRun = {preview}
  MaxDay = 2
  Events = {e1, e2}
  Operators = {op1, op2}
  MaxAttempts = 2
  MaxReclaims = 1
  MaxParkings = 2
  Limit = 1
  Sessions = {q1, q2}
  TransactionIds = {x1}
  EntryAccounts = {"a", "b"}
  Currencies = {inr, usd}
  Currency <- MCCurrency
  Amounts = {1, 2}
  MaxEntries = 4
INVARIANTS
  TypeOK
  WalkIsComplete
  ReportIsTrue
  SweepsAreExact
PROPERTIES
  ActsByRight
  MapsEachIdentityOnce
  ReplaysOnceAndSaysSo
  BooksStaySound
CHECK_DEADLOCK FALSE
