CONSTANTS
  alice = alice
  bob = bob
  inr = inr
  usd = usd
  r1 = r1
  r2 = r2
  r3 = r3
  NoRequest = NoRequest
  Principals = {alice, bob}
  Currencies = {inr, usd}
  Statuses = {"active", "frozen"}
  Accounts <- MCAccounts
  Treasuries <- MCTreasuries
  Currency <- MCCurrency
  Owner <- MCOwner
  Opening <- MCOpening
  MaxMinor = 6
  Requests = {r1, r2, r3}
  Inputs <- Contended
  MaxAttempts = 2
  Freezable = {2}
SPECIFICATION Spec
SYMMETRY Symmetry
INVARIANTS
  TypeOK
  ChecksStillHold
  NoOverdraft
  NoWaitCycle
  AnswersMatchBooks
  BooksAddUp
PROPERTIES
  ImplementsLedger
