CONSTANTS
  alice = alice
  bob = bob
  inr = inr
  usd = usd
  r1 = r1
  r2 = r2
  r3 = r3
  NoRequest = NoRequest
  Principals = {alice, bob}
  Currencies = {inr, usd}
  Statuses = {"active", "frozen"}
  Accounts <- MCAccounts
  Treasuries <- MCTreasuries
  Currency <- MCCurrency
  Owner <- MCOwner
  Opening <- MCOpening
  MaxMinor = 6
  Requests = {r1, r2}
  Inputs <- Refused
  MaxAttempts = 2
  Freezable = {2}
SPECIFICATION FairSpec
INVARIANTS
  OnlyOwnerSpends
PROPERTIES
  MoneyMovesOnlyWhileActive
  EveryRequestAnswered
