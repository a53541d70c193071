-------------------------- MODULE ChartOfAccounts --------------------------
(***************************************************************************)
(* The part of the ledger database that no request changes: which account  *)
(* ids exist, which of them are treasuries, their currencies and owners    *)
(* (all immutable by trigger), the balances a history of earlier postings  *)
(* left behind, and the width of a balance.  The abstract ledger and the   *)
(* transfer protocol are both written over this chart.                     *)
(*                                                                         *)
(* Account ids are natural numbers: the code uses nothing of a uuid but    *)
(* equality and order.                                                     *)
(***************************************************************************)
EXTENDS Integers, FiniteSets

CONSTANTS
  Accounts,      \* ids of the rows of table accounts
  Treasuries,    \* the rows with is_treasury = true
  Currencies,
  Principals,    \* callers of the API
  Currency,      \* [Accounts -> Currencies]
  Owner,         \* [Accounts -> Principals \cup {NoOwner}], NULL for a treasury
  MaxMinor,      \* the largest bigint: maximumMoneyMinor
  Opening,       \* [Accounts -> balance] when the model starts
  Statuses       \* values of accounts.status the model distinguishes

NoAccount == -1

NoOwner == "nobody"

Customers == Accounts \ Treasuries

Representable(v) == -MaxMinor - 1 <= v /\ v <= MaxMinor

Balances == (-MaxMinor - 1) .. MaxMinor

\* accounts_one_treasury_per_currency lets a currency have one treasury or none.
TreasuryOf(c) ==
  IF \E t \in Treasuries : Currency[t] = c
  THEN CHOOSE t \in Treasuries : Currency[t] = c
  ELSE NoAccount

ASSUME ChartAssumption ==
  /\ Accounts \subseteq Nat /\ IsFiniteSet(Accounts)
  /\ Treasuries \subseteq Accounts
  /\ Currency \in [Accounts -> Currencies]
  /\ Owner \in [Accounts -> Principals \cup {NoOwner}]
  /\ \A t \in Treasuries : Owner[t] = NoOwner
  /\ \A s, t \in Treasuries : Currency[s] = Currency[t] => s = t

ASSUME OpeningAssumption ==
  /\ MaxMinor \in Nat \ {0}
  /\ Opening \in [Accounts -> Balances]
  /\ \A a \in Customers : Opening[a] >= 0

ASSUME StatusAssumption == "active" \in Statuses

\* Mutant: the cached balance of the destination is capped at the column's limit.
MovedCapped(bal, from, to, amount) ==
  [bal EXCEPT ![from] = @ - amount,
              ![to] = IF @ + amount > MaxMinor THEN MaxMinor ELSE @ + amount]

\* A posting of amount minor units from one account to another: the credit
\* entry lowers the source, the debit entry raises the destination.
Moved(bal, from, to, amount) ==
  [bal EXCEPT ![from] = @ - amount, ![to] = @ + amount]

\* accounts_check: is_treasury OR balance_minor >= 0, and bigint range.
RowAllowed(a, v) == Representable(v) /\ (a \in Treasuries \/ v >= 0)
=============================================================================
