------------------------------- MODULE Ledger -------------------------------
(***************************************************************************)
(* What the money movements promise, with no transactions, locks, retries  *)
(* or failures in sight: each payment happens at most once, in one step,   *)
(* between two active accounts of one currency, out of money that is       *)
(* there.  Transfers is shown to implement this specification.             *)
(***************************************************************************)
EXTENDS ChartOfAccounts

CONSTANT Payments  \* identities of payments (the uuid a request draws)

VARIABLES balance, status, ledger

vars == <<balance, status, ledger>>

Entry == [id : Payments, from : Accounts, to : Accounts, amount : 1..MaxMinor]

Init ==
  /\ balance = Opening
  /\ status = [a \in Accounts |-> "active"]
  /\ ledger = {}

\* The conditions under which money may move.
MayMove(p) ==
  /\ p.from # p.to
  /\ Currency[p.from] = Currency[p.to]
  /\ p.to \in Customers
  /\ status[p.from] = "active" /\ status[p.to] = "active"
  /\ p.from \in Treasuries \/ p.amount <= balance[p.from]
  /\ Representable(balance[p.from] - p.amount)
  /\ Representable(balance[p.to] + p.amount)

Pay(p) ==
  /\ \A q \in ledger : q.id # p.id
  /\ MayMove(p)
  /\ balance' = Moved(balance, p.from, p.to, p.amount)
  /\ ledger' = ledger \cup {p}
  /\ UNCHANGED status

ChangeStatus(a, s) ==
  /\ status' = [status EXCEPT ![a] = s]
  /\ UNCHANGED <<balance, ledger>>

Next ==
  \/ \E p \in Entry : Pay(p)
  \/ \E a \in Accounts, s \in Statuses : ChangeStatus(a, s)

Spec == Init /\ [][Next]_vars
=============================================================================
