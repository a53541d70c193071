----------------------------- MODULE Transfers -----------------------------
(***************************************************************************)
(* Requests that move money, as PostgreSQL and the API processes run them: *)
(* a transfer is a bounded series of SERIALIZABLE attempts (take a         *)
(* snapshot, lock both account rows in id order, check the locked rows,    *)
(* write, commit), a funding is an unlocked look at the account followed   *)
(* by one READ COMMITTED transaction.  One action is one statement, so the *)
(* statements of different requests interleave; a transaction's writes     *)
(* become visible in its Commit.                                           *)
(*                                                                         *)
(* What PostgreSQL does here: a row lock is held to the end of its         *)
(* transaction; under SERIALIZABLE, locking a row that another transaction *)
(* changed after the snapshot fails with 40001, and any statement or the   *)
(* COMMIT itself may fail with 40001 for a read/write dependency; under    *)
(* READ COMMITTED a statement that waited for a row sees its new version.  *)
(***************************************************************************)
EXTENDS ChartOfAccounts, Functions

CONSTANTS
  Requests,     \* one element per HTTP request; it is also the payment's uuid
  Inputs,       \* the bodies (and callers) a request may have
  MaxAttempts,  \* TransferServiceOptions.maxAttempts
  Freezable,    \* accounts whose status an operator changes (bounds the model)
  NoRequest

VARIABLES
  input,        \* [Requests -> Inputs]
  phase,        \* [Requests -> Phases], where the request's handler is
  attempt,      \* [Requests -> 1..MaxAttempts], the loop counter of create
  answer,       \* [Requests -> Answers], what the client was told
  seenFunds,    \* [Requests -> Int], source balance in the snapshot
  seenActive,   \* [Requests -> SUBSET Accounts], active rows in the snapshot
  stale,        \* [Requests -> SUBSET Accounts], rows changed since the snapshot
  lock,         \* [Accounts -> Requests \cup {NoRequest}], FOR UPDATE row locks
  balance, status,     \* committed rows of accounts
  ledger,       \* committed ledger_transactions with their two entries
  transfers,    \* ids of the committed rows of transfers
  events        \* ids of the payments with a committed outbox event

request  == <<input, phase, attempt, answer>>
snapshot == <<seenFunds, seenActive, stale>>
tables   == <<balance, status, ledger, transfers, events>>
vars     == <<request, snapshot, lock, tables>>

Kinds == {"transfer", "funding"}

ASSUME RequestAssumption ==
  /\ MaxAttempts \in Nat \ {0}
  /\ NoRequest \notin Requests
  /\ Freezable \subseteq Accounts
  /\ Inputs \subseteq [kind : Kinds, caller : Principals,
                       from : Nat \cup {NoAccount}, to : Nat, amount : Nat \ {0}]

----------------------------------------------------------------------------
(* Phases and answers *)

Phases == {"new",       \* not received yet
           "backoff",   \* a transfer before its (next) BEGIN
           "find",      \* a funding before its unlocked reads
           "locking",   \* transaction open, taking row locks
           "checked",   \* a transfer whose locked rows passed every check
           "written",   \* everything written, COMMIT not yet issued
           "done"}

InTransaction == {"locking", "checked", "written"}

Refusals == {"ACCOUNT_NOT_FOUND", "ACCOUNT_NOT_ACTIVE", "CURRENCY_MISMATCH",
             "INSUFFICIENT_FUNDS", "SELF_TRANSFER", "INVALID_AMOUNT"}

Answers == Refusals \cup {"none", "created", "TRANSFER_RETRY_EXHAUSTED", "error"}

IsTransfer(r) == input[r].kind = "transfer"

Amount(r) == input[r].amount

To(r) == input[r].to

\* fundAccount pays out of the treasury of the funded account's currency.
From(r) ==
  IF IsTransfer(r) THEN input[r].from
  ELSE IF To(r) \in Accounts THEN TreasuryOf(Currency[To(r)]) ELSE NoAccount

\* The rows the request locks: WHERE id = ANY(...) skips ids that do not exist.
Wanted(r) == {From(r), To(r)} \cap Accounts

Held(r) == {a \in Accounts : lock[a] = r}

Payment(r) == [id |-> r, from |-> From(r), to |-> To(r), amount |-> Amount(r)]

----------------------------------------------------------------------------
Init ==
  /\ input \in [Requests -> Inputs]
  /\ phase = [r \in Requests |-> "new"]
  /\ attempt = [r \in Requests |-> 1]
  /\ answer = [r \in Requests |-> "none"]
  /\ seenFunds = [r \in Requests |-> 0]
  /\ seenActive = [r \in Requests |-> {}]
  /\ stale = [r \in Requests |-> {}]
  /\ lock = [a \in Accounts |-> NoRequest]
  /\ balance = Opening
  /\ status = [a \in Accounts |-> "active"]
  /\ ledger = {}
  /\ transfers = {}
  /\ events = {}

\* The handler ends: the client gets ans, the snapshot and the locks are gone.
Finish(r, ans) ==
  /\ phase' = [phase EXCEPT ![r] = "done"]
  /\ answer' = [answer EXCEPT ![r] = ans]
  /\ seenFunds' = [seenFunds EXCEPT ![r] = 0]
  /\ seenActive' = [seenActive EXCEPT ![r] = {}]
  /\ lock' = [a \in Accounts |-> IF lock[a] = r THEN NoRequest ELSE lock[a]]
  /\ UNCHANGED <<input, attempt>>

\* Finish without having written anything: an error before or after ROLLBACK.
Refuse(r, ans) ==
  /\ Finish(r, ans)
  /\ stale' = [stale EXCEPT ![r] = {}]
  /\ UNCHANGED tables

Step(r, from, to) ==
  /\ phase[r] = from
  /\ phase' = [phase EXCEPT ![r] = to]

----------------------------------------------------------------------------
(* Receiving a request: Money.fromMinor, then the self-transfer check *)

Receive(r) ==
  /\ phase[r] = "new"
  /\ \/ /\ Amount(r) > MaxMinor
        /\ Refuse(r, "INVALID_AMOUNT")
     \/ /\ Amount(r) <= MaxMinor
        /\ IsTransfer(r) /\ From(r) = To(r)
        /\ Refuse(r, "SELF_TRANSFER")
     \/ /\ Amount(r) <= MaxMinor
        /\ ~(IsTransfer(r) /\ From(r) = To(r))
        /\ Step(r, "new", IF IsTransfer(r) THEN "backoff" ELSE "find")
        /\ UNCHANGED <<input, attempt, answer, snapshot, lock, tables>>

----------------------------------------------------------------------------
(* A transfer attempt *)

\* BEGIN ... SERIALIZABLE and the start of the SELECT ... FOR UPDATE, whose
\* snapshot fixes what the whole attempt reads.
TakeSnapshot(r) ==
  /\ Step(r, "backoff", "locking")
  /\ seenFunds' = [seenFunds EXCEPT
                     ![r] = IF From(r) \in Accounts THEN balance[From(r)] ELSE 0]
  /\ seenActive' = [seenActive EXCEPT
                      ![r] = {a \in Wanted(r) : status[a] = "active"}]
  /\ stale' = [stale EXCEPT ![r] = {}]
  /\ UNCHANGED <<input, attempt, answer, lock, tables>>

\* Mutant: lock the source first, without ORDER BY.
NextRowSourceFirst(r, a) ==
  /\ a \in Wanted(r) \ Held(r)
  /\ From(r) \in Wanted(r) \ Held(r) => a = From(r)

\* ORDER BY id: the next row is the smallest one not yet locked.
NextRow(r, a) ==
  /\ a \in Wanted(r) \ Held(r)
  /\ \A b \in Wanted(r) \ Held(r) : a <= b

\* Mutant: SELECT without FOR UPDATE.
LockRowUnlocked(r, a) ==
  /\ phase[r] = "locking"
  /\ NextRow(r, a)
  /\ lock' = [lock EXCEPT ![a] = r]
  /\ UNCHANGED <<request, snapshot, tables>>

LockRow(r, a) ==
  /\ phase[r] = "locking"
  /\ NextRow(r, a)
  /\ lock[a] = NoRequest
  /\ a \notin stale[r]
  /\ lock' = [lock EXCEPT ![a] = r]
  /\ UNCHANGED <<request, snapshot, tables>>

\* Mutant: the owner of the source is not compared with the caller.
VerdictForAnyCaller(r) ==
  IF ~({From(r), To(r)} \subseteq Customers) THEN "ACCOUNT_NOT_FOUND"
  ELSE IF ~({From(r), To(r)} \subseteq seenActive[r]) THEN "ACCOUNT_NOT_ACTIVE"
  ELSE IF Currency[From(r)] # Currency[To(r)] THEN "CURRENCY_MISMATCH"
  ELSE IF seenFunds[r] < Amount(r) THEN "INSUFFICIENT_FUNDS"
  ELSE "ok"

\* The checks of create, in the order of their early returns.
Verdict(r) ==
  IF ~({From(r), To(r)} \subseteq Customers) THEN "ACCOUNT_NOT_FOUND"
  ELSE IF Owner[From(r)] # input[r].caller THEN "ACCOUNT_NOT_FOUND"
  ELSE IF ~({From(r), To(r)} \subseteq seenActive[r]) THEN "ACCOUNT_NOT_ACTIVE"
  ELSE IF Currency[From(r)] # Currency[To(r)] THEN "CURRENCY_MISMATCH"
  ELSE IF seenFunds[r] < Amount(r) THEN "INSUFFICIENT_FUNDS"
  ELSE "ok"

Check(r) ==
  /\ IsTransfer(r)
  /\ phase[r] = "locking" /\ Held(r) = Wanted(r)
  /\ \/ /\ Verdict(r) = "ok"
        /\ Step(r, "locking", "checked")
        /\ UNCHANGED <<input, attempt, answer, snapshot, lock, tables>>
     \/ /\ Verdict(r) # "ok"
        /\ Refuse(r, Verdict(r))

----------------------------------------------------------------------------
(* post_ledger_transaction, shared by both kinds *)

\* Mutant: the status is left to the read that findAccount did.
PostableUnchecked(r) ==
  /\ {From(r), To(r)} \subseteq Accounts
  /\ Currency[From(r)] = Currency[To(r)]

\* All accounts present, active and of one currency.
Postable(r) ==
  /\ {From(r), To(r)} \subseteq Accounts
  /\ \A a \in {From(r), To(r)} : status[a] = "active"
  /\ Currency[From(r)] = Currency[To(r)]

RowsAllowed(r) ==
  LET bal == Moved(balance, From(r), To(r), Amount(r))
  IN  \A a \in {From(r), To(r)} : RowAllowed(a, bal[a])

\* The call, the transfers row and the outbox row: written, not yet visible.
\* A constraint or range error leaves the transaction with a 500.
Write(r, from) ==
  \/ /\ Postable(r) /\ RowsAllowed(r)
     /\ Step(r, from, "written")
     /\ UNCHANGED <<input, attempt, answer, snapshot, lock, tables>>
  \/ /\ ~(Postable(r) /\ RowsAllowed(r))
     /\ Refuse(r, "error")

PostTransfer(r) ==
  /\ IsTransfer(r)
  /\ phase[r] = "checked"
  /\ Write(r, "checked")

----------------------------------------------------------------------------
(* Funding: two unlocked reads, then post_ledger_transaction in a plain BEGIN *)

FundingVerdict(r) ==
  IF To(r) \notin Customers THEN "ACCOUNT_NOT_FOUND"
  ELSE IF status[To(r)] # "active" THEN "ACCOUNT_NOT_ACTIVE"
  ELSE IF From(r) = NoAccount THEN "error"
  ELSE "ok"

FindAccount(r) ==
  /\ phase[r] = "find"
  /\ \/ /\ FundingVerdict(r) = "ok"
        /\ Step(r, "find", "locking")
        /\ UNCHANGED <<input, attempt, answer, snapshot, lock, tables>>
     \/ /\ FundingVerdict(r) # "ok"
        /\ Refuse(r, FundingVerdict(r))

PostFunding(r) ==
  /\ ~IsTransfer(r)
  /\ phase[r] = "locking" /\ Held(r) = Wanted(r)
  /\ Write(r, "locking")

----------------------------------------------------------------------------
(* Ends of a transaction *)

\* Mutant: a row changed after the snapshot does not fail the attempt.
OutdateNothing(q, rows) == {}

\* Snapshots other requests hold are out of date for the changed rows.
Outdate(q, rows) ==
  IF IsTransfer(q) /\ phase[q] \in InTransaction
  THEN stale[q] \cup (rows \cap Wanted(q)) ELSE {}

\* Mutant: the outbox row is written by a second transaction, after COMMIT.
CommitDualWrite(r, ans) ==
  /\ phase[r] = "written"
  /\ balance' = Moved(balance, From(r), To(r), Amount(r))
  /\ ledger' = ledger \cup {Payment(r)}
  /\ transfers' = IF IsTransfer(r) THEN transfers \cup {r} ELSE transfers
  /\ events' = IF ans = "created" THEN events \cup {r} ELSE events
  /\ stale' = [q \in Requests |->
                 IF q = r THEN {} ELSE Outdate(q, {From(r), To(r)})]
  /\ Finish(r, ans)
  /\ UNCHANGED status

Commit(r, ans) ==
  /\ phase[r] = "written"
  /\ balance' = Moved(balance, From(r), To(r), Amount(r))
  /\ ledger' = ledger \cup {Payment(r)}
  /\ transfers' = IF IsTransfer(r) THEN transfers \cup {r} ELSE transfers
  /\ events' = events \cup {r}
  /\ stale' = [q \in Requests |->
                 IF q = r THEN {} ELSE Outdate(q, {From(r), To(r)})]
  /\ Finish(r, ans)
  /\ UNCHANGED status

Created(r) == Commit(r, "created")

\* Mutant: an error from COMMIT is retried whatever its code.
CommitRetried(r) ==
  /\ phase[r] = "written" /\ attempt[r] < MaxAttempts
  /\ balance' = Moved(balance, From(r), To(r), Amount(r))
  /\ ledger' = ledger \cup {Payment(r)}
  /\ transfers' = transfers \cup {r}
  /\ events' = events \cup {r}
  /\ phase' = [phase EXCEPT ![r] = "backoff"]
  /\ attempt' = [attempt EXCEPT ![r] = @ + 1]
  /\ lock' = [a \in Accounts |-> IF lock[a] = r THEN NoRequest ELSE lock[a]]
  /\ UNCHANGED <<input, answer, seenFunds, seenActive, stale, status>>

\* COMMIT took effect but its acknowledgement was lost: the driver throws an
\* error without a retryable code and the client gets a 500.
CommitUnacknowledged(r) == Commit(r, "error")

\* Mutants: the attempt that fails last is retried too; attempts are not counted.
SerializationFailureOneMore(r) ==
  /\ IsTransfer(r)
  /\ phase[r] \in InTransaction
  /\ phase' = [phase EXCEPT ![r] = "backoff"]
  /\ attempt' = [attempt EXCEPT ![r] = @ + 1]
  /\ attempt[r] <= MaxAttempts
  /\ lock' = [a \in Accounts |-> IF lock[a] = r THEN NoRequest ELSE lock[a]]
  /\ UNCHANGED <<input, answer, snapshot, tables>>

SerializationFailureUncounted(r) ==
  /\ IsTransfer(r)
  /\ phase[r] \in InTransaction
  /\ phase' = [phase EXCEPT ![r] = "backoff"]
  /\ lock' = [a \in Accounts |-> IF lock[a] = r THEN NoRequest ELSE lock[a]]
  /\ UNCHANGED <<input, attempt, answer, snapshot, tables>>

\* 40001 from a statement or from COMMIT: ROLLBACK, then back off or give up.
SerializationFailure(r) ==
  /\ IsTransfer(r)
  /\ phase[r] \in InTransaction
  /\ \/ /\ attempt[r] < MaxAttempts
        /\ phase' = [phase EXCEPT ![r] = "backoff"]
        /\ attempt' = [attempt EXCEPT ![r] = @ + 1]
        /\ seenFunds' = [seenFunds EXCEPT ![r] = 0]
        /\ seenActive' = [seenActive EXCEPT ![r] = {}]
        /\ stale' = [stale EXCEPT ![r] = {}]
        /\ lock' = [a \in Accounts |-> IF lock[a] = r THEN NoRequest ELSE lock[a]]
        /\ UNCHANGED <<input, answer, tables>>
     \/ /\ attempt[r] = MaxAttempts
        /\ Refuse(r, "TRANSFER_RETRY_EXHAUSTED")

\* A statement fails for want of a connection, or the connection or the API
\* process dies: an open transaction is rolled back.
ConnectionLost(r) ==
  /\ phase[r] \in InTransaction \cup {"find", "backoff"}
  /\ Refuse(r, "error")

----------------------------------------------------------------------------
(* Someone outside the API freezes, closes or reopens an account.  No code of
   the repository updates accounts.status; the column exists to be set by an
   operator's UPDATE, which waits for the row lock and outdates snapshots. *)

ChangeStatus(a, s) ==
  /\ lock[a] = NoRequest
  /\ status[a] # s
  /\ status' = [status EXCEPT ![a] = s]
  /\ stale' = [q \in Requests |-> Outdate(q, {a})]
  /\ UNCHANGED <<request, seenFunds, seenActive, lock, balance, ledger,
                 transfers, events>>

----------------------------------------------------------------------------
RequestStep(r) ==
  \/ Receive(r)
  \/ TakeSnapshot(r)
  \/ \E a \in Accounts : LockRow(r, a)
  \/ Check(r)
  \/ PostTransfer(r)
  \/ FindAccount(r)
  \/ PostFunding(r)
  \/ Created(r)
  \/ CommitUnacknowledged(r)
  \/ SerializationFailure(r)
  \/ ConnectionLost(r)

Next ==
  \/ \E r \in Requests : RequestStep(r)
  \/ \E a \in Freezable, s \in Statuses : ChangeStatus(a, s)

Spec == Init /\ [][Next]_vars

\* Node runs every received request to its end and PostgreSQL runs every
\* statement; nothing makes a client send a request, and nothing makes a
\* connection fail: those steps get no fairness.
Progress(r) ==
  \/ TakeSnapshot(r)
  \/ \E a \in Accounts : LockRow(r, a)
  \/ Check(r)
  \/ PostTransfer(r)
  \/ FindAccount(r)
  \/ PostFunding(r)
  \/ Created(r)
  \/ \E a \in stale[r] : NextRow(r, a) /\ lock[a] = NoRequest /\ SerializationFailure(r)

FairSpec == Spec /\ \A r \in Requests : WF_vars(Progress(r))

----------------------------------------------------------------------------
(* Properties *)

\* Balances stay in the column's range, every request's phase, answer and rows
\* are of their kind, and a lock has a holder or none.
TypeOK ==
  /\ input \in [Requests -> Inputs]
  /\ phase \in [Requests -> Phases]
  /\ attempt \in [Requests -> 1..MaxAttempts]
  /\ answer \in [Requests -> Answers]
  /\ seenFunds \in [Requests -> Balances]
  /\ seenActive \in [Requests -> SUBSET Accounts]
  /\ stale \in [Requests -> SUBSET Accounts]
  /\ lock \in [Accounts -> Requests \cup {NoRequest}]
  /\ balance \in [Accounts -> Balances]
  /\ status \in [Accounts -> Statuses]
  /\ transfers \subseteq Requests
  /\ events \subseteq Requests

\* What a transfer checked is still true when it writes and when it commits:
\* no other payment and no operator changed the rows behind its back, so the
\* database constraints are never what stops an overdraft.
ChecksStillHold ==
  \A r \in Requests :
    phase[r] \in {"checked", "written"} /\ IsTransfer(r) =>
      /\ {From(r), To(r)} \subseteq Customers
      /\ Amount(r) <= balance[From(r)]
      /\ status[From(r)] = "active" /\ status[To(r)] = "active"

\* accounts_check holds of the committed rows: no customer is overdrawn.
NoOverdraft == \A a \in Customers : balance[a] >= 0

\* Locks are taken upwards, in id order, by transfers and fundings alike.
LocksAscend ==
  \A r \in Requests : \A a \in Held(r) : \A b \in Wanted(r) \ Held(r) : a < b

WaitsFor(r, q) ==
  /\ phase[r] = "locking"
  /\ \E a \in Accounts : NextRow(r, a) /\ lock[a] = q

\* Requests never wait on each other in a circle: 40P01 cannot come from the
\* account rows, whatever mix of transfers and fundings is running.
NoWaitCycle ==
  \A S \in SUBSET Requests :
    S # {} => \E r \in S : \A q \in S : ~WaitsFor(r, q)

Paid == {p.id : p \in ledger}

\* The answer and the books agree: "created" means the payment, its transfers
\* row and its outbox event are all there; any definite refusal, and giving up
\* after the last attempt, mean that none of them is.
AnswersMatchBooks ==
  \A r \in Requests :
    /\ answer[r] = "created" => r \in Paid
    /\ answer[r] \in Refusals \cup {"TRANSFER_RETRY_EXHAUSTED"} => r \notin Paid
    /\ r \in Paid <=> r \in events
    /\ r \in transfers <=> r \in Paid /\ IsTransfer(r)
    /\ phase[r] # "done" => r \notin Paid

\* Money leaves a customer account only for a transfer its owner asked for.
OnlyOwnerSpends ==
  \A p \in ledger :
    p.from \in Customers =>
      IsTransfer(p.id) /\ Owner[p.from] = input[p.id].caller

\* What payment p adds to account a: its debit entry less its credit entry.
Delta(p, a) ==
  (IF p.to = a THEN p.amount ELSE 0) - (IF p.from = a THEN p.amount ELSE 0)

\* Every cached balance is what the journal says it is: the balance before,
\* and the sum over the account's entries, in every committed state.
JournalExplainsBalances ==
  \A a \in Accounts :
    balance[a] = Opening[a] + SumFunctionOnSet([p \in ledger |-> Delta(p, a)], ledger)

RowsIn(c) == {a \in Accounts : Currency[a] = c}

\* Money is neither made nor lost, nor exchanged: the balances in a currency,
\* the treasury's included, add up to the same sum for ever.
MoneyIsConserved ==
  \A c \in Currencies :
    SumFunctionOnSet(balance, RowsIn(c)) = SumFunctionOnSet(Opening, RowsIn(c))

\* The books add up, whatever interleaves, fails or is retried: row by row
\* against the journal, and over each currency.
BooksAddUp == JournalExplainsBalances /\ MoneyIsConserved

\* A balance changes only while its account is active, however long ago the
\* request looked at the status (findAccount's read is not locked).
MoneyMovesOnlyWhileActive ==
  [][\A a \in Accounts : balance'[a] # balance[a] => status[a] = "active"]_vars

Abstract == INSTANCE Ledger WITH Payments <- Requests

\* Every payment appears once, whole, between active accounts, out of money
\* that is there, and is never altered: the protocol implements Ledger.
ImplementsLedger == Abstract!Spec

\* A request that was received is answered: waiting for locks ends and the
\* retry budget is finite.
EveryRequestAnswered ==
  \A r \in Requests : phase[r] # "new" ~> phase[r] = "done"
=============================================================================
