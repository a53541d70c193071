-------------------------- MODULE TransfersProofs --------------------------
(***************************************************************************)
(* Proofs about Transfers, for every chart of accounts, any set of         *)
(* requests and any number of attempts.                                    *)
(*                                                                         *)
(* The argument: locks are taken upwards and a transaction that has        *)
(* checked or written holds every row it needs (Locking); a row somebody   *)
(* holds is not changed by anybody else, so what a transfer read in its    *)
(* snapshot is still the committed truth for the rows it holds (Snapshots) *)
(* and what it found allowed is still allowed when it commits (Decisions). *)
(***************************************************************************)
EXTENDS Transfers, SumTheorems

Shape ==
  /\ input \in [Requests -> Inputs]
  /\ phase \in [Requests -> Phases]
  /\ attempt \in [Requests -> 1..MaxAttempts]
  /\ answer \in [Requests -> Answers]
  /\ seenFunds \in [Requests -> Int]
  /\ seenActive \in [Requests -> SUBSET Accounts]
  /\ stale \in [Requests -> SUBSET Accounts]
  /\ lock \in [Accounts -> Requests \cup {NoRequest}]
  /\ balance \in [Accounts -> Int]
  /\ status \in [Accounts -> Statuses]
  /\ transfers \subseteq Requests
  /\ events \subseteq Requests

\* The treasury a funding pays out of is an account, or there is none.
LEMMA Treasury ==
  ASSUME NEW c
  PROVE  /\ TreasuryOf(c) \in Treasuries \cup {NoAccount}
         /\ TreasuryOf(c) \in Treasuries => Currency[TreasuryOf(c)] = c
         /\ TreasuryOf(c) \in Int
<1>1. CASE \E t \in Treasuries : Currency[t] = c
  <2>1. TreasuryOf(c) = CHOOSE t \in Treasuries : Currency[t] = c
    BY <1>1 DEF TreasuryOf
  <2>2. TreasuryOf(c) \in Treasuries /\ Currency[TreasuryOf(c)] = c
    BY <1>1, <2>1, Zenon
  <2>3. Treasuries \subseteq Int
    BY ChartAssumption
  <2>. QED BY <2>2, <2>3
<1>2. CASE ~\E t \in Treasuries : Currency[t] = c
  <2>1. TreasuryOf(c) = NoAccount
    BY <1>2 DEF TreasuryOf
  <2>2. NoAccount \notin Treasuries /\ NoAccount \in Int
    BY ChartAssumption DEF NoAccount
  <2>. QED BY <2>1, <2>2
<1>. QED BY <1>1, <1>2

\* A posting keeps balances a function on the accounts and changes two of them.
LEMMA MovedType ==
  ASSUME NEW bal \in [Accounts -> Int], NEW from, NEW to, NEW amount \in Int
  PROVE  Moved(bal, from, to, amount) \in [Accounts -> Int]
<1>. DEFINE paid == [bal EXCEPT ![from] = @ - amount]
<1>1. paid \in [Accounts -> Int]
  <2>1. CASE from \in Accounts
    BY <2>1
  <2>2. CASE from \notin Accounts
    BY <2>2
  <2>. QED BY <2>1, <2>2
<1>2. [paid EXCEPT ![to] = @ + amount] \in [Accounts -> Int]
  <2>1. CASE to \in Accounts
    BY <1>1, <2>1
  <2>2. CASE to \notin Accounts
    BY <1>1, <2>2
  <2>. QED BY <2>1, <2>2
<1>. QED BY <1>2 DEF Moved

\* What a request asks for is well typed, and no step changes it.
LEMMA Wants ==
  ASSUME Shape, NEW r \in Requests
  PROVE  /\ Amount(r) \in Nat \ {0}
         /\ To(r) \in Nat
         /\ From(r) \in Int
         /\ IsTransfer(r) \in BOOLEAN
         /\ Wanted(r) \subseteq Accounts
         /\ Accounts \subseteq Nat
<1>1. input[r] \in [kind : Kinds, caller : Principals,
                    from : Nat \cup {NoAccount}, to : Nat, amount : Nat \ {0}]
  BY RequestAssumption DEF Shape
<1>2. From(r) \in Int
  <2>1. CASE IsTransfer(r)
    BY <1>1, <2>1 DEF From, NoAccount
  <2>2. CASE ~IsTransfer(r)
    BY <2>2, Treasury DEF From, NoAccount
  <2>. QED BY <2>1, <2>2
<1>. QED BY <1>1, <1>2, ChartAssumption DEF Amount, To, IsTransfer, Wanted

\* A stale set holds account ids.
LEMMA OutdateType ==
  ASSUME Shape, NEW q \in Requests, NEW rows
  PROVE  Outdate(q, rows) \in SUBSET Accounts
BY DEF Shape, Outdate, Wanted

\* No action alters what the client sent.
LEMMA InputUnchanged ==
  ASSUME [Next]_vars
  PROVE  input' = input
<1>. USE DEF request, snapshot, tables
<1>1. ASSUME NEW r \in Requests, NEW ans, Finish(r, ans)
      PROVE  input' = input
  BY <1>1 DEF Finish
<1>2. ASSUME NEW r \in Requests, NEW ans, Refuse(r, ans)
      PROVE  input' = input
  BY <1>1, <1>2 DEF Refuse
<1>3. ASSUME NEW r \in Requests, NEW ans, Commit(r, ans)
      PROVE  input' = input
  BY <1>1, <1>3 DEF Commit
<1>4. ASSUME NEW r \in Requests, NEW from, Write(r, from)
      PROVE  input' = input
  BY <1>2, <1>4 DEF Write
<1>5. ASSUME NEW r \in Requests, RequestStep(r)
      PROVE  input' = input
  <2>1. CASE Receive(r) \/ Check(r) \/ FindAccount(r)
    BY <1>2, <2>1 DEF Receive, Check, FindAccount
  <2>2. CASE PostTransfer(r) \/ PostFunding(r)
    BY <1>4, <2>2 DEF PostTransfer, PostFunding
  <2>3. CASE Created(r) \/ CommitUnacknowledged(r)
    BY <1>3, <2>3 DEF Created, CommitUnacknowledged
  <2>4. CASE SerializationFailure(r) \/ ConnectionLost(r)
    BY <1>2, <2>4 DEF SerializationFailure, ConnectionLost
  <2>5. CASE TakeSnapshot(r) \/ \E a \in Accounts : LockRow(r, a)
    BY <2>5 DEF TakeSnapshot, LockRow
  <2>. QED BY <1>5, <2>1, <2>2, <2>3, <2>4, <2>5 DEF RequestStep
<1>6. ASSUME NEW a, NEW st, ChangeStatus(a, st)
      PROVE  input' = input
  BY <1>6 DEF ChangeStatus
<1>. QED BY <1>5, <1>6 DEF Next, vars

\* Every step keeps the types of the variables (balances and stale rows apart).
LEMMA ShapeStep ==
  ASSUME Shape, [Next]_vars
  PROVE  Shape'
<1>. USE RequestAssumption, ChartAssumption DEF Shape, Phases, Answers, Refusals
<1>1. ASSUME NEW r \in Requests, NEW ans \in Answers, Finish(r, ans)
      PROVE  /\ phase' \in [Requests -> Phases]
             /\ answer' \in [Requests -> Answers]
             /\ seenFunds' \in [Requests -> Int]
             /\ seenActive' \in [Requests -> SUBSET Accounts]
             /\ lock' \in [Accounts -> Requests \cup {NoRequest}]
             /\ attempt' \in [Requests -> 1..MaxAttempts]
             /\ input' \in [Requests -> Inputs]
  BY <1>1 DEF Finish
<1>2. ASSUME NEW r \in Requests, NEW ans \in Answers, Refuse(r, ans)
      PROVE  Shape'
  BY <1>1, <1>2 DEF Refuse, tables
<1>3. ASSUME NEW r \in Requests, Receive(r)
      PROVE  Shape'
  BY <1>2, <1>3 DEF Receive, Step, snapshot, tables
<1>4. ASSUME NEW r \in Requests, TakeSnapshot(r)
      PROVE  Shape'
  <2>1. seenFunds' \in [Requests -> Int]
    <3>1. (IF From(r) \in Accounts THEN balance[From(r)] ELSE 0) \in Int
      <4>. HIDE RequestAssumption, ChartAssumption
      <4>1. ASSUME NEW a \in Accounts PROVE balance[a] \in Int
        OBVIOUS
      <4>. QED BY <4>1
    <3>. QED BY <1>4, <3>1 DEF TakeSnapshot
  <2>2. {a \in Wanted(r) : status[a] = "active"} \in SUBSET Accounts
    BY DEF Wanted
  <2>3. seenActive' \in [Requests -> SUBSET Accounts]
    BY <1>4, <2>2 DEF TakeSnapshot
  <2>. QED BY <1>4, <2>1, <2>3 DEF TakeSnapshot, Step, tables
<1>5. ASSUME NEW r \in Requests, NEW a \in Accounts, LockRow(r, a)
      PROVE  Shape'
  BY <1>5 DEF LockRow, request, snapshot, tables
<1>6. ASSUME NEW r \in Requests, Check(r)
      PROVE  Shape'
  <2>1. Verdict(r) # "ok" => Verdict(r) \in Answers
    BY DEF Verdict
  <2>. QED BY <1>2, <1>6, <2>1 DEF Check, Step, snapshot, tables
<1>7. ASSUME NEW r \in Requests, NEW from \in Phases, Write(r, from)
      PROVE  Shape'
  BY <1>2, <1>7 DEF Write, Step, snapshot, tables
<1>8. ASSUME NEW r \in Requests, FindAccount(r)
      PROVE  Shape'
  <2>1. FundingVerdict(r) # "ok" => FundingVerdict(r) \in Answers
    BY DEF FundingVerdict
  <2>. QED BY <1>2, <1>8, <2>1 DEF FindAccount, Step, snapshot, tables
<1>9. ASSUME NEW r \in Requests, NEW ans \in Answers, Commit(r, ans)
      PROVE  Shape'
  <2>1. balance' \in [Accounts -> Int]
    <3>1. balance \in [Accounts -> Int] /\ Amount(r) \in Int
      BY Wants
    <3>. QED BY <1>9, <3>1, MovedType DEF Commit
  <2>2. stale' \in [Requests -> SUBSET Accounts]
    BY <1>9, OutdateType DEF Commit
  <2>. QED BY <1>1, <1>9, <2>1, <2>2 DEF Commit
<1>10. ASSUME NEW r \in Requests, SerializationFailure(r)
       PROVE  Shape'
  <2>1. CASE attempt[r] < MaxAttempts
    <3>1. attempt[r] + 1 \in 1..MaxAttempts
      BY <2>1
    <3>2. attempt[r] # MaxAttempts
      BY <2>1
    <3>3. /\ phase' = [phase EXCEPT ![r] = "backoff"]
          /\ attempt' = [attempt EXCEPT ![r] = attempt[r] + 1]
          /\ seenFunds' = [seenFunds EXCEPT ![r] = 0]
          /\ seenActive' = [seenActive EXCEPT ![r] = {}]
          /\ stale' = [stale EXCEPT ![r] = {}]
          /\ lock' = [a \in Accounts |-> IF lock[a] = r THEN NoRequest ELSE lock[a]]
          /\ UNCHANGED <<input, answer, tables>>
      BY <1>10, <3>2 DEF SerializationFailure
    <3>. QED BY <3>1, <3>3 DEF tables
  <2>2. CASE attempt[r] = MaxAttempts
    BY <1>2, <1>10, <2>2 DEF SerializationFailure
  <2>. QED BY <1>10, <2>1, <2>2 DEF SerializationFailure
<1>11. ASSUME NEW a \in Freezable, NEW s \in Statuses, ChangeStatus(a, s)
       PROVE  Shape'
  <2>1. stale' \in [Requests -> SUBSET Accounts]
    BY <1>11, OutdateType DEF ChangeStatus
  <2>. QED BY <1>11, <2>1 DEF ChangeStatus, request
<1>12. CASE UNCHANGED vars
  BY <1>12 DEF vars, request, snapshot, tables
<1>. QED
  BY <1>2, <1>3, <1>4, <1>5, <1>6, <1>7, <1>8, <1>9, <1>10, <1>11, <1>12
  DEF Next, RequestStep, PostTransfer, PostFunding, Created, CommitUnacknowledged,
      ConnectionLost

----------------------------------------------------------------------------
(* Locks *)

\* A row is locked by a request that has a transaction open and wants the row;
\* past its checks a request holds all its rows; locks are taken upwards.
Locking ==
  /\ \A a \in Accounts :
       lock[a] # NoRequest =>
         phase[lock[a]] \in InTransaction /\ a \in Wanted(lock[a])
  /\ \A r \in Requests :
       phase[r] \in {"checked", "written"} => \A a \in Wanted(r) : lock[a] = r
  /\ LocksAscend

\* What is derived from the input stays the same through a step.
LEMMA SameRequest ==
  ASSUME input' = input, NEW r
  PROVE  /\ IsTransfer(r)' = IsTransfer(r)
         /\ Amount(r)' = Amount(r)
         /\ To(r)' = To(r)
         /\ From(r)' = From(r)
         /\ Wanted(r)' = Wanted(r)
         /\ Payment(r)' = Payment(r)
BY DEF IsTransfer, Amount, To, From, Wanted, Payment

\* A step that ends a transaction gives up its locks and no others.
LEMMA LockingReleased ==
  ASSUME Shape, Locking, NEW r \in Requests, NEW to \in {"done", "backoff"},
         input' = input,
         phase' = [phase EXCEPT ![r] = to],
         lock' = [a \in Accounts |-> IF lock[a] = r THEN NoRequest ELSE lock[a]]
  PROVE  Locking'
<1>. USE SameRequest, RequestAssumption DEF Shape
<1>1. ASSUME NEW a \in Accounts, lock'[a] # NoRequest
      PROVE  phase'[lock'[a]] \in InTransaction /\ a \in Wanted(lock'[a])
  <2>1. lock'[a] = lock[a] /\ lock[a] # r /\ lock[a] \in Requests
    BY <1>1
  <2>2. phase[lock[a]] \in InTransaction /\ a \in Wanted(lock[a])
    BY <2>1 DEF Locking
  <2>. QED BY <2>1, <2>2
<1>2. ASSUME NEW q \in Requests, phase'[q] \in {"checked", "written"},
             NEW a \in Wanted(q)
      PROVE  lock'[a] = q
  <2>1. q # r /\ phase[q] \in {"checked", "written"}
    BY <1>2
  <2>2. lock[a] = q /\ a \in Accounts
    BY <1>2, <2>1 DEF Locking, Wanted
  <2>. QED BY <2>1, <2>2
<1>3. ASSUME NEW q \in Requests, NEW a \in Held(q)', NEW b \in Wanted(q)' \ Held(q)'
      PROVE  a < b
  <2>1. q # r /\ a \in Held(q) /\ b \in Wanted(q) \ Held(q)
    BY <1>3 DEF Held, Wanted
  <2>. QED BY <2>1 DEF Locking, LocksAscend
<1>. QED BY <1>1, <1>2, <1>3 DEF Locking, LocksAscend

\* A step that touches no lock and opens no transaction keeps the lock discipline.
LEMMA LockingKept ==
  ASSUME Shape, Locking, NEW r \in Requests, NEW to \in Phases,
         input' = input,
         phase' = [phase EXCEPT ![r] = to],
         phase[r] \in InTransaction => to \in InTransaction,
         to \in {"checked", "written"} => Held(r) = Wanted(r),
         lock' = lock
  PROVE  Locking'
<1>. USE SameRequest, RequestAssumption DEF Shape
<1>1. ASSUME NEW a \in Accounts, lock'[a] # NoRequest
      PROVE  phase'[lock'[a]] \in InTransaction /\ a \in Wanted(lock'[a])
  BY <1>1 DEF Locking
<1>2. ASSUME NEW q \in Requests, phase'[q] \in {"checked", "written"},
             NEW a \in Wanted(q)
      PROVE  lock'[a] = q
  BY <1>2 DEF Locking, Held
<1>3. LocksAscend'
  BY DEF Locking, LocksAscend, Held
<1>. QED BY <1>1, <1>2, <1>3 DEF Locking

\* Every step keeps the lock discipline: exclusive, ascending, complete before the checks.
LEMMA LockingStep ==
  ASSUME Shape, Locking, [Next]_vars
  PROVE  Locking'
<1>0. input' = input
  BY InputUnchanged
<1>1. ASSUME NEW r \in Requests, NEW ans, Refuse(r, ans)
      PROVE  Locking'
  BY <1>0, <1>1, LockingReleased DEF Refuse, Finish
<1>2. ASSUME NEW r \in Requests, NEW to \in Phases, Step(r, phase[r], to),
             phase[r] \in InTransaction => to \in InTransaction,
             to \in {"checked", "written"} => Held(r) = Wanted(r),
             lock' = lock
      PROVE  Locking'
  BY <1>0, <1>2, LockingKept DEF Step
<1>3. ASSUME NEW r \in Requests, Receive(r)
      PROVE  Locking'
  <2>1. phase[r] = "new"
    BY <1>3 DEF Receive
  <2>2. CASE \E ans \in Answers : Refuse(r, ans)
    BY <1>1, <2>2
  <2>3. CASE Step(r, "new", IF IsTransfer(r) THEN "backoff" ELSE "find") /\ UNCHANGED lock
    <3>1. (IF IsTransfer(r) THEN "backoff" ELSE "find") \in {"backoff", "find"}
      OBVIOUS
    <3>. QED BY <1>2, <2>1, <2>3, <3>1 DEF Phases, InTransaction
  <2>. QED BY <1>3, <2>2, <2>3 DEF Receive, Answers, Refusals
<1>4. ASSUME NEW r \in Requests, TakeSnapshot(r)
      PROVE  Locking'
  <2>1. phase[r] = "backoff" /\ Step(r, phase[r], "locking") /\ lock' = lock
    BY <1>4 DEF TakeSnapshot, Step
  <2>. QED BY <1>2, <2>1 DEF Phases, InTransaction
<1>5. ASSUME NEW r \in Requests, NEW x \in Accounts, LockRow(r, x)
      PROVE  Locking'
  <2>. USE <1>0, SameRequest, RequestAssumption DEF Shape
  <2>1. /\ phase[r] = "locking" /\ NextRow(r, x) /\ lock[x] = NoRequest
        /\ lock' = [lock EXCEPT ![x] = r]
        /\ phase' = phase
    BY <1>5 DEF LockRow, request
  <2>2. ASSUME NEW a \in Accounts, lock'[a] # NoRequest
        PROVE  phase'[lock'[a]] \in InTransaction /\ a \in Wanted(lock'[a])
    BY <2>1, <2>2 DEF Locking, NextRow, InTransaction
  <2>3. ASSUME NEW q \in Requests, phase'[q] \in {"checked", "written"},
               NEW a \in Wanted(q)
        PROVE  lock'[a] = q
    BY <2>1, <2>3 DEF Locking
  <2>4. ASSUME NEW q \in Requests, NEW a \in Held(q)', NEW b \in Wanted(q)' \ Held(q)'
        PROVE  a < b
    <3>1. a \in Accounts /\ b \in Wanted(q) \ Held(q) /\ b \in Accounts
      BY <2>1, <2>4 DEF Held, Wanted
    <3>2. CASE a \in Held(q)
      BY <3>1, <3>2 DEF Locking, LocksAscend
    <3>3. CASE a \notin Held(q)
      <4>1. q = r /\ a = x /\ b # x
        BY <2>1, <2>4, <3>1, <3>3 DEF Held
      <4>2. a <= b
        BY <2>1, <3>1, <4>1 DEF NextRow
      <4>. QED BY <3>1, <4>1, <4>2, ChartAssumption
    <3>. QED BY <3>2, <3>3
  <2>. QED BY <2>2, <2>3, <2>4 DEF Locking, LocksAscend
<1>6. ASSUME NEW r \in Requests, Check(r)
      PROVE  Locking'
  <2>1. CASE Step(r, "locking", "checked") /\ UNCHANGED lock
    <3>1. phase[r] = "locking" /\ Held(r) = Wanted(r)
      BY <1>6 DEF Check
    <3>. QED BY <1>2, <2>1, <3>1 DEF Phases, InTransaction
  <2>2. CASE Refuse(r, Verdict(r))
    BY <1>1, <2>2
  <2>. QED BY <1>6, <2>1, <2>2 DEF Check
<1>7. ASSUME NEW r \in Requests, NEW from \in InTransaction, phase[r] = from,
             Held(r) = Wanted(r), Write(r, from)
      PROVE  Locking'
  <2>1. CASE Step(r, from, "written") /\ UNCHANGED lock
    BY <1>2, <1>7, <2>1 DEF Phases, InTransaction
  <2>2. CASE Refuse(r, "error")
    BY <1>1, <2>2
  <2>. QED BY <1>7, <2>1, <2>2 DEF Write
<1>8. ASSUME NEW r \in Requests, PostTransfer(r)
      PROVE  Locking'
  <2>1. phase[r] = "checked" /\ Write(r, "checked")
    BY <1>8 DEF PostTransfer
  <2>2. Held(r) = Wanted(r)
    <3>1. \A a \in Wanted(r) : lock[a] = r
      BY <2>1 DEF Locking
    <3>2. \A a \in Accounts : lock[a] = r => a \in Wanted(r)
      BY RequestAssumption DEF Locking
    <3>. QED BY <3>1, <3>2 DEF Held, Wanted
  <2>. QED BY <1>7, <2>1, <2>2 DEF InTransaction
<1>9. ASSUME NEW r \in Requests, FindAccount(r)
      PROVE  Locking'
  <2>1. phase[r] = "find"
    BY <1>9 DEF FindAccount
  <2>2. CASE Step(r, "find", "locking") /\ UNCHANGED lock
    BY <1>2, <2>1, <2>2 DEF Phases, InTransaction
  <2>3. CASE Refuse(r, FundingVerdict(r))
    BY <1>1, <2>3
  <2>. QED BY <1>9, <2>2, <2>3 DEF FindAccount
<1>10. ASSUME NEW r \in Requests, PostFunding(r)
       PROVE  Locking'
  BY <1>7, <1>10 DEF PostFunding, InTransaction
<1>11. ASSUME NEW r \in Requests, NEW ans, Commit(r, ans)
       PROVE  Locking'
  BY <1>0, <1>11, LockingReleased DEF Commit, Finish
<1>12. ASSUME NEW r \in Requests, SerializationFailure(r)
       PROVE  Locking'
  BY <1>0, <1>1, <1>12, LockingReleased DEF SerializationFailure
<1>13. ASSUME NEW a \in Freezable, NEW s \in Statuses, ChangeStatus(a, s)
       PROVE  Locking'
  BY <1>0, <1>13, SameRequest DEF ChangeStatus, request, Locking, LocksAscend, Held
<1>14. CASE UNCHANGED vars
  BY <1>0, <1>14, SameRequest DEF vars, request, Locking, LocksAscend, Held
<1>. QED
  BY <1>1, <1>3, <1>4, <1>5, <1>6, <1>8, <1>9, <1>10, <1>11, <1>12, <1>13, <1>14
  DEF Next, RequestStep, Created, CommitUnacknowledged, ConnectionLost

----------------------------------------------------------------------------
(* Snapshots and decisions *)

\* What a request has been through, by phase: the checks of Receive, which
\* kind of request gets where, and the unlocked look of fundAccount.
Screened ==
  \A r \in Requests :
    /\ phase[r] \notin {"new", "done"} =>
         /\ Amount(r) <= MaxMinor
         /\ IsTransfer(r) => From(r) # To(r)
    /\ phase[r] \in {"backoff", "checked"} => IsTransfer(r)
    /\ phase[r] = "find" => ~IsTransfer(r)
    /\ phase[r] \in InTransaction /\ ~IsTransfer(r) =>
         To(r) \in Customers /\ From(r) \in Treasuries

\* The snapshot of a transfer tells the truth about every row that was not
\* changed since, and no row that the transfer holds was.
Snapshots ==
  \A r \in Requests :
    phase[r] \in InTransaction /\ IsTransfer(r) =>
      /\ \A a \in Wanted(r) : lock[a] = r => a \notin stale[r]
      /\ \A a \in Wanted(r) \ stale[r] :
           /\ a \in seenActive[r] <=> status[a] = "active"
           /\ a = From(r) => seenFunds[r] = balance[a]

\* What was found allowed is still allowed.
Decisions ==
  \A r \in Requests :
    /\ phase[r] \in {"checked", "written"} /\ IsTransfer(r) => Verdict(r) = "ok"
    /\ phase[r] = "written" => Postable(r) /\ RowsAllowed(r)

\* Every step keeps what Receive screened: amounts in range, two different rows.
LEMMA ScreenedStep ==
  ASSUME Shape, Screened, [Next]_vars
  PROVE  Screened'
<1>0. input' = input
  BY InputUnchanged
<1>. USE <1>0, SameRequest, RequestAssumption DEF Shape, InTransaction
<1>1. ASSUME NEW r \in Requests, NEW to, phase' = [phase EXCEPT ![r] = to],
             \/ to = "done"
             \/ /\ Amount(r) <= MaxMinor
                /\ IsTransfer(r) => From(r) # To(r)
                /\ to \in {"backoff", "checked"} => IsTransfer(r)
                /\ to = "find" => ~IsTransfer(r)
                /\ to \in InTransaction /\ ~IsTransfer(r) =>
                     To(r) \in Customers /\ From(r) \in Treasuries
      PROVE  Screened'
  BY <1>1 DEF Screened
<1>2. ASSUME NEW r \in Requests, NEW ans, Finish(r, ans)
      PROVE  Screened'
  BY <1>1, <1>2 DEF Finish
<1>3. ASSUME NEW r \in Requests, Receive(r)
      PROVE  Screened'
  <2>1. CASE Refuse(r, "INVALID_AMOUNT") \/ Refuse(r, "SELF_TRANSFER")
    BY <1>2, <2>1 DEF Refuse
  <2>2. CASE /\ Amount(r) <= MaxMinor
             /\ ~(IsTransfer(r) /\ From(r) = To(r))
             /\ Step(r, "new", IF IsTransfer(r) THEN "backoff" ELSE "find")
    BY <1>1, <2>2 DEF Step
  <2>. QED BY <1>3, <2>1, <2>2 DEF Receive
<1>4. ASSUME NEW r \in Requests, TakeSnapshot(r)
      PROVE  Screened'
  BY <1>4 DEF TakeSnapshot, Step, Screened
<1>5. ASSUME NEW r \in Requests, NEW a \in Accounts, LockRow(r, a)
      PROVE  Screened'
  BY <1>5 DEF LockRow, request, Screened
<1>6. ASSUME NEW r \in Requests, Check(r)
      PROVE  Screened'
  <2>1. CASE Refuse(r, Verdict(r))
    BY <1>2, <2>1 DEF Refuse
  <2>2. CASE Step(r, "locking", "checked")
    BY <1>6, <2>2 DEF Step, Screened, Check
  <2>. QED BY <1>6, <2>1, <2>2 DEF Check
<1>7. ASSUME NEW r \in Requests, NEW from \in {"locking", "checked"}, Write(r, from)
      PROVE  Screened'
  <2>1. CASE Refuse(r, "error")
    BY <1>2, <2>1 DEF Refuse
  <2>2. CASE Step(r, from, "written")
    BY <2>2 DEF Step, Screened
  <2>. QED BY <1>7, <2>1, <2>2 DEF Write
<1>8. ASSUME NEW r \in Requests, FindAccount(r)
      PROVE  Screened'
  <2>1. CASE Refuse(r, FundingVerdict(r))
    BY <1>2, <2>1 DEF Refuse
  <2>2. CASE Step(r, "find", "locking") /\ FundingVerdict(r) = "ok"
    <3>1. ~IsTransfer(r)
      BY <2>2 DEF Step, Screened
    <3>2. To(r) \in Customers /\ From(r) # NoAccount
      BY <2>2 DEF FundingVerdict
    <3>3. From(r) = TreasuryOf(Currency[To(r)])
      BY <3>1, <3>2 DEF From, Customers
    <3>4. From(r) \in Treasuries
      BY <3>2, <3>3, Treasury
    <3>. QED BY <2>2, <3>1, <3>2, <3>4 DEF Step, Screened
  <2>. QED BY <1>8, <2>1, <2>2 DEF FindAccount
<1>9. ASSUME NEW r \in Requests, SerializationFailure(r)
      PROVE  Screened'
  <2>1. CASE Refuse(r, "TRANSFER_RETRY_EXHAUSTED")
    BY <1>2, <2>1 DEF Refuse
  <2>2. CASE phase' = [phase EXCEPT ![r] = "backoff"]
    BY <1>9, <2>2 DEF Screened, SerializationFailure
  <2>. QED BY <1>9, <2>1, <2>2 DEF SerializationFailure
<1>10. ASSUME NEW a \in Freezable, NEW s \in Statuses, ChangeStatus(a, s)
       PROVE  Screened'
  BY <1>10 DEF ChangeStatus, request, Screened
<1>11. CASE UNCHANGED vars
  BY <1>11 DEF vars, request, Screened
<1>. QED
  BY <1>2, <1>3, <1>4, <1>5, <1>6, <1>7, <1>8, <1>9, <1>10, <1>11
  DEF Next, RequestStep, Created, CommitUnacknowledged, ConnectionLost, PostTransfer,
      PostFunding, Commit, Refuse

\* A posting leaves the rows it does not name alone.
LEMMA MovedElsewhere ==
  ASSUME NEW bal \in [Accounts -> Int], NEW from, NEW to, NEW amount \in Int,
         NEW a \in Accounts \ {from, to}
  PROVE  Moved(bal, from, to, amount)[a] = bal[a]
BY DEF Moved

\* The rows a commit changes are locked by the committing request.
LEMMA WrittenRowsAreLocked ==
  ASSUME Shape, Locking, NEW r \in Requests, phase[r] = "written",
         NEW a \in Accounts \cap {From(r), To(r)}
  PROVE  lock[a] = r
BY DEF Locking, Wanted

\* A step that changes no row and no snapshot keeps what the snapshots say.
LEMMA SnapshotsKept ==
  ASSUME Shape, Snapshots, NEW r \in Requests, input' = input,
         UNCHANGED <<balance, status>>,
         phase'[r] \notin InTransaction
           \/ ( /\ phase[r] \in InTransaction
                /\ lock' = lock
                /\ seenFunds'[r] = seenFunds[r]
                /\ seenActive'[r] = seenActive[r]
                /\ stale'[r] = stale[r] ),
         \A q \in Requests \ {r} :
           /\ phase'[q] = phase[q]
           /\ seenFunds'[q] = seenFunds[q]
           /\ seenActive'[q] = seenActive[q]
           /\ stale'[q] = stale[q]
           /\ \A a \in Accounts : lock'[a] = q => lock[a] = q
  PROVE  Snapshots'
<1>. USE SameRequest
<1>1. ASSUME NEW q \in Requests, phase'[q] \in InTransaction, IsTransfer(q)
      PROVE  /\ \A a \in Wanted(q) : lock'[a] = q => a \notin stale'[q]
             /\ \A a \in Wanted(q) \ stale'[q] :
                  /\ a \in seenActive'[q] <=> status'[a] = "active"
                  /\ a = From(q) => seenFunds'[q] = balance'[a]
  <2>1. CASE q = r
    BY <1>1, <2>1 DEF Snapshots
  <2>2. CASE q # r
    <3>1. Wanted(q) \subseteq Accounts
      BY DEF Wanted
    <3>. QED BY <1>1, <2>2, <3>1 DEF Snapshots
  <2>. QED BY <2>1, <2>2
<1>. QED BY <1>1 DEF Snapshots

\* Every step keeps a snapshot true of the rows that are not marked stale.
LEMMA SnapshotsStep ==
  ASSUME Shape, Locking, Screened, Snapshots, [Next]_vars
  PROVE  Snapshots'
<1>0. input' = input
  BY InputUnchanged
<1>. USE <1>0, SameRequest DEF InTransaction
<1>1. ASSUME NEW r \in Requests, NEW ans, Refuse(r, ans)
      PROVE  Snapshots'
  <2>1. /\ phase'[r] \notin InTransaction
        /\ UNCHANGED <<balance, status>>
        /\ \A q \in Requests \ {r} :
             /\ phase'[q] = phase[q]
             /\ seenFunds'[q] = seenFunds[q]
             /\ seenActive'[q] = seenActive[q]
             /\ stale'[q] = stale[q]
             /\ \A a \in Accounts : lock'[a] = q => lock[a] = q
    BY <1>1, RequestAssumption DEF Refuse, Finish, tables, Shape
  <2>. QED BY <2>1, SnapshotsKept
<1>2. ASSUME NEW r \in Requests, NEW from, NEW to, Step(r, from, to),
             to \in InTransaction => from \in InTransaction,
             UNCHANGED <<snapshot, lock, tables>>
      PROVE  Snapshots'
  <2>1. /\ phase'[r] = to /\ phase[r] = from
        /\ UNCHANGED <<balance, status, seenFunds, seenActive, stale, lock>>
        /\ \A q \in Requests \ {r} : phase'[q] = phase[q]
    BY <1>2 DEF Step, snapshot, tables, Shape
  <2>. QED BY <1>2, <2>1, SnapshotsKept
<1>3. ASSUME NEW r \in Requests, Receive(r)
      PROVE  Snapshots'
  <2>1. (IF IsTransfer(r) THEN "backoff" ELSE "find") \notin InTransaction
    OBVIOUS
  <2>. QED BY <1>1, <1>2, <1>3, <2>1 DEF Receive
<1>4. ASSUME NEW r \in Requests, TakeSnapshot(r)
      PROVE  Snapshots'
  <2>1. /\ stale'[r] = {}
        /\ seenFunds'[r] = IF From(r) \in Accounts THEN balance[From(r)] ELSE 0
        /\ seenActive'[r] = {a \in Wanted(r) : status[a] = "active"}
        /\ UNCHANGED <<balance, status, lock>>
        /\ \A q \in Requests \ {r} :
             /\ phase'[q] = phase[q]
             /\ seenFunds'[q] = seenFunds[q]
             /\ seenActive'[q] = seenActive[q]
             /\ stale'[q] = stale[q]
    BY <1>4 DEF TakeSnapshot, Step, tables, Shape
  <2>2. Wanted(r) \subseteq Accounts
    BY DEF Wanted
  <2>. QED BY <2>1, <2>2 DEF Snapshots
<1>5. ASSUME NEW r \in Requests, NEW x \in Accounts, LockRow(r, x)
      PROVE  Snapshots'
  <2>1. /\ UNCHANGED <<balance, status, phase, seenFunds, seenActive, stale>>
        /\ \A q \in Requests : \A a \in Accounts :
             lock'[a] = q => lock[a] = q \/ (q = r /\ a = x)
        /\ x \notin stale[r]
    BY <1>5 DEF LockRow, request, snapshot, tables, Shape
  <2>2. \A q : Wanted(q) \subseteq Accounts
    BY DEF Wanted
  <2>. QED BY <2>1, <2>2 DEF Snapshots
<1>6. ASSUME NEW r \in Requests, Check(r)
      PROVE  Snapshots'
  BY <1>1, <1>2, <1>6 DEF Check
<1>7. ASSUME NEW r \in Requests, NEW from \in InTransaction, Write(r, from)
      PROVE  Snapshots'
  BY <1>1, <1>2, <1>7 DEF Write
<1>8. ASSUME NEW r \in Requests, FindAccount(r)
      PROVE  Snapshots'
  <2>1. CASE Step(r, "find", "locking") /\ UNCHANGED <<snapshot, lock, tables>>
    <3>1. ~IsTransfer(r)
      BY <2>1 DEF Step, Screened
    <3>2. /\ \A q \in Requests \ {r} : phase'[q] = phase[q]
          /\ UNCHANGED <<balance, status, seenFunds, seenActive, stale, lock>>
      BY <2>1 DEF Step, Shape, snapshot, tables
    <3>. QED BY <3>1, <3>2 DEF Snapshots
  <2>. QED BY <1>1, <1>8, <2>1 DEF FindAccount
<1>9. ASSUME NEW r \in Requests, NEW ans, Commit(r, ans)
      PROVE  Snapshots'
  <2>1. /\ phase[r] = "written" /\ phase'[r] = "done"
        /\ status' = status
        /\ balance' = Moved(balance, From(r), To(r), Amount(r))
        /\ \A q \in Requests \ {r} :
             /\ phase'[q] = phase[q]
             /\ seenFunds'[q] = seenFunds[q]
             /\ seenActive'[q] = seenActive[q]
             /\ stale'[q] = Outdate(q, {From(r), To(r)})
             /\ \A a \in Accounts : lock'[a] = q => lock[a] = q
    BY <1>9, RequestAssumption DEF Commit, Finish, Shape
  <2>2. ASSUME NEW q \in Requests, phase'[q] \in InTransaction, IsTransfer(q)
        PROVE  /\ \A a \in Wanted(q) : lock'[a] = q => a \notin stale'[q]
               /\ \A a \in Wanted(q) \ stale'[q] :
                    /\ a \in seenActive'[q] <=> status'[a] = "active"
                    /\ a = From(q) => seenFunds'[q] = balance'[a]
    <3>1. q # r /\ phase[q] \in InTransaction
      BY <2>1, <2>2
    <3>2. stale'[q] = stale[q] \cup ({From(r), To(r)} \cap Wanted(q))
      BY <2>1, <2>2, <3>1 DEF Outdate
    <3>3. ASSUME NEW a \in Wanted(q), lock'[a] = q
          PROVE  a \notin stale'[q]
      <4>1. a \in Accounts /\ lock[a] = q
        BY <2>1, <3>1, <3>3 DEF Wanted
      <4>2. a \notin {From(r), To(r)}
        BY <2>1, <3>1, <4>1, WrittenRowsAreLocked
      <4>. QED BY <2>2, <3>1, <3>2, <4>1, <4>2 DEF Snapshots
    <3>4. ASSUME NEW a \in Wanted(q) \ stale'[q]
          PROVE  /\ a \in seenActive'[q] <=> status'[a] = "active"
                 /\ a = From(q) => seenFunds'[q] = balance'[a]
      <4>1. a \in Accounts \ {From(r), To(r)} /\ a \in Wanted(q) \ stale[q]
        BY <3>2, <3>4 DEF Wanted
      <4>2. Amount(r) \in Int /\ balance \in [Accounts -> Int]
        BY Wants DEF Shape
      <4>3. balance'[a] = balance[a]
        BY <2>1, <4>1, <4>2, MovedElsewhere
      <4>. QED BY <2>1, <2>2, <3>1, <4>1, <4>3 DEF Snapshots
    <3>. QED BY <3>3, <3>4
  <2>. QED BY <2>2 DEF Snapshots
<1>10. ASSUME NEW r \in Requests, SerializationFailure(r)
       PROVE  Snapshots'
  <2>1. CASE Refuse(r, "TRANSFER_RETRY_EXHAUSTED")
    BY <1>1, <2>1
  <2>2. CASE ~Refuse(r, "TRANSFER_RETRY_EXHAUSTED")
    <3>1. /\ phase'[r] \notin InTransaction
          /\ UNCHANGED <<balance, status>>
          /\ \A q \in Requests \ {r} :
               /\ phase'[q] = phase[q]
               /\ seenFunds'[q] = seenFunds[q]
               /\ seenActive'[q] = seenActive[q]
               /\ stale'[q] = stale[q]
               /\ \A a \in Accounts : lock'[a] = q => lock[a] = q
      BY <1>10, <2>2, RequestAssumption DEF SerializationFailure, tables, Shape
    <3>. QED BY <3>1, SnapshotsKept
  <2>. QED BY <2>1, <2>2
<1>11. ASSUME NEW x \in Freezable, NEW s \in Statuses, ChangeStatus(x, s)
       PROVE  Snapshots'
  <2>1. /\ lock[x] = NoRequest
        /\ UNCHANGED <<balance, phase, seenFunds, seenActive, lock>>
        /\ status' = [status EXCEPT ![x] = s]
        /\ \A q \in Requests : stale'[q] = Outdate(q, {x})
    BY <1>11 DEF ChangeStatus, request
  <2>2. ASSUME NEW q \in Requests, phase[q] \in InTransaction, IsTransfer(q)
        PROVE  /\ \A a \in Wanted(q) : lock[a] = q => a \notin stale'[q]
               /\ \A a \in Wanted(q) \ stale'[q] :
                    /\ a \in seenActive[q] <=> status'[a] = "active"
                    /\ a = From(q) => seenFunds[q] = balance[a]
    <3>1. stale'[q] = stale[q] \cup ({x} \cap Wanted(q))
      BY <2>1, <2>2 DEF Outdate
    <3>2. q # NoRequest /\ Wanted(q) \subseteq Accounts
      BY RequestAssumption DEF Wanted
    <3>. QED BY <2>1, <2>2, <3>1, <3>2 DEF Snapshots, Shape
  <2>. QED BY <2>1, <2>2 DEF Snapshots
<1>12. CASE UNCHANGED vars
  BY <1>12 DEF vars, request, snapshot, tables, Snapshots
<1>. QED
  BY <1>1, <1>3, <1>4, <1>5, <1>6, <1>7, <1>8, <1>9, <1>10, <1>11, <1>12
  DEF Next, RequestStep, Created, CommitUnacknowledged, ConnectionLost, PostTransfer,
      PostFunding

\* The verdict depends on the snapshot and the input only.
LEMMA VerdictSame ==
  ASSUME input' = input, NEW r,
         seenFunds'[r] = seenFunds[r], seenActive'[r] = seenActive[r]
  PROVE  Verdict(r)' = Verdict(r)
BY SameRequest DEF Verdict

\* Whether a payment may be posted depends on its own two rows only.
LEMMA PostableSame ==
  ASSUME Shape, Shape', input' = input, NEW r \in Requests,
         Postable(r), RowsAllowed(r),
         \A a \in Wanted(r) : balance'[a] = balance[a] /\ status'[a] = status[a]
  PROVE  Postable(r)' /\ RowsAllowed(r)'
<1>1. {From(r), To(r)} \subseteq Accounts /\ Wanted(r) = {From(r), To(r)}
  BY DEF Postable, Wanted
<1>2. Amount(r) \in Int /\ balance \in [Accounts -> Int] /\ balance' \in [Accounts -> Int]
  BY Wants DEF Shape
<1>3. \A a \in {From(r), To(r)} :
        Moved(balance', From(r), To(r), Amount(r))[a]
          = Moved(balance, From(r), To(r), Amount(r))[a]
  BY <1>1, <1>2 DEF Moved
<1>4. Postable(r)'
  BY <1>1, SameRequest DEF Postable
<1>5. RowsAllowed(r)'
  BY <1>3, SameRequest DEF RowsAllowed
<1>. QED BY <1>4, <1>5

\* A step that leaves a request, its snapshot and its rows alone keeps its decision.
LEMMA DecisionsKept ==
  ASSUME Shape, Shape', Decisions, NEW r \in Requests, input' = input,
         UNCHANGED <<balance, status>>,
         \/ phase'[r] \notin {"checked", "written"}
         \/ /\ IsTransfer(r) => Verdict(r) = "ok"
            /\ phase'[r] = "written" => Postable(r) /\ RowsAllowed(r)
            /\ seenFunds'[r] = seenFunds[r]
            /\ seenActive'[r] = seenActive[r],
         \A q \in Requests \ {r} :
           /\ phase'[q] = phase[q]
           /\ seenFunds'[q] = seenFunds[q]
           /\ seenActive'[q] = seenActive[q]
  PROVE  Decisions'
<1>1. ASSUME NEW q \in Requests, phase'[q] \in {"checked", "written"}, IsTransfer(q)
      PROVE  Verdict(q)' = "ok"
  BY <1>1, VerdictSame DEF Decisions
<1>2. ASSUME NEW q \in Requests, phase'[q] = "written"
      PROVE  Postable(q)' /\ RowsAllowed(q)'
  <2>1. Postable(q) /\ RowsAllowed(q)
    BY <1>2 DEF Decisions
  <2>. QED BY <2>1, PostableSame
<1>. QED BY <1>1, <1>2, SameRequest DEF Decisions

\* Every step keeps what a request decided true until it commits.
LEMMA DecisionsStep ==
  ASSUME Shape, Shape', Locking, Screened, Decisions, [Next]_vars
  PROVE  Decisions'
<1>0. input' = input
  BY InputUnchanged
<1>. USE <1>0
<1>1. ASSUME NEW r \in Requests, NEW ans, Refuse(r, ans)
      PROVE  Decisions'
  <2>1. /\ phase'[r] \notin {"checked", "written"}
        /\ UNCHANGED <<balance, status>>
        /\ \A q \in Requests \ {r} :
             /\ phase'[q] = phase[q]
             /\ seenFunds'[q] = seenFunds[q]
             /\ seenActive'[q] = seenActive[q]
    BY <1>1 DEF Refuse, Finish, tables, Shape
  <2>. QED BY <2>1, DecisionsKept
<1>2. ASSUME NEW r \in Requests, NEW from, NEW to, Step(r, from, to),
             UNCHANGED <<snapshot, tables>>,
             \/ to \notin {"checked", "written"}
             \/ /\ IsTransfer(r) => Verdict(r) = "ok"
                /\ to = "written" => Postable(r) /\ RowsAllowed(r)
      PROVE  Decisions'
  <2>1. /\ phase'[r] = to
        /\ UNCHANGED <<balance, status, seenFunds, seenActive>>
        /\ \A q \in Requests \ {r} : phase'[q] = phase[q]
    BY <1>2 DEF Step, snapshot, tables, Shape
  <2>. QED BY <1>2, <2>1, DecisionsKept
<1>3. ASSUME NEW r \in Requests, Receive(r)
      PROVE  Decisions'
  <2>1. (IF IsTransfer(r) THEN "backoff" ELSE "find") \notin {"checked", "written"}
    OBVIOUS
  <2>. QED BY <1>1, <1>2, <1>3, <2>1 DEF Receive
<1>4. ASSUME NEW r \in Requests, TakeSnapshot(r)
      PROVE  Decisions'
  <2>1. /\ phase'[r] \notin {"checked", "written"}
        /\ UNCHANGED <<balance, status>>
        /\ \A q \in Requests \ {r} :
             /\ phase'[q] = phase[q]
             /\ seenFunds'[q] = seenFunds[q]
             /\ seenActive'[q] = seenActive[q]
    BY <1>4 DEF TakeSnapshot, Step, tables, Shape
  <2>. QED BY <2>1, DecisionsKept
<1>5. ASSUME NEW r \in Requests, NEW a \in Accounts, LockRow(r, a)
      PROVE  Decisions'
  <2>1. /\ phase[r] = "locking"
        /\ UNCHANGED <<phase, seenFunds, seenActive, balance, status>>
    BY <1>5 DEF LockRow, request, snapshot, tables
  <2>. QED BY <2>1, DecisionsKept
<1>6. ASSUME NEW r \in Requests, Check(r)
      PROVE  Decisions'
  BY <1>1, <1>2, <1>6 DEF Check
<1>7. ASSUME NEW r \in Requests, NEW from, Write(r, from),
             IsTransfer(r) => Verdict(r) = "ok"
      PROVE  Decisions'
  BY <1>1, <1>2, <1>7 DEF Write
<1>8. ASSUME NEW r \in Requests, PostTransfer(r)
      PROVE  Decisions'
  BY <1>7, <1>8 DEF PostTransfer, Decisions
<1>9. ASSUME NEW r \in Requests, FindAccount(r)
      PROVE  Decisions'
  BY <1>1, <1>2, <1>9 DEF FindAccount
<1>10. ASSUME NEW r \in Requests, PostFunding(r)
       PROVE  Decisions'
  BY <1>7, <1>10 DEF PostFunding
<1>11. ASSUME NEW r \in Requests, NEW ans, Commit(r, ans)
       PROVE  Decisions'
  <2>1. /\ phase[r] = "written" /\ phase'[r] = "done"
        /\ status' = status
        /\ balance' = Moved(balance, From(r), To(r), Amount(r))
        /\ \A q \in Requests \ {r} :
             /\ phase'[q] = phase[q]
             /\ seenFunds'[q] = seenFunds[q]
             /\ seenActive'[q] = seenActive[q]
    BY <1>11 DEF Commit, Finish, Shape
  <2>2. ASSUME NEW q \in Requests, phase'[q] \in {"checked", "written"}, IsTransfer(q)
        PROVE  Verdict(q)' = "ok"
    BY <2>1, <2>2, VerdictSame DEF Decisions
  <2>3. ASSUME NEW q \in Requests, phase'[q] = "written"
        PROVE  Postable(q)' /\ RowsAllowed(q)'
    <3>1. q # r /\ phase[q] = "written" /\ Postable(q) /\ RowsAllowed(q)
      BY <2>1, <2>3 DEF Decisions
    <3>2. ASSUME NEW a \in Wanted(q)
          PROVE  balance'[a] = balance[a]
      <4>1. a \in Accounts /\ lock[a] = q
        BY <3>1 DEF Locking, Wanted
      <4>2. a \notin {From(r), To(r)}
        BY <2>1, <3>1, <4>1, WrittenRowsAreLocked
      <4>3. Amount(r) \in Int /\ balance \in [Accounts -> Int]
        BY Wants DEF Shape
      <4>. QED BY <2>1, <4>1, <4>2, <4>3, MovedElsewhere
    <3>. QED BY <2>1, <3>1, <3>2, PostableSame
  <2>. QED BY <2>2, <2>3, SameRequest DEF Decisions
<1>12. ASSUME NEW r \in Requests, SerializationFailure(r)
       PROVE  Decisions'
  <2>1. CASE Refuse(r, "TRANSFER_RETRY_EXHAUSTED")
    BY <1>1, <2>1
  <2>2. CASE ~Refuse(r, "TRANSFER_RETRY_EXHAUSTED")
    <3>1. /\ phase'[r] \notin {"checked", "written"}
          /\ UNCHANGED <<balance, status>>
          /\ \A q \in Requests \ {r} :
               /\ phase'[q] = phase[q]
               /\ seenFunds'[q] = seenFunds[q]
               /\ seenActive'[q] = seenActive[q]
      BY <1>12, <2>2 DEF SerializationFailure, tables, Shape
    <3>. QED BY <3>1, DecisionsKept
  <2>. QED BY <2>1, <2>2
<1>13. ASSUME NEW x \in Freezable, NEW s \in Statuses, ChangeStatus(x, s)
       PROVE  Decisions'
  <2>1. /\ lock[x] = NoRequest
        /\ UNCHANGED <<balance, phase, seenFunds, seenActive, lock>>
        /\ status' = [status EXCEPT ![x] = s]
    BY <1>13 DEF ChangeStatus, request
  <2>2. ASSUME NEW q \in Requests, phase'[q] \in {"checked", "written"}, IsTransfer(q)
        PROVE  Verdict(q)' = "ok"
    BY <2>1, <2>2, VerdictSame DEF Decisions
  <2>3. ASSUME NEW q \in Requests, phase'[q] = "written"
        PROVE  Postable(q)' /\ RowsAllowed(q)'
    <3>1. phase[q] = "written" /\ Postable(q) /\ RowsAllowed(q)
      BY <2>1, <2>3 DEF Decisions
    <3>2. ASSUME NEW a \in Wanted(q)
          PROVE  status'[a] = status[a]
      <4>1. a \in Accounts /\ lock[a] = q /\ q # NoRequest
        BY <3>1, RequestAssumption DEF Locking, Wanted
      <4>. QED BY <2>1, <4>1 DEF Shape
    <3>. QED BY <2>1, <3>1, <3>2, PostableSame
  <2>. QED BY <2>2, <2>3, SameRequest DEF Decisions
<1>14. CASE UNCHANGED vars
  BY <1>14, SameRequest, VerdictSame, PostableSame
  DEF vars, request, snapshot, tables, Decisions
<1>. QED
  BY <1>1, <1>3, <1>4, <1>5, <1>6, <1>8, <1>9, <1>10, <1>11, <1>12, <1>13, <1>14
  DEF Next, RequestStep, Created, CommitUnacknowledged, ConnectionLost

----------------------------------------------------------------------------
(* Balances, answers and books *)

\* A step of r that writes nothing the others can read.
Quiet(r) ==
  /\ UNCHANGED tables
  /\ phase[r] # "done"
  /\ answer'[r] \in (Answers \ {"created"}) \cup {answer[r]}
  /\ \A q \in Requests \ {r} : phase'[q] = phase[q] /\ answer'[q] = answer[q]
  /\ \A q \in Requests :
       seenFunds'[q] \in {0, seenFunds[q]} \cup {balance[a] : a \in Accounts}

\* A step either commits one request, or changes a status, or leaves every table alone.
LEMMA StepKinds ==
  ASSUME Shape, [Next]_vars
  PROVE  \/ \E r \in Requests : Quiet(r)
         \/ \E r \in Requests, ans \in {"created", "error"} : Commit(r, ans)
         \/ \E a \in Freezable, s \in Statuses : ChangeStatus(a, s)
         \/ UNCHANGED vars
<1>1. ASSUME NEW r \in Requests, NEW ans \in Answers \ {"created"},
             phase[r] # "done", Refuse(r, ans)
      PROVE  Quiet(r)
  BY <1>1 DEF Refuse, Finish, Quiet, Shape
<1>2. ASSUME NEW r \in Requests, NEW from, NEW to, Step(r, from, to), from # "done",
             UNCHANGED <<answer, snapshot, tables>>
      PROVE  Quiet(r)
  BY <1>2 DEF Step, snapshot, Quiet, Shape
<1>3. ASSUME NEW r \in Requests, Receive(r)
      PROVE  Quiet(r)
  BY <1>1, <1>2, <1>3 DEF Receive, Answers, Refusals
<1>4. ASSUME NEW r \in Requests, TakeSnapshot(r)
      PROVE  Quiet(r)
  <2>1. seenFunds'[r] \in {0} \cup {balance[a] : a \in Accounts}
    BY <1>4 DEF TakeSnapshot, Shape
  <2>. QED BY <1>4, <2>1 DEF TakeSnapshot, Step, Quiet, Shape
<1>5. ASSUME NEW r \in Requests, NEW a \in Accounts, LockRow(r, a)
      PROVE  Quiet(r)
  BY <1>5 DEF LockRow, request, snapshot, Quiet, Shape
<1>6. ASSUME NEW r \in Requests, Check(r)
      PROVE  Quiet(r)
  <2>1. Verdict(r) # "ok" => Verdict(r) \in Answers \ {"created"}
    BY DEF Verdict, Answers, Refusals
  <2>. QED BY <1>1, <1>2, <1>6, <2>1 DEF Check
<1>7. ASSUME NEW r \in Requests, NEW from \in {"checked", "locking"},
             phase[r] = from, Write(r, from)
      PROVE  Quiet(r)
  BY <1>1, <1>2, <1>7 DEF Write, Answers
<1>8. ASSUME NEW r \in Requests, FindAccount(r)
      PROVE  Quiet(r)
  <2>1. FundingVerdict(r) # "ok" => FundingVerdict(r) \in Answers \ {"created"}
    BY DEF FundingVerdict, Answers, Refusals
  <2>. QED BY <1>1, <1>2, <1>8, <2>1 DEF FindAccount
<1>9. ASSUME NEW r \in Requests, SerializationFailure(r)
      PROVE  Quiet(r)
  <2>1. CASE Refuse(r, "TRANSFER_RETRY_EXHAUSTED")
    BY <1>1, <1>9, <2>1 DEF SerializationFailure, InTransaction, Answers
  <2>2. CASE ~Refuse(r, "TRANSFER_RETRY_EXHAUSTED")
    BY <1>9, <2>2 DEF SerializationFailure, InTransaction, Quiet, Shape
  <2>. QED BY <2>1, <2>2
<1>10. ASSUME NEW r \in Requests, ConnectionLost(r)
       PROVE  Quiet(r)
  BY <1>1, <1>10 DEF ConnectionLost, InTransaction, Answers
<1>. QED
  BY <1>3, <1>4, <1>5, <1>6, <1>7, <1>8, <1>9, <1>10
  DEF Next, RequestStep, PostTransfer, PostFunding, Created, CommitUnacknowledged

Funds ==
  /\ balance \in [Accounts -> Balances]
  /\ seenFunds \in [Requests -> Balances]
  /\ NoOverdraft

\* A commit changes two rows, each within its constraint.
LEMMA CommitFunds ==
  ASSUME Shape, Funds, Decisions, NEW r \in Requests, NEW ans, Commit(r, ans),
         NEW a \in Accounts
  PROVE  balance'[a] \in Balances /\ (a \in Customers => balance'[a] >= 0)
<1>1. /\ phase[r] = "written"
      /\ balance' = Moved(balance, From(r), To(r), Amount(r))
  BY DEF Commit
<1>2. CASE a \in {From(r), To(r)}
  <2>1. RowAllowed(a, balance'[a])
    BY <1>1, <1>2 DEF Decisions, RowsAllowed
  <2>2. balance'[a] \in Int
    <3>1. Amount(r) \in Int /\ balance \in [Accounts -> Int]
      BY Wants DEF Shape
    <3>. QED BY <1>1, <3>1, MovedType
  <2>. QED BY <2>1, <2>2, OpeningAssumption
           DEF RowAllowed, Representable, Balances, Customers
<1>3. CASE a \notin {From(r), To(r)}
  <2>1. Amount(r) \in Int /\ balance \in [Accounts -> Int]
    BY Wants DEF Shape
  <2>2. balance'[a] = balance[a]
    BY <1>1, <1>3, <2>1, MovedElsewhere
  <2>. QED BY <2>2 DEF Funds, NoOverdraft
<1>. QED BY <1>2, <1>3

\* Every step keeps the balances within accounts_check and the range of a bigint.
LEMMA FundsStep ==
  ASSUME Shape, Shape', Decisions, Funds, [Next]_vars
  PROVE  Funds'
<1>1. ASSUME NEW r \in Requests, Quiet(r)
      PROVE  Funds'
  <2>1. balance' = balance
    BY <1>1 DEF Quiet, tables
  <2>2. ASSUME NEW q \in Requests
        PROVE  seenFunds'[q] \in Balances
    <3>1. 0 \in Balances
      BY OpeningAssumption DEF Balances
    <3>. QED BY <1>1, <3>1 DEF Quiet, Funds
  <2>. QED BY <2>1, <2>2 DEF Funds, NoOverdraft, Shape
<1>2. ASSUME NEW r \in Requests, NEW ans, Commit(r, ans)
      PROVE  Funds'
  <2>1. seenFunds' \in [Requests -> Balances]
    <3>1. 0 \in Balances
      BY OpeningAssumption DEF Balances
    <3>. QED BY <1>2, <3>1 DEF Commit, Finish, Funds
  <2>2. \A a \in Accounts : balance'[a] \in Balances /\ (a \in Customers => balance'[a] >= 0)
    BY <1>2, CommitFunds
  <2>. QED BY <2>1, <2>2 DEF Funds, NoOverdraft, Shape, Customers
<1>3. ASSUME NEW a \in Freezable, NEW s \in Statuses, ChangeStatus(a, s)
      PROVE  Funds'
  BY <1>3 DEF ChangeStatus, Funds, NoOverdraft
<1>4. CASE UNCHANGED vars
  BY <1>4 DEF vars, snapshot, tables, Funds, NoOverdraft
<1>. QED BY <1>1, <1>2, <1>3, <1>4, StepKinds

\* The ledger holds what the requests asked for, and each answer fits it.
Books ==
  /\ AnswersMatchBooks
  /\ \A p \in ledger : p.id \in Requests /\ p = Payment(p.id)
  /\ OnlyOwnerSpends

\* Every step keeps answers, payments, transfers rows and events in agreement.
LEMMA BooksStep ==
  ASSUME Shape, Shape', Screened, Decisions, Books, [Next]_vars
  PROVE  Books'
<1>0. input' = input
  BY InputUnchanged
<1>. USE <1>0, SameRequest
<1>1. ASSUME NEW r \in Requests, Quiet(r)
      PROVE  Books'
  <2>1. /\ UNCHANGED <<ledger, transfers, events>>
        /\ phase[r] # "done"
        /\ answer'[r] \in (Answers \ {"created"}) \cup {answer[r]}
        /\ \A q \in Requests \ {r} : phase'[q] = phase[q] /\ answer'[q] = answer[q]
    BY <1>1 DEF Quiet, tables
  <2>2. Paid' = Paid /\ r \notin Paid
    BY <2>1 DEF Paid, Books, AnswersMatchBooks
  <2>3. AnswersMatchBooks'
    BY <2>1, <2>2 DEF Books, AnswersMatchBooks
  <2>. QED BY <2>1, <2>3 DEF Books, OnlyOwnerSpends
<1>2. ASSUME NEW r \in Requests, NEW ans \in {"created", "error"}, Commit(r, ans)
      PROVE  Books'
  <2>1. /\ phase[r] = "written"
        /\ phase' = [phase EXCEPT ![r] = "done"]
        /\ answer' = [answer EXCEPT ![r] = ans]
        /\ ledger' = ledger \cup {Payment(r)}
        /\ transfers' = IF IsTransfer(r) THEN transfers \cup {r} ELSE transfers
        /\ events' = events \cup {r}
    BY <1>2 DEF Commit, Finish
  <2>2. Payment(r).id = r /\ Payment(r).from = From(r)
    BY DEF Payment
  <2>3. Paid' = Paid \cup {r}
    BY <2>1, <2>2 DEF Paid
  <2>4. r \notin Paid
    BY <2>1 DEF Books, AnswersMatchBooks
  <2>5. AnswersMatchBooks'
    BY <2>1, <2>3, <2>4 DEF Books, AnswersMatchBooks, Shape, Refusals
  <2>6. From(r) \in Customers => IsTransfer(r) /\ Owner[From(r)] = input[r].caller
    <3>1. CASE IsTransfer(r)
      <4>1. Verdict(r) = "ok"
        BY <2>1, <3>1 DEF Decisions
      <4>. QED BY <3>1, <4>1 DEF Verdict
    <3>2. CASE ~IsTransfer(r)
      BY <2>1, <3>2 DEF Screened, InTransaction, Customers
    <3>. QED BY <3>1, <3>2
  <2>7. OnlyOwnerSpends'
    BY <2>1, <2>2, <2>6 DEF Books, OnlyOwnerSpends
  <2>8. \A p \in ledger' : p.id \in Requests /\ p = Payment(p.id)'
    BY <2>1, <2>2 DEF Books
  <2>. QED BY <2>5, <2>7, <2>8 DEF Books
<1>3. ASSUME NEW a \in Freezable, NEW s \in Statuses, ChangeStatus(a, s)
      PROVE  Books'
  BY <1>3 DEF ChangeStatus, request, Books, AnswersMatchBooks, Paid, OnlyOwnerSpends
<1>4. CASE UNCHANGED vars
  BY <1>4 DEF vars, request, tables, Books, AnswersMatchBooks, Paid, OnlyOwnerSpends
<1>. QED BY <1>1, <1>2, <1>3, <1>4, StepKinds

----------------------------------------------------------------------------
(* The inductive invariant and what follows from it *)

IInv == Shape /\ Locking /\ Screened /\ Snapshots /\ Decisions /\ Funds /\ Books

\* The invariant holds before the first request.
LEMMA InitIInv == Init => IInv
<1>. SUFFICES ASSUME Init PROVE IInv
  OBVIOUS
<1>. USE RequestAssumption, ChartAssumption, OpeningAssumption, StatusAssumption DEF Init
<1>1. 0 \in Balances /\ \A v \in Balances : v \in Int
  BY DEF Balances
<1>2. Shape
  BY <1>1 DEF Shape, Phases, Answers, Customers
<1>3. Locking
  BY DEF Locking, LocksAscend, Held
<1>4. Screened /\ Snapshots /\ Decisions
  BY DEF Screened, Snapshots, Decisions, InTransaction
<1>5. Funds
  BY <1>1 DEF Funds, NoOverdraft, Customers
<1>6. Books
  BY DEF Books, AnswersMatchBooks, Paid, OnlyOwnerSpends, Refusals
<1>. QED BY <1>2, <1>3, <1>4, <1>5, <1>6 DEF IInv

\* Every step keeps the invariant.
LEMMA NextIInv == IInv /\ [Next]_vars => IInv'
<1>. SUFFICES ASSUME IInv, [Next]_vars PROVE IInv'
  OBVIOUS
<1>. USE DEF IInv
<1>1. Shape'
  BY ShapeStep
<1>2. Locking'
  BY LockingStep
<1>3. Screened' /\ Snapshots'
  BY ScreenedStep, SnapshotsStep
<1>4. Decisions'
  BY <1>1, DecisionsStep
<1>5. Funds'
  BY <1>1, FundsStep
<1>6. Books'
  BY <1>1, BooksStep
<1>. QED BY <1>1, <1>2, <1>3, <1>4, <1>5, <1>6

\* The strengthening that makes every safety property below inductive holds
\* throughout: what lockAccounts read stays true for the rows it locked.
THEOREM Invariance == Spec => []IInv
BY InitIInv, NextIInv, PTL DEF Spec

\* Every variable keeps its type; for balances this says that no posting ever
\* leaves the range of a bigint.
THEOREM TypeCorrect == Spec => []TypeOK
<1>1. IInv => TypeOK
  BY DEF IInv, Shape, Funds, TypeOK
<1>. QED BY <1>1, Invariance, PTL

\* What a transfer checked against its locked rows still holds when it writes
\* and when it commits (create, between lockAccounts and COMMIT).
THEOREM ChecksHold == Spec => []ChecksStillHold
<1>1. IInv => ChecksStillHold
  <2>. SUFFICES ASSUME IInv,
                       NEW r \in Requests,
                       phase[r] \in {"checked", "written"}, IsTransfer(r)
                PROVE  /\ {From(r), To(r)} \subseteq Customers
                       /\ Amount(r) <= balance[From(r)]
                       /\ status[From(r)] = "active" /\ status[To(r)] = "active"
    BY DEF ChecksStillHold
  <2>1. Verdict(r) = "ok"
    BY DEF IInv, Decisions
  <2>2. /\ {From(r), To(r)} \subseteq Customers
        /\ {From(r), To(r)} \subseteq seenActive[r]
        /\ ~(seenFunds[r] < Amount(r))
    BY <2>1 DEF Verdict
  <2>3. {From(r), To(r)} \subseteq Wanted(r)
    BY <2>2 DEF Wanted, Customers
  <2>4. {From(r), To(r)} \cap stale[r] = {}
    BY <2>3 DEF IInv, Locking, Snapshots, InTransaction
  <2>5. /\ status[From(r)] = "active" /\ status[To(r)] = "active"
        /\ seenFunds[r] = balance[From(r)]
    BY <2>2, <2>3, <2>4 DEF IInv, Snapshots, InTransaction
  <2>6. seenFunds[r] \in Int /\ Amount(r) \in Int
    BY Wants DEF IInv, Shape
  <2>. QED BY <2>2, <2>5, <2>6
<1>. QED BY <1>1, Invariance, PTL

\* No customer account is overdrawn, whatever payments compete for its money.
THEOREM NeverOverdrawn == Spec => []NoOverdraft
<1>1. IInv => NoOverdraft
  BY DEF IInv, Funds
<1>. QED BY <1>1, Invariance, PTL

\* Transfers and fundings lock account rows in one global order.
THEOREM LockOrder == Spec => []LocksAscend
<1>1. IInv => LocksAscend
  BY DEF IInv, Locking
<1>. QED BY <1>1, Invariance, PTL

\* The client's answer, the payment, the transfers row and the outbox event
\* agree, also when an acknowledgement is lost or a transaction is retried.
THEOREM AnswersAgree == Spec => []AnswersMatchBooks
<1>1. IInv => AnswersMatchBooks
  BY DEF IInv, Books
<1>. QED BY <1>1, Invariance, PTL

\* Only the owner of a customer account spends from it.
THEOREM OwnersSpend == Spec => []OnlyOwnerSpends
<1>1. IInv => OnlyOwnerSpends
  BY DEF IInv, Books
<1>. QED BY <1>1, Invariance, PTL

----------------------------------------------------------------------------
(* Steps *)

\* A balance changes only while its account is active: the status is looked at
\* again under the row lock, whatever findAccount or the snapshot said.
THEOREM MovesWhileActive == Spec => MoneyMovesOnlyWhileActive
<1>1. IInv /\ [Next]_vars =>
        [\A a \in Accounts : balance'[a] # balance[a] => status[a] = "active"]_vars
  <2>. SUFFICES ASSUME IInv, [Next]_vars, NEW a \in Accounts, balance'[a] # balance[a]
                PROVE  status[a] = "active"
    OBVIOUS
  <2>1. PICK r \in Requests, ans \in {"created", "error"} : Commit(r, ans)
    BY StepKinds DEF IInv, Quiet, tables, ChangeStatus, vars
  <2>2. /\ phase[r] = "written"
        /\ balance' = Moved(balance, From(r), To(r), Amount(r))
    BY <2>1 DEF Commit
  <2>3. Amount(r) \in Int /\ balance \in [Accounts -> Int]
    BY Wants DEF IInv, Shape
  <2>4. a \in {From(r), To(r)}
    BY <2>2, <2>3, MovedElsewhere
  <2>5. Postable(r)
    BY <2>2 DEF IInv, Decisions
  <2>. QED BY <2>4, <2>5 DEF Postable
<1>. QED BY <1>1, Invariance, PTL DEF Spec, MoneyMovesOnlyWhileActive

\* Committing r is the payment of r in the abstract ledger.
LEMMA CommitIsPay ==
  ASSUME IInv, NEW r \in Requests, NEW ans, Commit(r, ans)
  PROVE  Payment(r) \in Abstract!Entry /\ Abstract!Pay(Payment(r))
<1>1. /\ phase[r] = "written"
      /\ balance' = Moved(balance, From(r), To(r), Amount(r))
      /\ ledger' = ledger \cup {Payment(r)}
      /\ status' = status
  BY DEF Commit
<1>2. Postable(r) /\ RowsAllowed(r)
  BY <1>1 DEF IInv, Decisions
<1>3. /\ Payment(r).id = r /\ Payment(r).from = From(r)
      /\ Payment(r).to = To(r) /\ Payment(r).amount = Amount(r)
  BY DEF Payment
<1>4. Amount(r) \in Nat \ {0} /\ Amount(r) <= MaxMinor /\ MaxMinor \in Nat
  BY <1>1, Wants, OpeningAssumption DEF IInv, Screened
<1>5. Payment(r) \in Abstract!Entry
  BY <1>2, <1>4 DEF Payment, Abstract!Entry, Postable
<1>6. \A q \in ledger : q.id # Payment(r).id
  BY <1>1, <1>3 DEF IInv, Books, AnswersMatchBooks, Paid
<1>7. From(r) # To(r) /\ To(r) \in Customers
  <2>1. CASE IsTransfer(r)
    <3>1. Verdict(r) = "ok"
      BY <1>1, <2>1 DEF IInv, Decisions
    <3>. QED BY <1>1, <2>1, <3>1 DEF Verdict, IInv, Screened
  <2>2. CASE ~IsTransfer(r)
    BY <1>1, <2>2 DEF IInv, Screened, InTransaction, Customers
  <2>. QED BY <2>1, <2>2
<1>8. /\ balance'[From(r)] = balance[From(r)] - Amount(r)
      /\ balance'[To(r)] = balance[To(r)] + Amount(r)
  BY <1>1, <1>2, <1>4, <1>7 DEF Moved, Postable, IInv, Shape
<1>9. RowAllowed(From(r), balance'[From(r)]) /\ RowAllowed(To(r), balance'[To(r)])
  BY <1>1, <1>2 DEF RowsAllowed
<1>10. From(r) \in Treasuries \/ Amount(r) <= balance[From(r)]
  <2>1. balance[From(r)] \in Int
    BY <1>2 DEF Postable, IInv, Shape
  <2>. QED BY <1>4, <1>8, <1>9, <2>1 DEF RowAllowed
<1>11. Abstract!MayMove(Payment(r))
  BY <1>2, <1>3, <1>7, <1>8, <1>9, <1>10
  DEF Abstract!MayMove, Postable, RowAllowed, Customers, Abstract!Customers,
      Representable, Abstract!Representable
<1>12. balance' = Abstract!Moved(balance, From(r), To(r), Amount(r))
  BY <1>1 DEF Moved, Abstract!Moved
<1>. QED BY <1>1, <1>3, <1>5, <1>6, <1>11, <1>12 DEF Abstract!Pay

\* The transactions, locks, snapshots, retries and failures of the API and of
\* PostgreSQL together implement the ledger of atomic payments.
THEOREM Refinement == Spec => ImplementsLedger
<1>1. Init => Abstract!Init
  BY DEF Init, Abstract!Init
<1>2. IInv /\ [Next]_vars => [Abstract!Next]_(Abstract!vars)
  <2>. SUFFICES ASSUME IInv, [Next]_vars PROVE [Abstract!Next]_(Abstract!vars)
    OBVIOUS
  <2>1. ASSUME NEW r \in Requests, Quiet(r)
        PROVE  UNCHANGED Abstract!vars
    BY <2>1 DEF Quiet, tables, Abstract!vars
  <2>2. ASSUME NEW r \in Requests, NEW ans, Commit(r, ans)
        PROVE  Abstract!Next
    BY <2>2, CommitIsPay DEF Abstract!Next
  <2>3. ASSUME NEW a \in Freezable, NEW s \in Statuses, ChangeStatus(a, s)
        PROVE  Abstract!Next
    BY <2>3, RequestAssumption DEF ChangeStatus, Abstract!Next, Abstract!ChangeStatus
  <2>4. CASE UNCHANGED vars
    BY <2>4 DEF vars, tables, Abstract!vars
  <2>. QED BY <2>1, <2>2, <2>3, <2>4, StepKinds DEF IInv
<1>. QED BY <1>1, <1>2, Invariance, PTL DEF Spec, ImplementsLedger, Abstract!Spec

----------------------------------------------------------------------------
(* The journal explains the balances, and money is conserved *)

Accounting ==
  /\ IsFiniteSet(ledger)
  /\ JournalExplainsBalances
  /\ MoneyIsConserved

\* Every payment in the journal adds an integer to every account.
LEMMA DeltaType ==
  ASSUME Shape, \A p \in ledger : p.id \in Requests /\ p = Payment(p.id),
         NEW p \in ledger, NEW a \in Accounts
  PROVE  Delta(p, a) \in Int
<1>1. p.amount \in Int
  BY Wants DEF Payment
<1>. QED BY <1>1 DEF Delta

\* A commit adds to every account what its payment says.
LEMMA CommitAddsDelta ==
  ASSUME IInv, NEW r \in Requests, NEW ans, Commit(r, ans)
  PROVE  /\ From(r) \in Accounts /\ To(r) \in Accounts /\ From(r) # To(r)
         /\ Currency[From(r)] = Currency[To(r)]
         /\ Amount(r) \in Int
         /\ balance'[From(r)] = balance[From(r)] - Amount(r)
         /\ balance'[To(r)] = balance[To(r)] + Amount(r)
         /\ \A a \in Accounts \ {From(r), To(r)} : balance'[a] = balance[a]
         /\ \A a \in Accounts : /\ Delta(Payment(r), a) \in Int
                                /\ balance'[a] = balance[a] + Delta(Payment(r), a)
<1>1. /\ phase[r] = "written"
      /\ balance' = Moved(balance, From(r), To(r), Amount(r))
  BY DEF Commit
<1>2. /\ {From(r), To(r)} \subseteq Accounts
      /\ Currency[From(r)] = Currency[To(r)]
  BY <1>1 DEF IInv, Decisions, Postable
<1>3. From(r) # To(r)
  BY CommitIsPay DEF Abstract!Pay, Abstract!MayMove, Payment
<1>4. Amount(r) \in Int /\ balance \in [Accounts -> Int]
  BY Wants DEF IInv, Shape
<1>5. /\ balance'[From(r)] = balance[From(r)] - Amount(r)
      /\ balance'[To(r)] = balance[To(r)] + Amount(r)
      /\ \A a \in Accounts \ {From(r), To(r)} : balance'[a] = balance[a]
  BY <1>1, <1>2, <1>3, <1>4 DEF Moved
<1>6. ASSUME NEW a \in Accounts
      PROVE  Delta(Payment(r), a) \in Int /\ balance'[a] = balance[a] + Delta(Payment(r), a)
  <2>1. Delta(Payment(r), a)
          = (IF To(r) = a THEN Amount(r) ELSE 0) - (IF From(r) = a THEN Amount(r) ELSE 0)
    BY DEF Delta, Payment
  <2>2. balance[a] \in Int
    BY <1>4
  <2>. QED BY <1>3, <1>4, <1>5, <2>1, <2>2
<1>. QED BY <1>2, <1>3, <1>4, <1>5, <1>6

\* The sum of account a's entries in the journal grows by the new payment's.
LEMMA JournalGrows ==
  ASSUME NEW L, IsFiniteSet(L), NEW q, q \notin L, NEW a,
         \A p \in L \cup {q} : Delta(p, a) \in Int
  PROVE  /\ SumFunctionOnSet([p \in L |-> Delta(p, a)], L) \in Int
         /\ SumFunctionOnSet([p \in L \cup {q} |-> Delta(p, a)], L \cup {q})
              = SumFunctionOnSet([p \in L |-> Delta(p, a)], L) + Delta(q, a)
<1>. DEFINE before == [p \in L |-> Delta(p, a)]
            after  == [p \in L \cup {q} |-> Delta(p, a)]
<1>1. /\ \A p \in L \cup {q} : after[p] \in Int
      /\ \A p \in L : before[p] \in Int /\ after[p] = before[p]
      /\ after[q] = Delta(q, a)
  OBVIOUS
<1>. HIDE DEF before, after
<1>2. SumFunctionOnSet(after, L \cup {q}) = SumFunctionOnSet(after, L) + after[q]
  BY <1>1, SumAdd
<1>3. SumFunctionOnSet(after, L) = SumFunctionOnSet(before, L)
  BY <1>1, SumEqual
<1>4. SumFunctionOnSet(before, L) \in Int
  BY <1>1, SumType
<1>5. SumFunctionOnSet(after, L \cup {q}) = SumFunctionOnSet(before, L) + Delta(q, a)
  BY <1>1, <1>2, <1>3
<1>. QED BY <1>4, <1>5 DEF before, after

\* A commit keeps balances and journal in agreement, and moves no money away.
LEMMA CommitAccounting ==
  ASSUME IInv, Accounting, NEW r \in Requests, NEW ans, Commit(r, ans)
  PROVE  Accounting'
<1>1. ledger' = ledger \cup {Payment(r)}
  BY DEF Commit
<1>2. IsFiniteSet(ledger')
  BY <1>1, FS_AddElement DEF Accounting
<1>3. Payment(r) \notin ledger
  BY CommitIsPay DEF Abstract!Pay
<1>4. balance \in [Accounts -> Int] /\ Opening \in [Accounts -> Int]
  BY OpeningAssumption DEF IInv, Shape, Balances
<1>5. ASSUME NEW a \in Accounts
      PROVE  balance'[a] = Opening[a] + SumFunctionOnSet([p \in ledger' |-> Delta(p, a)], ledger')
  <2>1. \A p \in ledger \cup {Payment(r)} : Delta(p, a) \in Int
    BY DeltaType, CommitAddsDelta DEF IInv, Books
  <2>2. /\ SumFunctionOnSet([p \in ledger |-> Delta(p, a)], ledger) \in Int
        /\ SumFunctionOnSet([p \in ledger' |-> Delta(p, a)], ledger')
             = SumFunctionOnSet([p \in ledger |-> Delta(p, a)], ledger) + Delta(Payment(r), a)
    BY <1>1, <1>3, <2>1, JournalGrows DEF Accounting
  <2>3. balance[a] = Opening[a] + SumFunctionOnSet([p \in ledger |-> Delta(p, a)], ledger)
    BY DEF Accounting, JournalExplainsBalances
  <2>4. balance'[a] = balance[a] + Delta(Payment(r), a) /\ Delta(Payment(r), a) \in Int
    BY CommitAddsDelta
  <2>5. Opening[a] \in Int
    BY <1>4
  <2>. QED BY <2>2, <2>3, <2>4, <2>5
<1>6. ASSUME NEW c \in Currencies
      PROVE  SumFunctionOnSet(balance', RowsIn(c)) = SumFunctionOnSet(balance, RowsIn(c))
  <2>1. IsFiniteSet(RowsIn(c)) /\ RowsIn(c) \subseteq Accounts
    BY FS_Subset, ChartAssumption DEF RowsIn
  <2>2. \A a \in RowsIn(c) : balance[a] \in Int
    BY <1>4, <2>1
  <2>3. CASE Currency[From(r)] = c
    <3>1. From(r) \in RowsIn(c) /\ To(r) \in RowsIn(c)
      BY <2>3, CommitAddsDelta DEF RowsIn
    <3>2. \A a \in RowsIn(c) \ {From(r), To(r)} : balance'[a] = balance[a]
      BY <2>1, CommitAddsDelta
    <3>. QED BY <2>1, <2>2, <3>1, <3>2, CommitAddsDelta, SumMoved
  <2>4. CASE Currency[From(r)] # c
    <3>1. \A a \in RowsIn(c) : balance'[a] = balance[a]
      BY <2>4, CommitAddsDelta DEF RowsIn
    <3>. QED BY <2>1, <2>2, <3>1, SumEqual
  <2>. QED BY <2>3, <2>4
<1>7. MoneyIsConserved'
  BY <1>6 DEF Accounting, MoneyIsConserved, RowsIn
<1>. QED BY <1>2, <1>5, <1>7 DEF Accounting, JournalExplainsBalances

\* Only a commit touches balances and journal.
LEMMA AccountingStep == IInv /\ Accounting /\ [Next]_vars => Accounting'
<1>. SUFFICES ASSUME IInv, Accounting, [Next]_vars PROVE Accounting'
  OBVIOUS
<1>1. ASSUME UNCHANGED <<balance, ledger>> PROVE Accounting'
  BY <1>1 DEF Accounting, JournalExplainsBalances, MoneyIsConserved
<1>2. ASSUME NEW r \in Requests, Quiet(r) PROVE Accounting'
  BY <1>1, <1>2 DEF Quiet, tables
<1>3. ASSUME NEW a \in Freezable, NEW s \in Statuses, ChangeStatus(a, s) PROVE Accounting'
  BY <1>1, <1>3 DEF ChangeStatus
<1>4. CASE UNCHANGED vars
  BY <1>1, <1>4 DEF vars, tables
<1>. QED BY <1>2, <1>3, <1>4, CommitAccounting, StepKinds DEF IInv

\* Before the first request the journal is empty and every balance is its opening.
LEMMA AccountingInit == Init => Accounting
<1>. SUFFICES ASSUME Init PROVE Accounting
  OBVIOUS
<1>1. ledger = {} /\ balance = Opening
  BY DEF Init
<1>2. IsFiniteSet(ledger)
  BY <1>1, FS_EmptySet
<1>3. ASSUME NEW a \in Accounts
      PROVE  balance[a] = Opening[a] + SumFunctionOnSet([p \in ledger |-> Delta(p, a)], ledger)
  <2>1. SumFunctionOnSet([p \in ledger |-> Delta(p, a)], {}) = 0
    <3>. DEFINE d == [p \in ledger |-> Delta(p, a)]
    <3>1. \A p \in {} : d[p] \in Int
      OBVIOUS
    <3>. HIDE DEF d
    <3>2. SumFunctionOnSet(d, {}) = 0
      BY <3>1, FS_EmptySet, SumType
    <3>. QED BY <3>2 DEF d
  <2>2. Opening[a] \in Int
    BY OpeningAssumption DEF Balances
  <2>. QED BY <1>1, <2>1, <2>2
<1>4. MoneyIsConserved
  BY <1>1 DEF MoneyIsConserved
<1>. QED BY <1>2, <1>3, <1>4 DEF Accounting, JournalExplainsBalances

\* The agreement of journal and balances lasts.
LEMMA Accounted == Spec => []Accounting
BY AccountingInit, AccountingStep, Invariance, PTL DEF Spec

\* In every committed state, for any number of payments, every cached balance
\* is its opening balance and the sum of the account's journal entries: what
\* the reconciliation compares never differs unless someone goes behind the API.
THEOREM JournalExplains == Spec => []JournalExplainsBalances
<1>1. Accounting => JournalExplainsBalances
  BY DEF Accounting
<1>. QED BY <1>1, Accounted, PTL

\* No interleaving, retry, lost acknowledgement or crash makes or loses money in
\* any currency, for any number of accounts, requests and attempts.
THEOREM Conservation == Spec => []MoneyIsConserved
<1>1. Accounting => MoneyIsConserved
  BY DEF Accounting
<1>. QED BY <1>1, Accounted, PTL

\* Payments of the API, for any number of each: the books add up.
THEOREM BooksAlwaysAddUp == Spec => []BooksAddUp
<1>1. JournalExplainsBalances /\ MoneyIsConserved => BooksAddUp
  BY DEF BooksAddUp
<1>. QED BY <1>1, JournalExplains, Conservation, PTL

----------------------------------------------------------------------------
(* No circular wait *)

\* Whoever waits for a lock waits for a row below the one the holder waits for.
LEMMA WaitsAscend ==
  ASSUME IInv, NEW r \in Requests, NEW q \in Requests,
         NEW a \in Accounts, NEW b \in Accounts,
         NextRow(r, a), lock[a] = q, NextRow(q, b)
  PROVE  a < b
BY DEF IInv, Locking, LocksAscend, Held, Wanted, NextRow

\* A nonempty set of naturals has a least element.
LEMMA Least ==
  ASSUME NEW T \in SUBSET Nat, T # {}
  PROVE  \E m \in T : \A n \in T : m <= n
<1>1. PICK m \in T : \A n \in T : <<n, m>> \notin OpToRel(<, Nat)
  BY WFMin, NatLessThanWellFounded, Zenon
<1>2. \A n \in T : ~(n < m)
  BY <1>1, Zenon DEF OpToRel
<1>. QED BY <1>2

\* Requests never wait for each other in a circle, so PostgreSQL never has to
\* break a deadlock on account rows.  Ids are uuids, hence bounded.
THEOREM NoDeadlock ==
  ASSUME NEW N \in Nat, \A a \in Accounts : a <= N
  PROVE  Spec => []NoWaitCycle
<1>1. IInv => NoWaitCycle
  <2>. SUFFICES ASSUME IInv, NEW S \in SUBSET Requests, S # {},
                       \A r \in S : \E q \in S : WaitsFor(r, q)
                PROVE  FALSE
    BY DEF NoWaitCycle
  <2>. DEFINE T == {n \in Nat : \E r \in S, q \in S, a \in Accounts :
                                  NextRow(r, a) /\ lock[a] = q /\ n = N - a}
  <2>1. ASSUME NEW r \in S
        PROVE  \E q \in S, a \in Accounts :
                 NextRow(r, a) /\ lock[a] = q /\ N - a \in T
    <3>1. PICK q \in S, a \in Accounts : NextRow(r, a) /\ lock[a] = q
      BY DEF WaitsFor
    <3>2. N - a \in Nat
      BY ChartAssumption
    <3>. QED BY <3>1, <3>2
  <2>2. PICK m \in T : \A n \in T : m <= n
    <3>1. T # {}
      BY <2>1
    <3>. QED BY <3>1, Least
  <2>3. PICK r \in S, q \in S, a \in Accounts :
          NextRow(r, a) /\ lock[a] = q /\ m = N - a
    BY <2>2
  <2>4. PICK b \in Accounts : NextRow(q, b) /\ N - b \in T
    BY <2>1
  <2>5. a < b
    BY <2>3, <2>4, WaitsAscend
  <2>. QED BY <2>2, <2>3, <2>4, <2>5, ChartAssumption
<1>. QED BY <1>1, Invariance, PTL
=============================================================================
