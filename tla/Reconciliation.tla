--------------------------- MODULE Reconciliation ---------------------------
(***************************************************************************)
(* The reconciliation run (POST /v1/admin/reconcile and npm run reconcile) *)
(* beside the postings that commit while it reads: the count of accounts,  *)
(* the one statement that compares cached balances with the sums of the    *)
(* journal, and the classification of what differs.  Balances are altered  *)
(* behind the ledger's back by what the run exists to find: an operator's  *)
(* UPDATE, a lost journal row, a lost account row.                         *)
(***************************************************************************)
EXTENDS Integers, FiniteSets, Functions

CONSTANTS
  Books,
  Postings,
  PostedAmounts, \* the amounts of postings and alterations, in minor units
  MaxTampers \* bound on the alterations

ASSUME ReconciliationAssumption ==
  /\ MaxTampers \in Nat /\ IsFiniteSet(Books) /\ IsFiniteSet(Postings)
  /\ PostedAmounts \subseteq Nat \ {0}

VARIABLES
  opened,  \* rows of accounts
  cached,  \* [Accounts -> Int], balance_minor
  journal, \* visible rows: [of: transaction, account, amount]
  posting, \* [Transactions -> state of its transaction]
  run,     \* the reconciliation
  drift,   \* history: [Accounts -> Int], cached balance minus what was posted
  tampers

ledger == <<opened, cached, journal, posting>>
reconciliationVars   == <<ledger, run, drift, tampers>>

NoIssues == [a \in {} |-> "none"]
NotRun   == [at |-> "idle", counted |-> 0, compared |-> {}, issues |-> NoIssues,
             drifted |-> {}, orphans |-> {}]

ReconciliationInit ==
  /\ opened = {} /\ cached = [a \in Books |-> 0] /\ journal = {}
  /\ posting = [t \in Postings |-> [at |-> "absent", accounts |-> <<>>, amount |-> 0]]
  /\ run = NotRun
  /\ drift = [a \in Books |-> 0] /\ tampers = 0

Open(a) ==
  /\ a \notin opened /\ cached[a] = 0 /\ drift[a] = 0 /\ \A e \in journal : e.account # a
  /\ opened' = opened \cup {a}
  /\ UNCHANGED <<cached, journal, posting, run, drift, tampers>>

Entries(t, debited, credited, n) ==
  {[of |-> t, account |-> debited, amount |-> n], [of |-> t, account |-> credited, amount |-> -n]}

\* Mutant: the journal rows committed ahead of the balances.
InsertEntriesVisibly(t) ==
  /\ \E a, b \in opened, n \in PostedAmounts : a # b /\
       /\ journal' = journal \cup Entries(t, a, b, n)
       /\ posting' =
            [posting EXCEPT ![t] = [at |-> "inserted", accounts |-> <<a, b>>, amount |-> n]]
  /\ UNCHANGED <<opened, cached>>

\* postWith: the journal rows, then the balances, in one transaction.
InsertEntries(t) ==
  /\ \E a, b \in opened, n \in PostedAmounts : a # b /\
       posting' = [posting EXCEPT ![t] = [at |-> "inserted", accounts |-> <<a, b>>, amount |-> n]]
  /\ UNCHANGED <<opened, cached, journal>>

BeginPosting(t) ==
  /\ posting[t].at = "absent"
  /\ InsertEntries(t)
  /\ UNCHANGED <<run, drift, tampers>>

CommitPosting(t) ==
  /\ posting[t].at = "inserted"
  /\ LET a == posting[t].accounts[1]
         b == posting[t].accounts[2]
         n == posting[t].amount
     IN  /\ journal' = journal \cup Entries(t, a, b, n)
         /\ cached' = [cached EXCEPT ![a] = @ + n, ![b] = @ - n]
  /\ posting' = [posting EXCEPT ![t].at = "committed"]
  /\ UNCHANGED <<opened, run, drift, tampers>>

AbortPosting(t) ==
  /\ posting[t].at = "inserted"
  /\ posting' = [posting EXCEPT ![t].at = "aborted"]
  /\ UNCHANGED <<opened, cached, journal, run, drift, tampers>>

\* External: an UPDATE of the cache alone.
AlterBalance(a) ==
  /\ a \in opened /\ tampers < MaxTampers
  /\ \E d \in PostedAmounts \cup {-n : n \in PostedAmounts} :
       /\ cached' = [cached EXCEPT ![a] = @ + d]
       /\ drift' = [drift EXCEPT ![a] = @ + d]
  /\ tampers' = tampers + 1
  /\ UNCHANGED <<opened, journal, posting, run>>

\* External: a journal row lost, the immutability trigger notwithstanding.
LoseEntry ==
  /\ tampers < MaxTampers
  /\ \E e \in journal :
       /\ journal' = journal \ {e}
       /\ drift' = [drift EXCEPT ![e.account] = @ + e.amount]
  /\ tampers' = tampers + 1
  /\ UNCHANGED <<opened, cached, posting, run>>

\* External: an account row lost, the foreign keys notwithstanding.
LoseAccount(a) ==
  /\ a \in opened /\ tampers < MaxTampers
  /\ \A t \in Postings : posting[t].at # "inserted"
  /\ \E e \in journal : e.account = a
  /\ opened' = opened \ {a}
  /\ tampers' = tampers + 1
  /\ UNCHANGED <<cached, journal, posting, run, drift>>

Count ==
  /\ run.at # "counted"
  /\ run' = [NotRun EXCEPT !.at = "counted", !.counted = Cardinality(opened)]
  /\ UNCHANGED <<ledger, drift, tampers>>

Supported == {e.account : e \in journal}

\* GROUP BY account_id
EntriesOn(a) == {e \in journal : e.account = a}

\* sum(CASE WHEN direction = 'debit' THEN amount_minor ELSE -amount_minor END)
Computed(a) == SumFunctionOnSet([e \in journal |-> e.amount], EntriesOn(a))

\* FULL OUTER JOIN
Joined == opened \cup Supported

Classify(a) ==
  IF a \notin opened THEN "unexpected"
  ELSE IF a \notin Supported /\ cached[a] # 0 THEN "missing"
  ELSE IF cached[a] # Computed(a) THEN "mismatched" ELSE "none"

\* One statement, so one snapshot, whatever commits before the report is made.
Compare ==
  /\ run.at = "counted"
  /\ LET reported == {a \in Joined : Classify(a) # "none"}
     IN  run' = [run EXCEPT !.at = "reported", !.compared = Joined,
                            !.issues = [a \in reported |-> Classify(a)],
                            !.drifted = {a \in opened : drift[a] # 0},
                            !.orphans = Supported \ opened]
  /\ UNCHANGED <<ledger, drift, tampers>>

ReconciliationNext ==
  \/ \E a \in Books : Open(a) \/ AlterBalance(a) \/ LoseAccount(a)
  \/ \E t \in Postings : BeginPosting(t) \/ CommitPosting(t) \/ AbortPosting(t)
  \/ LoseEntry \/ Count \/ Compare

ReconciliationSpec == ReconciliationInit /\ [][ReconciliationNext]_reconciliationVars

----------------------------------------------------------------------------
(* Properties *)

ReconciliationTypeOK ==
  /\ opened \subseteq Books
  /\ cached \in [Books -> Int]
  /\ \A e \in journal : e.account \in Books /\ e.of \in Postings
  /\ DOMAIN run.issues \subseteq run.compared /\ run.counted \in 0..Cardinality(Books)
  /\ \A a \in DOMAIN run.issues : run.issues[a] \in {"missing", "mismatched", "unexpected"}
  /\ tampers \in 0..MaxTampers
  /\ tampers = 0 => \A e \in journal : \E f \in journal : f.of = e.of /\ f.amount = -e.amount

\* Payments that commit while the report is made raise no alarm: not between
\* the count and the comparison, and not within the comparison.
NoFalseAlarm == tampers = 0 => run.issues = NoIssues

\* "Reconciliation reports drift": whatever was altered behind the ledger's
\* back, and however many postings moved the account since, the report names
\* the account, and it names no other.
ReportsTheDrift ==
  run.at = "reported" => DOMAIN run.issues = run.drifted \cup run.orphans

\* The report names what was altered behind the ledger's back, and nothing
\* that was only being posted.
ReportIsTrue == NoFalseAlarm /\ ReportsTheDrift
=============================================================================
