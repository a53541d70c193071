--------------------------- MODULE JournalSchema ---------------------------
(***************************************************************************)
(* The journal's tables under any SQL at all: sessions that insert ledger  *)
(* transactions, entries and transfers by hand, finalize, update, delete,  *)
(* call post_ledger_transaction, pull the deferred checks forward, commit  *)
(* or roll back, at either kind of isolation.  What holds the journal      *)
(* together is the constraints and triggers of the migrations alone.       *)
(***************************************************************************)
EXTENDS Integers, FiniteSets, FiniteSetsExt

CONSTANTS
  Sessions,
  TransactionIds, \* ids of ledger transactions
  EntryAccounts,
  Currencies,
  Currency,       \* [Accounts -> Currencies], immutable by its trigger
  Amounts,
  MaxEntries      \* bound on the rows of journal_entries

ASSUME JournalSchemaAssumption ==
  Currency \in [EntryAccounts -> Currencies] /\ Amounts \subseteq Nat /\ MaxEntries \in Nat

Types == {"funding", "transfer"}
Directions == {"debit", "credit"}

VARIABLES
  committed, \* [ledger, entries, transfers]: what every new snapshot sees
  session    \* [Sessions -> the open transaction of the session]

schemaVars == <<committed, session>>

\* ledger rows are [id, type, currency, finalized], entries [id, tx, account,
\* direction, amount], and transfers the ids of their rows.
NoRows == [ledger |-> {}, entries |-> {}, transfers |-> {}]

\* frozen: the ids a repeatable-read snapshot sees; due: the ids whose deferred
\* check is queued; strict: SET CONSTRAINTS ALL IMMEDIATE was said.
\* byHand: it wrote rows other than through post_ledger_transaction.
Closed == [open |-> FALSE, repeatable |-> FALSE, frozen |-> {}, own |-> NoRows,
           due |-> {}, strict |-> FALSE, byHand |-> FALSE]

SchemaInit ==
  /\ committed = NoRows
  /\ session = [s \in Sessions |-> Closed]

IdsOf(rows) == {r.id : r \in rows}

\* A row replaces the version of it that was there before.
Merged(old, new) == {t \in old : t.id \notin IdsOf(new)} \cup new

\* What a statement of the session sees of ledger_transactions.
Visible(s) ==
  Merged({t \in committed.ledger : session[s].repeatable => t.id \in session[s].frozen},
         session[s].own.ledger)

VisibleEntries(s, tx) ==
  {e \in session[s].own.entries \cup committed.entries :
     e.tx = tx /\ (e \in committed.entries /\ session[s].repeatable => tx \in session[s].frozen)}

Taken == IdsOf(committed.ledger) \cup UNION {IdsOf(session[s].own.ledger) : s \in Sessions}

EntryIds == IdsOf(committed.entries) \cup UNION {IdsOf(session[s].own.entries) : s \in Sessions}

----------------------------------------------------------------------------
(* assert_ledger_transaction_balanced *)

Side(entries, direction) == {e \in entries : e.direction = direction}

Total(entries) == MapThenSumSet(LAMBDA e : e.amount, entries)

Even(entries) ==
  /\ \A d \in Directions : Side(entries, d) # {}
  /\ Total(Side(entries, "debit")) = Total(Side(entries, "credit"))

Balanced(ledger, entries, tx) ==
  /\ \E t \in ledger : t.id = tx /\ t.finalized
  /\ Even(entries)

ChecksPass(s, due) == \A tx \in due : Balanced(Visible(s), VisibleEntries(s, tx), tx)

----------------------------------------------------------------------------
(* statements; one that fails can only be followed by a rollback *)

BeginTransaction(s) ==
  /\ ~session[s].open
  /\ \E repeatable \in BOOLEAN :
       session' = [session EXCEPT ![s] = [Closed EXCEPT
         !.open = TRUE, !.repeatable = repeatable,
         !.frozen = IF repeatable THEN IdsOf(committed.ledger) ELSE {}]]
  /\ UNCHANGED committed

RollbackTransaction(s) ==
  /\ session[s].open
  /\ session' = [session EXCEPT ![s] = Closed]
  /\ UNCHANGED committed

\* A statement by hand that leaves the session with these rows, and queues
\* or makes the check of transaction tx.
Writes(s, own, tx) ==
  /\ UNCHANGED committed
  /\ session' = [session EXCEPT ![s].own = own, ![s].byHand = TRUE,
                                ![s].due = IF session[s].strict THEN @ ELSE @ \cup {tx}]
  /\ session[s].strict => Balanced(Visible(s)', VisibleEntries(s, tx)', tx)

InsertTransaction(s, tx, type, currency, finalized) ==
  /\ session[s].open /\ tx \notin Taken
  /\ Writes(s, [session[s].own EXCEPT !.ledger = @ \cup
       {[id |-> tx, type |-> type, currency |-> currency, finalized |-> finalized]}], tx)

\* Mutant: no trigger on entries for a finalized transaction.
AppendableAlways(s, tx) == \E t \in Visible(s) : t.id = tx

\* The foreign key to ledger_transactions, and
\* reject_entry_for_finalized_transaction.
Appendable(s, tx) == \E t \in Visible(s) : t.id = tx /\ ~t.finalized

\* Both foreign keys carry the currency.
SameCurrency(s, tx, a) == \E t \in Visible(s) : t.id = tx /\ t.currency = Currency[a]

\* An unused key, or the one beyond the bound.
NextKey ==
  LET unused == (1..MaxEntries) \ EntryIds
  IN  IF unused = {} THEN MaxEntries + 1 ELSE CHOOSE n \in unused : TRUE

Entry(n, tx, a, x) ==
  [id |-> n, tx |-> tx, account |-> a, direction |-> x.direction, amount |-> x.amount]

InsertEntry(s, tx, a, x) ==
  /\ session[s].open /\ Appendable(s, tx) /\ SameCurrency(s, tx, a) /\ x.amount > 0
  /\ NextKey <= MaxEntries
  /\ Writes(s, [session[s].own EXCEPT !.entries = @ \cup {Entry(NextKey, tx, a, x)}], tx)

\* reject_ledger_transaction_mutation lets one update through, which sets
\* finalized and nothing else.  No row is ever deleted, nor an entry updated.
Mutable(t) == ~t.finalized

Finalize(s, tx) ==
  /\ session[s].open
  /\ \E t \in Visible(s) :
       /\ t.id = tx /\ Mutable(t)
       /\ session' = [session EXCEPT
            ![s].own.ledger = Merged(@, {[t EXCEPT !.finalized = ~@]}), ![s].byHand = TRUE]
  /\ UNCHANGED committed

\* The foreign key of transfers names the type of its ledger transaction.
InsertTransfer(s, tx) ==
  /\ session[s].open
  /\ \E t \in Visible(s) : t.id = tx /\ t.type = "transfer"
  /\ \A q \in Sessions : tx \notin session[q].own.transfers \cup committed.transfers
  /\ session' = [session EXCEPT ![s].own.transfers = @ \cup {tx}, ![s].byHand = TRUE]
  /\ UNCHANGED committed

\* SET CONSTRAINTS ALL IMMEDIATE checks what is queued, and from then on
\* at the end of each statement.
CheckNow(s) ==
  /\ session[s].open /\ ~session[s].strict
  /\ ChecksPass(s, session[s].due)
  /\ session' = [session EXCEPT ![s].due = {}, ![s].strict = TRUE]
  /\ UNCHANGED committed

PassesAtCommit(s) == ChecksPass(s, session[s].due)

CommitTransaction(s) ==
  /\ session[s].open /\ PassesAtCommit(s)
  /\ committed' = [ledger    |-> Merged(committed.ledger, session[s].own.ledger),
                   entries   |-> committed.entries \cup session[s].own.entries,
                   transfers |-> committed.transfers \cup session[s].own.transfers]
  /\ session' = [session EXCEPT ![s] = Closed]

----------------------------------------------------------------------------
(* post_ledger_transaction *)

\* Its checks of a posting of x to account a and of y to b.
Accepts(a, b, x, y) ==
  /\ x.amount > 0 /\ y.amount > 0 /\ Currency[a] = Currency[b]
  /\ x.direction # y.direction /\ x.amount = y.amount

\* Rows, deferred checks and finalization in one statement.  Its own INSERT
\* fails where checks are immediate.
Post(s, tx, type, a, b, x, y) ==
  /\ session[s].open /\ tx \notin Taken /\ ~session[s].strict
  /\ Accepts(a, b, x, y) /\ MaxEntries - NextKey > 0 /\ NextKey + 1 \notin EntryIds
  /\ session' = [session EXCEPT
       ![s].own.ledger = @ \cup
         {[id |-> tx, type |-> type, currency |-> Currency[a], finalized |-> TRUE]},
       ![s].own.entries = @ \cup {Entry(NextKey, tx, a, x), Entry(NextKey + 1, tx, b, y)},
       ![s].due = @ \cup {tx}]
  /\ UNCHANGED committed

Halves == [direction : Directions, amount : Amounts]

SchemaNext ==
  \E s \in Sessions :
    \/ BeginTransaction(s) \/ RollbackTransaction(s) \/ CheckNow(s) \/ CommitTransaction(s)
    \/ \E tx \in TransactionIds :
         \/ Finalize(s, tx) \/ InsertTransfer(s, tx)
         \/ \E type \in Types, c \in Currencies, f \in BOOLEAN :
              InsertTransaction(s, tx, type, c, f)
         \/ \E a \in EntryAccounts, x \in Halves : InsertEntry(s, tx, a, x)
         \/ \E type \in Types, a, b \in EntryAccounts, x, y \in Halves :
              Post(s, tx, type, a, b, x, y)

SchemaSpec == SchemaInit /\ [][SchemaNext]_schemaVars

----------------------------------------------------------------------------
(* Properties *)

\* Keys are unique, and a transaction leaves its session nothing.
SchemaTypeOK ==
  /\ \A t \in committed.ledger :
       t.id \in TransactionIds /\ t.type \in Types /\ t.currency \in Currencies
  /\ Cardinality(IdsOf(committed.entries)) = Cardinality(committed.entries)
  /\ \A s \in Sessions :
       /\ session[s].due \subseteq TransactionIds
       /\ ~session[s].open => session[s] = Closed

\* Whatever was tried, every committed ledger transaction is finalized and has
\* debits and credits of one total, on accounts of its currency; a transfers
\* row has such a transaction of its type.
CommittedIsSound ==
  /\ \A t \in committed.ledger :
       LET rows == {e \in committed.entries : e.tx = t.id} IN
       t.finalized /\ Even(rows) /\ \A e \in rows : Currency[e.account] = t.currency
  /\ \A e \in committed.entries : e.tx \in IdsOf(committed.ledger)
  /\ \A tx \in committed.transfers :
       \E t \in committed.ledger : t.id = tx /\ t.type = "transfer"

\* Committed history only grows by whole transactions: a committed one keeps
\* its row, and neither loses nor gains an entry.
HistoryIsAppendOnly ==
  [][\A t \in committed.ledger :
       /\ t \in committed'.ledger
       /\ {e \in committed'.entries : e.tx = t.id} = {e \in committed.entries : e.tx = t.id}]_schemaVars

\* What the service posts through the function is never turned down by the
\* deferred checks: a commit that fails there would come after its answer.
PostedPasses ==
  \A s \in Sessions : session[s].open /\ ~session[s].byHand => PassesAtCommit(s)

\* The schema alone keeps the books, against any SQL, and does not stand in
\* the way of the function that writes them.
BooksStaySound == [](CommittedIsSound /\ PostedPasses) /\ HistoryIsAppendOnly
=============================================================================
