--------------------------- MODULE JournalProofs ----------------------------
(***************************************************************************)
(* Proofs about the journal: what the database lets into it, how it is     *)
(* listed page by page, and how it is compared with the cached balances.   *)
(* They share no variable.                                                 *)
(***************************************************************************)
EXTENDS JournalSchema, Pagination, Reconciliation, SumTheorems

----------------------------------------------------------------------------
(***************************************************************************)
(* JournalSchema, for any sessions, accounts, currencies and amounts.      *)
(*                                                                         *)
(* The argument: rows an open transaction has written are its own and are  *)
(* each queued for the deferred check or as the check wants them           *)
(* (OwnIsSound); no other session can write to them, and none can write to *)
(* what is committed.  So a check that passes at COMMIT, or at SET         *)
(* CONSTRAINTS ... IMMEDIATE, vouches for everything that becomes visible, *)
(* for good.                                                               *)
(***************************************************************************)

LedgerRow == [id : TransactionIds, type : Types, currency : Currencies, finalized : BOOLEAN]

EntryRow ==
  [id : Nat, tx : TransactionIds, account : EntryAccounts, direction : Directions, amount : Amounts]

RowSets ==
  [ledger : SUBSET LedgerRow, entries : SUBSET EntryRow, transfers : SUBSET TransactionIds]

SessionState ==
  [open : BOOLEAN, repeatable : BOOLEAN, frozen : SUBSET TransactionIds, own : RowSets,
   due : SUBSET TransactionIds, strict : BOOLEAN, byHand : BOOLEAN]

EntriesOf(rs, tx) == {e \in rs : e.tx = tx}

\* What the deferred check asks of a transaction, seen from its own session.
Done(own, t) == t.finalized /\ Even(EntriesOf(own.entries, t.id))

SameKeySameRow(rs) == \A r, q \in rs : r.id = q.id => r = q

\* What an open transaction w has written, beside what is committed: rows of
\* its own ids, each either waiting for its check or as the check wants it.
OwnIsSound(w, ledgerRows) ==
  /\ w \in SessionState
  /\ ~w.open => w = Closed
  /\ IsFiniteSet(w.own.entries)
  /\ SameKeySameRow(w.own.ledger)
  /\ IdsOf(w.own.ledger) \cap IdsOf(ledgerRows) = {}
  /\ \A e \in w.own.entries :
       \E t \in w.own.ledger : t.id = e.tx /\ t.currency = Currency[e.account]
  /\ \A tx \in w.own.transfers :
       \E t \in w.own.ledger \cup ledgerRows : t.id = tx /\ t.type = "transfer"
  /\ w.due \subseteq IdsOf(w.own.ledger)
  /\ w.strict => w.due = {}
  /\ \A t \in w.own.ledger : t.id \in w.due \/ Done(w.own, t)
  /\ ~w.byHand => \A t \in w.own.ledger : Done(w.own, t)

AllEntries == committed.entries \cup UNION {session[s].own.entries : s \in Sessions}

KeysOK ==
  /\ SameKeySameRow(AllEntries)
  /\ IsFiniteSet(committed.entries)

SchemaInv ==
  /\ committed \in RowSets
  /\ CommittedIsSound
  /\ \A s \in Sessions : OwnIsSound(session[s], committed.ledger)
  /\ session \in [Sessions -> SessionState]
  /\ \A s, q \in Sessions :
       s # q => IdsOf(session[s].own.ledger) \cap IdsOf(session[q].own.ledger) = {}
  /\ KeysOK

----------------------------------------------------------------------------
(* The check, and the sums it compares *)

\* The sum over one entry is its amount.
LEMMA TotalOfOne ==
  ASSUME NEW e, e.amount \in Nat PROVE Total({e}) = e.amount
<1>1. PICK S : S = {e}
  OBVIOUS
<1> DEFINE body(f, s) == IF s = {} THEN 0 ELSE LET x == CHOOSE x \in s : TRUE IN x.amount + f[s \ {x}]
<1> DEFINE iter == CHOOSE iter : iter = [s \in SUBSET S |-> body(iter, s)]
<1>2. Total(S) = iter[S]
  BY DEF Total, MapThenSumSet, MapThenFoldSet
<1>3. PICK g : g = [s \in SUBSET S |-> IF s = {} THEN 0 ELSE e.amount]
  OBVIOUS
<1>4. g = [s \in SUBSET S |-> body(g, s)]
  <2>1. SUBSET S = {{}, S} /\ S # {}
    BY <1>1
  <2>2. (CHOOSE x \in S : TRUE) = e
    BY <1>1
  <2>3. body(g, {}) = 0 
    OBVIOUS
  <2>4. g[S \ {e}] = 0 /\ g[{}] = 0 /\ g[S] = e.amount
    BY <1>1, <1>3, <2>1
  <2>5. body(g, S) = e.amount
    <3>1. body(g, S) = (CHOOSE x \in S : TRUE).amount + g[S \ {CHOOSE x \in S : TRUE}]
      BY <2>1
    <3>2. (CHOOSE x \in S : TRUE).amount + g[S \ {CHOOSE x \in S : TRUE}] = e.amount + g[S \ {e}]
      BY <2>2
    <3> QED BY <2>4, <3>1, <3>2
  <2> HIDE DEF body
  <2>6. \A s \in SUBSET S : g[s] = body(g, s)
    BY <2>1, <2>3, <2>4, <2>5
  <2> QED BY <1>3, <2>6
<1>5. iter = [s \in SUBSET S |-> body(iter, s)]
  BY <1>4
<1>6. iter[{}] = 0
  BY <1>5
<1>7. iter[S] = e.amount + iter[{}]
  <2>1. (CHOOSE x \in S : TRUE) = e /\ S # {} /\ S \ {e} = {}
    BY <1>1
  <2> HIDE DEF iter
  <2>2. iter[S] = body(iter, S)
    BY <1>5
  <2> QED BY <2>1, <2>2
<1> HIDE DEF iter
<1> QED BY <1>1, <1>2, <1>6, <1>7

\* The rows a session w sees, as Visible and VisibleEntries give them.
SeenBy(w, rs) ==
  Merged({t \in rs.ledger : w.repeatable => t.id \in w.frozen}, w.own.ledger)

SeenEntries(w, rs, tx) ==
  {e \in w.own.entries \cup rs.entries :
     e.tx = tx /\ (e \in rs.entries /\ w.repeatable => tx \in w.frozen)}

\* What a session sees, as an operator of the session: its own rows over those
\* that are committed or were when it took its snapshot.
LEMMA SeenByIsVisible ==
  \A s : /\ Visible(s) = SeenBy(session[s], committed)
         /\ \A tx : VisibleEntries(s, tx) = SeenEntries(session[s], committed, tx)
BY DEF Visible, VisibleEntries, SeenBy, SeenEntries

\* A row of an open transaction's own ids is its own row.
LEMMA OwnRowsAreSeen ==
  ASSUME NEW w, NEW rs
  PROVE  /\ w.own.ledger \subseteq SeenBy(w, rs)
         /\ \A t \in SeenBy(w, rs) : t \in rs.ledger \/ t \in w.own.ledger
         /\ \A t \in SeenBy(w, rs) : t.id \in IdsOf(w.own.ledger) => t \in w.own.ledger
BY DEF SeenBy, Merged, IdsOf

\* For a transaction of its own, the check passes exactly when it is done.
LEMMA CheckedIsDone ==
  ASSUME NEW w, NEW rs, NEW t \in w.own.ledger, SameKeySameRow(w.own.ledger),
         IdsOf(w.own.ledger) \cap IdsOf(rs.ledger) = {},
         \A e \in rs.entries : e.tx \in IdsOf(rs.ledger)
  PROVE  Balanced(SeenBy(w, rs), SeenEntries(w, rs, t.id), t.id) <=> Done(w.own, t)
<1>1. t.id \in IdsOf(w.own.ledger) /\ t.id \notin IdsOf(rs.ledger)
  BY DEF IdsOf
<1>2. SeenEntries(w, rs, t.id) = EntriesOf(w.own.entries, t.id)
  BY <1>1 DEF SeenEntries, EntriesOf
<1>3. (\E u \in SeenBy(w, rs) : u.id = t.id /\ u.finalized) <=> t.finalized
  BY <1>1, OwnRowsAreSeen DEF SameKeySameRow
<1> QED BY <1>2, <1>3 DEF Balanced, Done

\* The invariant holds of an empty schema.
LEMMA SchemaInitInv == SchemaInit => SchemaInv
<1> SUFFICES ASSUME SchemaInit PROVE SchemaInv
  OBVIOUS
<1>1. NoRows \in RowSets
  BY DEF NoRows, RowSets
<1>2. Closed \in SessionState
  BY <1>1 DEF Closed, SessionState
<1>3. CommittedIsSound
  BY DEF SchemaInit, NoRows, CommittedIsSound
<1>4. KeysOK
  BY FS_EmptySet DEF SchemaInit, NoRows, Closed, KeysOK, AllEntries, SameKeySameRow
<1>5. \A s \in Sessions : OwnIsSound(session[s], committed.ledger)
  BY <1>2, FS_EmptySet DEF SchemaInit, NoRows, Closed, OwnIsSound, SameKeySameRow, IdsOf
<1> QED BY <1>1, <1>2, <1>3, <1>4, <1>5 DEF SchemaInit, SchemaInv, NoRows, Closed, IdsOf

----------------------------------------------------------------------------
(* Statements *)

\* A statement touches one session: what it leaves that session is all there
\* is to check.
LEMMA OwnStatement ==
  ASSUME SchemaInv, NEW s \in Sessions, NEW w, UNCHANGED committed,
         session' = [session EXCEPT ![s] = w], OwnIsSound(w, committed.ledger),
         \A q \in Sessions : q # s => IdsOf(w.own.ledger) \cap IdsOf(session[q].own.ledger) = {},
         SameKeySameRow(AllEntries \cup w.own.entries)
  PROVE  SchemaInv'
<1>1. session' \in [Sessions -> SessionState] /\ session'[s] = w
  BY DEF SchemaInv, OwnIsSound
<1>2. \A q \in Sessions : q # s => session'[q] = session[q]
  BY DEF SchemaInv
<1>3. \A q \in Sessions : OwnIsSound(session'[q], committed'.ledger)
  BY <1>1, <1>2 DEF SchemaInv
<1>4. AllEntries' \subseteq AllEntries \cup w.own.entries
  BY <1>1, <1>2 DEF AllEntries
<1>5. KeysOK'
  BY <1>4 DEF SchemaInv, KeysOK, SameKeySameRow
<1>6. CommittedIsSound'
  BY DEF SchemaInv, CommittedIsSound
<1>7. \A p, q \in Sessions :
        p # q => IdsOf(session'[p].own.ledger) \cap IdsOf(session'[q].own.ledger) = {}
  BY <1>1, <1>2 DEF SchemaInv
<1> QED BY <1>1, <1>3, <1>5, <1>6, <1>7 DEF SchemaInv, IdsOf

\* A transaction that has written nothing owes nothing.
LEMMA EmptyIsSound ==
  ASSUME NEW w \in SessionState, w.own = NoRows, w.due = {}, w.open \/ w = Closed, NEW rs
  PROVE  OwnIsSound(w, rs)
BY FS_EmptySet DEF OwnIsSound, NoRows, SameKeySameRow, IdsOf

\* BEGIN and ROLLBACK: the session has no rows of its own.
LEMMA BeginKeepsInv ==
  ASSUME SchemaInv, NEW s \in Sessions, BeginTransaction(s) \/ RollbackTransaction(s)
  PROVE  SchemaInv'
<1>1. Closed \in SessionState /\ IdsOf(committed.ledger) \subseteq TransactionIds
  BY DEF Closed, SessionState, NoRows, RowSets, SchemaInv, IdsOf, LedgerRow
<1>2. PICK w \in SessionState :
        w.own = NoRows /\ w.due = {} /\ (w.open \/ w = Closed)
        /\ session' = [session EXCEPT ![s] = w]
  <2>1. CASE RollbackTransaction(s)
    BY <1>1, <2>1 DEF RollbackTransaction, Closed
  <2>2. CASE BeginTransaction(s)
    <3>1. PICK repeatable \in BOOLEAN :
            session' = [session EXCEPT ![s] = [Closed EXCEPT
              !.open = TRUE, !.repeatable = repeatable,
              !.frozen = IF repeatable THEN IdsOf(committed.ledger) ELSE {}]]
      BY <2>2 DEF BeginTransaction
    <3>2. PICK w : w = [Closed EXCEPT !.open = TRUE, !.repeatable = repeatable,
                          !.frozen = IF repeatable THEN IdsOf(committed.ledger) ELSE {}]
      OBVIOUS
    <3>3. w \in SessionState /\ w.own = NoRows /\ w.due = {} /\ w.open
      BY <1>1, <3>2 DEF Closed, SessionState, NoRows, RowSets
    <3> QED BY <3>1, <3>2, <3>3
  <2> QED BY <2>1, <2>2
<1>3. UNCHANGED committed
  BY DEF BeginTransaction, RollbackTransaction
<1>4. OwnIsSound(w, committed.ledger)
  BY <1>2, EmptyIsSound
<1>5. IdsOf(w.own.ledger) = {} /\ w.own.entries = {}
  BY <1>2 DEF NoRows, IdsOf
<1>6. SameKeySameRow(AllEntries \cup w.own.entries)
  BY <1>5 DEF SchemaInv, KeysOK
<1> QED BY <1>2, <1>3, <1>4, <1>5, <1>6, OwnStatement

\* Only a row of the session's own transaction can still be written to.
LEMMA OpenRowsAreOwn ==
  ASSUME SchemaInv, NEW s \in Sessions, NEW t \in Visible(s), ~t.finalized
  PROVE  t \in session[s].own.ledger
BY SeenByIsVisible, OwnRowsAreSeen DEF SchemaInv, CommittedIsSound

\* The key an insert draws belongs to no entry, committed or not.
LEMMA NextKeyIsUnused ==
  /\ NextKey \in Nat
  /\ NextKey <= MaxEntries => NextKey \notin EntryIds
<1>1. PICK U : U = (1..MaxEntries) \ EntryIds
  OBVIOUS
<1>2. NextKey = IF U = {} THEN MaxEntries + 1 ELSE CHOOSE n \in U : TRUE
  BY <1>1 DEF NextKey
<1>3. CASE U = {}
  BY <1>2, <1>3, JournalSchemaAssumption
<1>4. CASE U # {}
  <2>1. NextKey \in U
    BY <1>2, <1>4
  <2> QED BY <1>1, <2>1
<1> QED BY <1>3, <1>4

\* Every entry's key counts as used.
LEMMA EntryIdsAreTheKeys == ASSUME NEW e \in AllEntries PROVE e.id \in EntryIds
BY DEF AllEntries, EntryIds, IdsOf

\* What a statement by hand has to keep, for the rows it leaves to be sound.
LEMMA WritesAreSound ==
  ASSUME SchemaInv, NEW s \in Sessions, session[s].open, NEW own \in RowSets, NEW tx,
         Writes(s, own, tx), tx \in IdsOf(own.ledger),
         IsFiniteSet(own.entries), SameKeySameRow(own.ledger),
         IdsOf(session[s].own.ledger) \subseteq IdsOf(own.ledger),
         IdsOf(own.ledger) \cap IdsOf(committed.ledger) = {},
         \A t \in own.ledger : t.id # tx =>
           t \in session[s].own.ledger
           /\ EntriesOf(own.entries, t.id) = EntriesOf(session[s].own.entries, t.id),
         \A e \in own.entries : \E t \in own.ledger : t.id = e.tx /\ t.currency = Currency[e.account],
         \A r \in own.transfers :
           \E t \in own.ledger \cup committed.ledger : t.id = r /\ t.type = "transfer"
  PROVE  \E w : /\ session' = [session EXCEPT ![s] = w] /\ w.own = own
                /\ OwnIsSound(w, committed.ledger)
<1>1. PICK v : v = session[s]
  OBVIOUS
<1>2. v \in SessionState /\ OwnIsSound(v, committed.ledger) /\ v.open
  BY <1>1 DEF SchemaInv
<1>3. PICK due : due = IF v.strict THEN v.due ELSE v.due \cup {tx}
  OBVIOUS
<1>4. PICK w : w = [v EXCEPT !.own = own, !.byHand = TRUE, !.due = due]
  OBVIOUS
<1>5. session' = [session EXCEPT ![s] = w] /\ committed' = committed
  <2>1. [v EXCEPT !.own = own, !.byHand = TRUE, !.due = IF v.strict THEN @ ELSE @ \cup {tx}] = w
    BY <1>2, <1>3, <1>4 DEF SessionState
  <2>2. session \in [Sessions -> SessionState]
    BY DEF SchemaInv
  <2> QED BY <1>1, <2>1, <2>2 DEF Writes
<1>6. IdsOf(own.ledger) \subseteq TransactionIds
  BY DEF RowSets, LedgerRow, IdsOf
<1>7. due \subseteq IdsOf(own.ledger)
  BY <1>1, <1>2, <1>3 DEF OwnIsSound
<1>8. w \in SessionState
  BY <1>2, <1>4, <1>6, <1>7 DEF SessionState
<1>9. /\ w.own = own /\ w.byHand = TRUE /\ w.due = due /\ w.open = v.open /\ w.strict = v.strict
      /\ w.repeatable = v.repeatable /\ w.frozen = v.frozen
  BY <1>2, <1>4 DEF SessionState
<1>10. v.strict => due = {}
  BY <1>2, <1>3 DEF OwnIsSound
<1>11. ASSUME NEW t \in own.ledger, v.strict, t.id = tx PROVE Done(own, t)
  <2>1. session'[s] = w
    BY <1>5 DEF SchemaInv
  <2>2. Balanced(Visible(s)', VisibleEntries(s, tx)', tx)
    BY <1>1, <1>11 DEF Writes
  <2>3. Visible(s)' = SeenBy(w, committed) /\ VisibleEntries(s, tx)' = SeenEntries(w, committed, tx)
    BY <1>5, <2>1 DEF Visible, VisibleEntries, SeenBy, SeenEntries
  <2>4. \A e \in committed.entries : e.tx \in IdsOf(committed.ledger)
    BY DEF SchemaInv, CommittedIsSound
  <2> QED BY <1>9, <1>11, <2>2, <2>3, <2>4, CheckedIsDone
<1>12. ASSUME NEW t \in own.ledger PROVE t.id \in due \/ Done(own, t)
  <2>1. CASE t.id = tx
    BY <1>3, <1>11, <2>1
  <2>2. CASE t.id # tx
    <3>1. t \in v.own.ledger /\ EntriesOf(own.entries, t.id) = EntriesOf(v.own.entries, t.id)
      BY <1>1, <2>2
    <3>2. t.id \in v.due \/ Done(v.own, t)
      BY <1>2, <3>1 DEF OwnIsSound
    <3>3. Done(v.own, t) => Done(own, t)
      BY <3>1 DEF Done
    <3> QED BY <1>3, <3>2, <3>3
  <2> QED BY <2>1, <2>2
<1>13. OwnIsSound(w, committed.ledger)
  BY <1>2, <1>7, <1>8, <1>9, <1>10, <1>12 DEF OwnIsSound
<1> QED BY <1>5, <1>9, <1>13

\* A ledger transaction inserted by hand is queued for the deferred check.
LEMMA InsertTransactionKeepsInv ==
  ASSUME SchemaInv, NEW s \in Sessions, NEW tx \in TransactionIds, NEW type \in Types,
         NEW c \in Currencies, NEW f \in BOOLEAN, InsertTransaction(s, tx, type, c, f)
  PROVE  SchemaInv'
<1>1. PICK row : row = [id |-> tx, type |-> type, currency |-> c, finalized |-> f]
  OBVIOUS
<1>2. PICK v : v = session[s].own
  OBVIOUS
<1>3. OwnIsSound(session[s], committed.ledger) /\ v \in RowSets
  BY <1>2 DEF SchemaInv, SessionState
<1>4. PICK own : own = [v EXCEPT !.ledger = @ \cup {row}]
  OBVIOUS
<1>5. own.ledger = v.ledger \cup {row} /\ own.entries = v.entries /\ own.transfers = v.transfers
  BY <1>3, <1>4 DEF RowSets
<1>6. own \in RowSets
  BY <1>1, <1>3, <1>4 DEF RowSets, LedgerRow
<1>7. Writes(s, own, tx) /\ session[s].open /\ tx \notin Taken
  BY <1>1, <1>2, <1>4 DEF InsertTransaction
<1>8. tx \notin IdsOf(committed.ledger) /\ \A q \in Sessions : tx \notin IdsOf(session[q].own.ledger)
  BY <1>7 DEF Taken
<1>9. IdsOf(own.ledger) = IdsOf(v.ledger) \cup {tx}
  BY <1>1, <1>5 DEF IdsOf
<1>10. SameKeySameRow(own.ledger)
  BY <1>1, <1>2, <1>3, <1>5, <1>8 DEF OwnIsSound, SameKeySameRow, IdsOf
<1>11. \A t \in own.ledger : t.id # tx => t \in v.ledger
  BY <1>1, <1>5
<1>12. PICK w : /\ session' = [session EXCEPT ![s] = w] /\ w.own = own
                /\ OwnIsSound(w, committed.ledger)
  <2>1. /\ tx \in IdsOf(own.ledger) /\ IsFiniteSet(own.entries)
        /\ IdsOf(v.ledger) \subseteq IdsOf(own.ledger)
        /\ IdsOf(own.ledger) \cap IdsOf(committed.ledger) = {}
    BY <1>2, <1>3, <1>5, <1>8, <1>9 DEF OwnIsSound
  <2>2. \A t \in own.ledger : t.id # tx =>
          t \in v.ledger /\ EntriesOf(own.entries, t.id) = EntriesOf(v.entries, t.id)
    BY <1>5, <1>11
  <2>3. /\ \A e \in own.entries : \E t \in own.ledger : t.id = e.tx /\ t.currency = Currency[e.account]
        /\ \A r \in own.transfers :
             \E t \in own.ledger \cup committed.ledger : t.id = r /\ t.type = "transfer"
    BY <1>2, <1>3, <1>5 DEF OwnIsSound
  <2> QED BY <1>2, <1>6, <1>7, <1>10, <2>1, <2>2, <2>3, WritesAreSound
<1>13. \A q \in Sessions : q # s => IdsOf(w.own.ledger) \cap IdsOf(session[q].own.ledger) = {}
  BY <1>2, <1>8, <1>9, <1>12 DEF SchemaInv
<1>14. AllEntries \cup w.own.entries = AllEntries
  BY <1>2, <1>5, <1>12 DEF AllEntries
<1>15. committed' = committed
  BY <1>7 DEF Writes
<1>16. SameKeySameRow(AllEntries \cup w.own.entries)
  BY <1>14 DEF SchemaInv, KeysOK
<1> QED BY <1>12, <1>13, <1>15, <1>16, OwnStatement

\* An entry by hand: its transaction is the session's own and not finalized,
\* and the trigger has compared the currencies.
LEMMA InsertEntryKeepsInv ==
  ASSUME SchemaInv, NEW s \in Sessions, NEW tx \in TransactionIds, NEW a \in EntryAccounts,
         NEW x \in Halves, InsertEntry(s, tx, a, x)
  PROVE  SchemaInv'
<1>1. PICK e : e = Entry(NextKey, tx, a, x)
  OBVIOUS
<1>2. PICK v : v = session[s].own
  OBVIOUS
<1>3. OwnIsSound(session[s], committed.ledger) /\ v \in RowSets
  BY <1>2 DEF SchemaInv, SessionState
<1>4. PICK own : own = [v EXCEPT !.entries = @ \cup {e}]
  OBVIOUS
<1>5. own.entries = v.entries \cup {e} /\ own.ledger = v.ledger /\ own.transfers = v.transfers
  BY <1>3, <1>4 DEF RowSets
<1>6. e \in EntryRow /\ e.id = NextKey /\ e.tx = tx /\ e.account = a
  BY <1>1, NextKeyIsUnused DEF EntryRow, Entry, Halves
<1>7. own \in RowSets
  BY <1>3, <1>4, <1>6 DEF RowSets
<1>8. Writes(s, own, tx) /\ session[s].open /\ NextKey <= MaxEntries
  BY <1>1, <1>2, <1>4 DEF InsertEntry
<1>9. PICK t \in v.ledger : t.id = tx
  BY <1>2, OpenRowsAreOwn DEF InsertEntry, Appendable
<1>10. tx \in IdsOf(v.ledger)
  BY <1>9 DEF IdsOf
<1>11. \E u \in v.ledger : u.id = tx /\ u.currency = Currency[a]
  BY <1>2, <1>10, SeenByIsVisible, OwnRowsAreSeen DEF InsertEntry, SameCurrency
<1>12. \A f \in own.entries : \E u \in own.ledger : u.id = f.tx /\ u.currency = Currency[f.account]
  BY <1>2, <1>3, <1>5, <1>6, <1>11 DEF OwnIsSound
<1>13. \A u \in own.ledger : u.id # tx =>
         u \in v.ledger /\ EntriesOf(own.entries, u.id) = EntriesOf(v.entries, u.id)
  BY <1>5, <1>6 DEF EntriesOf
<1>14. IsFiniteSet(own.entries)
  BY <1>2, <1>3, <1>5, FS_AddElement DEF OwnIsSound
<1>15. PICK w : /\ session' = [session EXCEPT ![s] = w] /\ w.own = own
                /\ OwnIsSound(w, committed.ledger)
  <2>1. /\ tx \in IdsOf(own.ledger) /\ SameKeySameRow(own.ledger)
        /\ IdsOf(v.ledger) \subseteq IdsOf(own.ledger)
        /\ IdsOf(own.ledger) \cap IdsOf(committed.ledger) = {}
    BY <1>2, <1>3, <1>5, <1>10 DEF OwnIsSound
  <2>2. \A r \in own.transfers :
          \E u \in own.ledger \cup committed.ledger : u.id = r /\ u.type = "transfer"
    BY <1>2, <1>3, <1>5 DEF OwnIsSound
  <2> QED BY <1>2, <1>7, <1>8, <1>12, <1>13, <1>14, <2>1, <2>2, WritesAreSound
<1>16. \A q \in Sessions : q # s => IdsOf(w.own.ledger) \cap IdsOf(session[q].own.ledger) = {}
  BY <1>2, <1>5, <1>15 DEF SchemaInv
<1>17. SameKeySameRow(AllEntries \cup w.own.entries)
  <2>1. \A f \in AllEntries : f.id # e.id
    BY <1>6, <1>8, NextKeyIsUnused, EntryIdsAreTheKeys
  <2>2. AllEntries \cup w.own.entries = AllEntries \cup {e}
    BY <1>2, <1>5, <1>15 DEF AllEntries
  <2> QED BY <2>1, <2>2 DEF SchemaInv, KeysOK, SameKeySameRow
<1>18. committed' = committed
  BY <1>8 DEF Writes
<1> QED BY <1>15, <1>16, <1>17, <1>18, OwnStatement

\* Finalizing by hand: only once, and only what the session wrote itself.
LEMMA FinalizeKeepsInv ==
  ASSUME SchemaInv, NEW s \in Sessions, NEW tx \in TransactionIds, Finalize(s, tx)
  PROVE  SchemaInv'
<1>1. PICK v : v = session[s]
  OBVIOUS
<1>2. v \in SessionState /\ OwnIsSound(v, committed.ledger)
      /\ v.own \in RowSets /\ v.own.ledger \subseteq LedgerRow
  BY <1>1 DEF SchemaInv, SessionState, RowSets
<1>3. PICK t \in Visible(s) :
        /\ t.id = tx /\ Mutable(t)
        /\ session' = [session EXCEPT
             ![s].own.ledger = Merged(@, {[t EXCEPT !.finalized = ~@]}), ![s].byHand = TRUE]
  BY DEF Finalize
<1>4. t \in v.own.ledger /\ t \in LedgerRow /\ t.finalized = FALSE
  <2>1. t \in v.own.ledger
    BY <1>1, <1>3, OpenRowsAreOwn DEF Mutable
  <2> QED BY <1>2, <1>3, <2>1 DEF Mutable, LedgerRow
<1>5. PICK u : u = [t EXCEPT !.finalized = ~@]
  OBVIOUS
<1>6. u \in LedgerRow /\ u.id = t.id /\ u.type = t.type /\ u.currency = t.currency
      /\ u.finalized = TRUE
  BY <1>4, <1>5 DEF LedgerRow
<1>7. PICK L : L = {r \in v.own.ledger : r.id # t.id} \cup {u}
  OBVIOUS
<1>8. Merged(v.own.ledger, {u}) = L
  BY <1>6, <1>7 DEF Merged, IdsOf
<1>9. PICK own : own = [v.own EXCEPT !.ledger = L]
  OBVIOUS
<1>10. own \in RowSets /\ own.ledger = L /\ own.entries = v.own.entries
       /\ own.transfers = v.own.transfers
  BY <1>2, <1>6, <1>7, <1>9 DEF RowSets
<1>11. PICK w : w = [v EXCEPT !.own = own, !.byHand = TRUE]
  OBVIOUS
<1>12. /\ w \in SessionState /\ w.own = own /\ w.byHand = TRUE /\ w.due = v.due
       /\ w.open = v.open /\ w.strict = v.strict
  BY <1>2, <1>10, <1>11 DEF SessionState
<1>13. session' = [session EXCEPT ![s] = w]
  BY <1>1, <1>3, <1>5, <1>8, <1>9, <1>11
<1>14. IdsOf(L) = IdsOf(v.own.ledger)
  BY <1>4, <1>6, <1>7 DEF IdsOf
<1>15. \A r \in v.own.ledger :
         \E q \in L : q.id = r.id /\ q.type = r.type /\ q.currency = r.currency
  <2> SUFFICES ASSUME NEW r \in v.own.ledger
               PROVE  \E q \in L : q.id = r.id /\ q.type = r.type /\ q.currency = r.currency
    OBVIOUS
  <2>1. CASE r.id = t.id
    <3>1. r = t
      BY <1>2, <1>4, <2>1 DEF OwnIsSound, SameKeySameRow
    <3> QED BY <1>6, <1>7, <3>1
  <2>2. CASE r.id # t.id
    BY <1>7, <2>2
  <2> QED BY <2>1, <2>2
<1>16. SameKeySameRow(L)
  BY <1>2, <1>6, <1>7 DEF OwnIsSound, SameKeySameRow
<1>17. \A e \in own.entries : \E q \in L : q.id = e.tx /\ q.currency = Currency[e.account]
  BY <1>2, <1>10, <1>15 DEF OwnIsSound
<1>18. \A r \in own.transfers : \E q \in L \cup committed.ledger : q.id = r /\ q.type = "transfer"
  <2> SUFFICES ASSUME NEW r \in own.transfers
               PROVE  \E q \in L \cup committed.ledger : q.id = r /\ q.type = "transfer"
    OBVIOUS
  <2>1. PICK q \in v.own.ledger \cup committed.ledger : q.id = r /\ q.type = "transfer"
    BY <1>2, <1>10 DEF OwnIsSound
  <2> QED BY <1>15, <2>1
<1>19. v.open
  BY <1>2, <1>4 DEF OwnIsSound, Closed, NoRows
<1>20. t.id \in v.due /\ ~v.strict
  BY <1>2, <1>4 DEF OwnIsSound, Done
<1>21. \A r \in L : r.id \in v.due \/ Done(own, r)
  BY <1>2, <1>6, <1>7, <1>10, <1>20 DEF OwnIsSound, Done
<1>22. OwnIsSound(w, committed.ledger)
  BY <1>2, <1>10, <1>12, <1>14, <1>16, <1>17, <1>18, <1>19, <1>20, <1>21 DEF OwnIsSound
<1>23. \A q \in Sessions : q # s => IdsOf(w.own.ledger) \cap IdsOf(session[q].own.ledger) = {}
  BY <1>1, <1>10, <1>12, <1>14 DEF SchemaInv
<1>24. SameKeySameRow(AllEntries \cup w.own.entries)
  <2>1. AllEntries \cup w.own.entries = AllEntries
    BY <1>1, <1>10, <1>12 DEF AllEntries
  <2> QED BY <2>1 DEF SchemaInv, KeysOK
<1> QED BY <1>13, <1>22, <1>23, <1>24, OwnStatement DEF Finalize

\* A transfer row by hand: the trigger has looked for its transaction.
LEMMA InsertTransferKeepsInv ==
  ASSUME SchemaInv, NEW s \in Sessions, NEW tx \in TransactionIds, InsertTransfer(s, tx)
  PROVE  SchemaInv'
<1>1. PICK v : v = session[s]
  OBVIOUS
<1>2. v \in SessionState /\ OwnIsSound(v, committed.ledger) /\ v.own \in RowSets /\ v.open
  BY <1>1 DEF SchemaInv, SessionState, InsertTransfer
<1>3. \E t \in v.own.ledger \cup committed.ledger : t.id = tx /\ t.type = "transfer"
  BY <1>1, SeenByIsVisible, OwnRowsAreSeen DEF InsertTransfer
<1>4. PICK own : own = [v.own EXCEPT !.transfers = @ \cup {tx}]
  OBVIOUS
<1>5. own \in RowSets /\ own.ledger = v.own.ledger /\ own.entries = v.own.entries
      /\ own.transfers = v.own.transfers \cup {tx}
  BY <1>2, <1>4 DEF RowSets
<1>6. PICK w : w = [v EXCEPT !.own = own, !.byHand = TRUE]
  OBVIOUS
<1>7. /\ w \in SessionState /\ w.own = own /\ w.byHand = TRUE /\ w.due = v.due
      /\ w.open = v.open /\ w.strict = v.strict
  BY <1>2, <1>5, <1>6 DEF SessionState
<1>8. session' = [session EXCEPT ![s] = w]
  BY <1>1, <1>4, <1>6 DEF InsertTransfer
<1>9. \A t \in own.ledger : Done(v.own, t) => Done(own, t)
  BY <1>5 DEF Done
<1>10. OwnIsSound(w, committed.ledger)
  BY <1>2, <1>3, <1>5, <1>7, <1>9 DEF OwnIsSound
<1>11. \A q \in Sessions : q # s => IdsOf(w.own.ledger) \cap IdsOf(session[q].own.ledger) = {}
  BY <1>1, <1>5, <1>7 DEF SchemaInv
<1>12. SameKeySameRow(AllEntries \cup w.own.entries)
  <2>1. AllEntries \cup w.own.entries = AllEntries
    BY <1>1, <1>5, <1>7 DEF AllEntries
  <2> QED BY <2>1 DEF SchemaInv, KeysOK
<1> QED BY <1>8, <1>10, <1>11, <1>12, OwnStatement DEF InsertTransfer

\* A check that passes leaves every row it was queued for done.
LEMMA PassedIsDone ==
  ASSUME SchemaInv, NEW s \in Sessions, ChecksPass(s, session[s].due),
         NEW t \in session[s].own.ledger
  PROVE  Done(session[s].own, t)
<1>1. OwnIsSound(session[s], committed.ledger)
  BY DEF SchemaInv
<1>2. \A e \in committed.entries : e.tx \in IdsOf(committed.ledger)
  BY DEF SchemaInv, CommittedIsSound
<1>3. CASE t.id \in session[s].due
  <2>1. Balanced(SeenBy(session[s], committed), SeenEntries(session[s], committed, t.id), t.id)
    BY <1>3, SeenByIsVisible DEF ChecksPass
  <2>2. SameKeySameRow(session[s].own.ledger)
        /\ IdsOf(session[s].own.ledger) \cap IdsOf(committed.ledger) = {}
    BY <1>1 DEF OwnIsSound
  <2> QED BY <1>2, <2>1, <2>2, CheckedIsDone
<1>4. CASE t.id \notin session[s].due
  BY <1>1, <1>4 DEF OwnIsSound
<1> QED BY <1>3, <1>4

\* SET CONSTRAINTS ... IMMEDIATE: what is due is checked, or nothing happens.
LEMMA CheckNowKeepsInv ==
  ASSUME SchemaInv, NEW s \in Sessions, CheckNow(s) PROVE SchemaInv'
<1>1. PICK v : v = session[s]
  OBVIOUS
<1>2. v \in SessionState /\ OwnIsSound(v, committed.ledger) /\ v.open
  BY <1>1 DEF SchemaInv, CheckNow
<1>3. PICK w : w = [v EXCEPT !.due = {}, !.strict = TRUE]
  OBVIOUS
<1>4. /\ w \in SessionState /\ w.own = v.own /\ w.byHand = v.byHand /\ w.due = {}
      /\ w.open = v.open /\ w.strict = TRUE
  BY <1>2, <1>3 DEF SessionState
<1>5. session' = [session EXCEPT ![s] = w]
  BY <1>1, <1>3 DEF CheckNow
<1>6. \A t \in v.own.ledger : Done(v.own, t)
  BY <1>1, PassedIsDone DEF CheckNow
<1>7. OwnIsSound(w, committed.ledger)
  BY <1>2, <1>4, <1>6 DEF OwnIsSound
<1>8. \A q \in Sessions : q # s => IdsOf(w.own.ledger) \cap IdsOf(session[q].own.ledger) = {}
  BY <1>1, <1>4 DEF SchemaInv
<1>9. SameKeySameRow(AllEntries \cup w.own.entries)
  <2>1. AllEntries \cup w.own.entries = AllEntries
    BY <1>1, <1>4 DEF AllEntries
  <2> QED BY <2>1 DEF SchemaInv, KeysOK
<1> QED BY <1>5, <1>7, <1>8, <1>9, OwnStatement DEF CheckNow

\* Two entries of one amount on opposite sides are what the check asks for.
LEMMA PairIsEven ==
  ASSUME NEW d \in EntryRow, NEW c \in EntryRow, d.direction # c.direction, d.amount = c.amount
  PROVE  Even({d, c})
<1>1. d.amount \in Nat /\ c.amount \in Nat
  BY JournalSchemaAssumption DEF EntryRow
<1>2. Total({d}) = Total({c})
  BY <1>1, TotalOfOne
<1>3. \/ d.direction = "debit" /\ c.direction = "credit"
      \/ d.direction = "credit" /\ c.direction = "debit"
  BY DEF EntryRow, Directions
<1>4. CASE d.direction = "debit" /\ c.direction = "credit"
  <2>1. Side({d, c}, "debit") = {d} /\ Side({d, c}, "credit") = {c}
    BY <1>4 DEF Side
  <2> QED BY <1>2, <2>1 DEF Even, Directions
<1>5. CASE d.direction = "credit" /\ c.direction = "debit"
  <2>1. Side({d, c}, "debit") = {c} /\ Side({d, c}, "credit") = {d}
    BY <1>5 DEF Side
  <2> QED BY <1>2, <2>1 DEF Even, Directions
<1> QED BY <1>3, <1>4, <1>5

\* The posting function: one transaction and its two entries, finished in one
\* statement, and checked at once where the constraints are immediate.
LEMMA PostKeepsInv ==
  ASSUME SchemaInv, NEW s \in Sessions, NEW tx \in TransactionIds, NEW type \in Types,
         NEW a \in EntryAccounts, NEW b \in EntryAccounts, NEW x \in Halves, NEW y \in Halves,
         Post(s, tx, type, a, b, x, y)
  PROVE  SchemaInv'
<1>1. PICK v : v = session[s]
  OBVIOUS
<1>2. v \in SessionState /\ OwnIsSound(v, committed.ledger) /\ v.own \in RowSets /\ v.open /\ ~v.strict
  BY <1>1 DEF SchemaInv, SessionState, Post
<1>3. PICK row, d, c :
        /\ row = [id |-> tx, type |-> type, currency |-> Currency[a], finalized |-> TRUE]
        /\ d = Entry(NextKey, tx, a, x) /\ c = Entry(NextKey + 1, tx, b, y)
  OBVIOUS
<1>4. /\ NextKey \in Nat /\ NextKey \notin EntryIds
      /\ NextKey + 1 \in Nat /\ NextKey + 1 \notin EntryIds
  BY NextKeyIsUnused, JournalSchemaAssumption DEF Post
<1>5. /\ d \in EntryRow /\ d.id = NextKey /\ d.tx = tx /\ d.account = a
      /\ d.direction = x.direction /\ d.amount = x.amount
      /\ c \in EntryRow /\ c.id = NextKey + 1 /\ c.tx = tx /\ c.account = b
      /\ c.direction = y.direction /\ c.amount = y.amount
  BY <1>3, <1>4 DEF Entry, EntryRow, Halves
<1>6. row \in LedgerRow /\ row.id = tx /\ row.finalized = TRUE /\ row.currency = Currency[a]
  BY <1>3, JournalSchemaAssumption DEF LedgerRow
<1>7. Currency[a] = Currency[b] /\ x.direction # y.direction /\ x.amount = y.amount
  BY DEF Post, Accepts
<1>8. tx \notin IdsOf(committed.ledger) /\ \A q \in Sessions : tx \notin IdsOf(session[q].own.ledger)
  BY DEF Post, Taken
<1>9. PICK own : own = [v.own EXCEPT !.ledger = @ \cup {row}, !.entries = @ \cup {d, c}]
  OBVIOUS
<1>10. own.ledger = v.own.ledger \cup {row} /\ own.entries = v.own.entries \cup {d, c}
       /\ own.transfers = v.own.transfers /\ own \in RowSets
  BY <1>2, <1>5, <1>6, <1>9 DEF RowSets
<1>11. PICK w : w = [v EXCEPT !.own = own, !.due = @ \cup {tx}]
  OBVIOUS
<1>12. /\ w \in SessionState /\ w.own = own /\ w.byHand = v.byHand /\ w.due = v.due \cup {tx}
       /\ w.open = v.open /\ w.strict = v.strict
  BY <1>2, <1>10, <1>11 DEF SessionState
<1>13. session' = [session EXCEPT ![s] = w]
  <2>1. session \in [Sessions -> SessionState]
    BY DEF SchemaInv
  <2>2. own = [v.own EXCEPT !.ledger = v.own.ledger \cup {row},
                            !.entries = v.own.entries \cup {d, c}]
    BY <1>2, <1>9 DEF RowSets
  <2>3. w = [v EXCEPT !.own.ledger = @ \cup {row}, !.own.entries = @ \cup {d, c},
                      !.due = @ \cup {tx}]
    BY <1>2, <1>9, <1>11 DEF SessionState, RowSets
  <2> QED BY <1>1, <1>3, <2>1, <2>3 DEF Post
<1>14. \A e \in v.own.entries : e.tx # tx
  BY <1>1, <1>2, <1>8 DEF OwnIsSound, IdsOf
<1>15. EntriesOf(own.entries, tx) = {d, c}
  BY <1>5, <1>10, <1>14 DEF EntriesOf
<1>16. Done(own, row)
  BY <1>5, <1>6, <1>7, <1>15, PairIsEven DEF Done
<1>17. \A t \in v.own.ledger : EntriesOf(own.entries, t.id) = EntriesOf(v.own.entries, t.id)
  BY <1>1, <1>5, <1>8, <1>10 DEF EntriesOf, IdsOf
<1>18. \A t \in v.own.ledger : Done(v.own, t) => Done(own, t)
  BY <1>17 DEF Done
<1>19. IdsOf(own.ledger) = IdsOf(v.own.ledger) \cup {tx}
  BY <1>6, <1>10 DEF IdsOf
<1>20. SameKeySameRow(own.ledger)
  BY <1>1, <1>2, <1>6, <1>8, <1>10 DEF OwnIsSound, SameKeySameRow, IdsOf
<1>21. IsFiniteSet(own.entries)
  <2>1. IsFiniteSet(v.own.entries \cup {d})
    BY <1>2, FS_AddElement DEF OwnIsSound
  <2>2. own.entries = (v.own.entries \cup {d}) \cup {c}
    BY <1>10
  <2> QED BY <2>1, <2>2, FS_AddElement
<1>22. \A e \in own.entries : \E t \in own.ledger : t.id = e.tx /\ t.currency = Currency[e.account]
  BY <1>2, <1>5, <1>6, <1>7, <1>10 DEF OwnIsSound
<1>23. IdsOf(own.ledger) \cap IdsOf(committed.ledger) = {}
  BY <1>2, <1>8, <1>19 DEF OwnIsSound
<1>24. w.due \subseteq IdsOf(own.ledger)
  BY <1>2, <1>12, <1>19 DEF OwnIsSound
<1>25. OwnIsSound(w, committed.ledger)
  <2>1. \A r \in own.transfers :
          \E t \in own.ledger \cup committed.ledger : t.id = r /\ t.type = "transfer"
    BY <1>2, <1>10 DEF OwnIsSound
  <2>2. \A t \in own.ledger : t.id \in w.due \/ Done(own, t)
    BY <1>2, <1>10, <1>12, <1>16, <1>18 DEF OwnIsSound
  <2>3. ~w.byHand => \A t \in own.ledger : Done(own, t)
    BY <1>2, <1>10, <1>12, <1>16, <1>18 DEF OwnIsSound
  <2>4. w.open /\ ~w.strict
    BY <1>2, <1>12
  <2> QED BY <1>12, <1>20, <1>21, <1>22, <1>23, <1>24, <2>1, <2>2, <2>3, <2>4 DEF OwnIsSound
<1>26. \A q \in Sessions : q # s => IdsOf(w.own.ledger) \cap IdsOf(session[q].own.ledger) = {}
  BY <1>1, <1>8, <1>12, <1>19 DEF SchemaInv
<1>27. SameKeySameRow(AllEntries \cup w.own.entries)
  <2>1. \A f \in AllEntries : f.id # d.id /\ f.id # c.id
    BY <1>4, <1>5, EntryIdsAreTheKeys
  <2>2. AllEntries \cup w.own.entries = AllEntries \cup {d, c} /\ d.id # c.id
    BY <1>1, <1>4, <1>5, <1>10, <1>12 DEF AllEntries
  <2> QED BY <2>1, <2>2 DEF SchemaInv, KeysOK, SameKeySameRow
<1> QED BY <1>13, <1>25, <1>26, <1>27, OwnStatement DEF Post

----------------------------------------------------------------------------
(* Commit *)

\* COMMIT: every row that becomes visible has passed its check, and no
\* transaction that was visible is altered or gains an entry.
LEMMA CommitKeepsInv ==
  ASSUME SchemaInv, NEW s \in Sessions, CommitTransaction(s)
  PROVE  /\ SchemaInv'
         /\ \A t \in committed.ledger :
              /\ t \in committed'.ledger
              /\ EntriesOf(committed'.entries, t.id) = EntriesOf(committed.entries, t.id)
<1>1. PICK own : own = session[s].own
  OBVIOUS
<1>2. OwnIsSound(session[s], committed.ledger) /\ own \in RowSets
      /\ session \in [Sessions -> SessionState] /\ committed \in RowSets
  BY <1>1 DEF SchemaInv, SessionState
<1>3. \A t \in own.ledger : Done(own, t)
  BY <1>1, PassedIsDone DEF CommitTransaction, PassesAtCommit
<1>4. IdsOf(own.ledger) \cap IdsOf(committed.ledger) = {}
  BY <1>1, <1>2 DEF OwnIsSound
<1>5. /\ committed'.ledger = committed.ledger \cup own.ledger
      /\ committed'.entries = committed.entries \cup own.entries
      /\ committed'.transfers = committed.transfers \cup own.transfers
      /\ committed' \in RowSets
  <2>1. Merged(committed.ledger, own.ledger) = committed.ledger \cup own.ledger
    BY <1>4 DEF Merged, IdsOf
  <2>2. committed' = [ledger    |-> committed.ledger \cup own.ledger,
                      entries   |-> committed.entries \cup own.entries,
                      transfers |-> committed.transfers \cup own.transfers]
    BY <1>1, <2>1 DEF CommitTransaction
  <2> QED BY <1>2, <2>2 DEF RowSets
<1>6. session' = [session EXCEPT ![s] = Closed]
  BY DEF CommitTransaction
<1>7. /\ \A e \in committed.entries : e.tx \in IdsOf(committed.ledger)
      /\ \A e \in own.entries : e.tx \in IdsOf(own.ledger)
  BY <1>1, <1>2 DEF SchemaInv, CommittedIsSound, OwnIsSound, IdsOf
<1>8. \A t \in committed.ledger :
        EntriesOf(committed'.entries, t.id) = EntriesOf(committed.entries, t.id)
  BY <1>4, <1>5, <1>7 DEF EntriesOf, IdsOf
<1>9. \A t \in own.ledger : EntriesOf(committed'.entries, t.id) = EntriesOf(own.entries, t.id)
  BY <1>4, <1>5, <1>7 DEF EntriesOf, IdsOf
<1>10. IdsOf(committed'.ledger) = IdsOf(committed.ledger) \cup IdsOf(own.ledger)
  BY <1>5 DEF IdsOf
<1>11. CommittedIsSound'
  <2>1. ASSUME NEW t \in committed'.ledger
        PROVE  /\ t.finalized /\ Even(EntriesOf(committed'.entries, t.id))
               /\ \A e \in EntriesOf(committed'.entries, t.id) : Currency[e.account] = t.currency
    <3>1. CASE t \in committed.ledger
      BY <1>8, <3>1 DEF SchemaInv, CommittedIsSound, EntriesOf
    <3>2. CASE t \in own.ledger
      <4>1. \A e \in own.entries : e.tx = t.id => Currency[e.account] = t.currency
        BY <1>1, <1>2, <3>2 DEF OwnIsSound, SameKeySameRow
      <4> QED BY <1>3, <1>9, <3>2, <4>1 DEF Done, EntriesOf
    <3> QED BY <1>5, <3>1, <3>2
  <2>2. \A e \in committed'.entries : e.tx \in IdsOf(committed'.ledger)
    BY <1>5, <1>7, <1>10
  <2>3. \A tx \in committed'.transfers :
          \E t \in committed'.ledger : t.id = tx /\ t.type = "transfer"
    BY <1>1, <1>2, <1>5 DEF SchemaInv, CommittedIsSound, OwnIsSound
  <2> QED BY <2>1, <2>2, <2>3 DEF CommittedIsSound, EntriesOf, IdsOf
<1>12. \A q \in Sessions : OwnIsSound(session'[q], committed'.ledger)
  <2> SUFFICES ASSUME NEW q \in Sessions PROVE OwnIsSound(session'[q], committed'.ledger)
    OBVIOUS
  <2>1. CASE q = s
    <3>1. Closed \in SessionState /\ Closed.own = NoRows /\ Closed.due = {}
      BY DEF Closed, SessionState, NoRows, RowSets
    <3> QED BY <1>2, <1>6, <2>1, <3>1, EmptyIsSound
  <2>2. CASE q # s
    <3>1. session'[q] = session[q] /\ OwnIsSound(session[q], committed.ledger)
      BY <1>2, <1>6, <2>2 DEF SchemaInv
    <3>2. IdsOf(session[q].own.ledger) \cap IdsOf(committed'.ledger) = {}
      BY <1>1, <1>10, <2>2, <3>1 DEF SchemaInv, OwnIsSound
    <3>3. \A tx \in session[q].own.transfers :
            \E t \in session[q].own.ledger \cup committed'.ledger : t.id = tx /\ t.type = "transfer"
      <4>1. committed.ledger \subseteq committed'.ledger
        BY <1>5
      <4>2. \A tx \in session[q].own.transfers :
              \E t \in session[q].own.ledger \cup committed.ledger : t.id = tx /\ t.type = "transfer"
        BY <3>1 DEF OwnIsSound
      <4> QED BY <4>1, <4>2
    <3> QED BY <3>1, <3>2, <3>3 DEF OwnIsSound
  <2> QED BY <2>1, <2>2
<1>13. session' \in [Sessions -> SessionState]
  BY <1>2, <1>6, <1>12 DEF OwnIsSound
<1>14. \A p, q \in Sessions :
         p # q => IdsOf(session'[p].own.ledger) \cap IdsOf(session'[q].own.ledger) = {}
  <2>1. IdsOf(Closed.own.ledger) = {}
    BY DEF Closed, NoRows, IdsOf
  <2> QED BY <1>2, <1>6, <2>1 DEF SchemaInv
<1>15. KeysOK'
  <2>1. AllEntries' \subseteq AllEntries
    BY <1>1, <1>2, <1>5, <1>6 DEF AllEntries, Closed, NoRows
  <2>2. IsFiniteSet(committed'.entries)
    <3>1. IsFiniteSet(committed.entries) /\ IsFiniteSet(own.entries)
      BY <1>1, <1>2 DEF SchemaInv, KeysOK, OwnIsSound
    <3>2. IsFiniteSet(committed.entries \cup own.entries)
      BY <3>1, FS_Union
    <3> QED BY <1>5, <3>2
  <2> QED BY <2>1, <2>2 DEF SchemaInv, KeysOK, SameKeySameRow
<1>16. SchemaInv'
  BY <1>5, <1>11, <1>12, <1>13, <1>14, <1>15 DEF SchemaInv
<1> QED BY <1>5, <1>8, <1>16

----------------------------------------------------------------------------
(* The theorems *)

HistoryKept ==
  \A t \in committed.ledger :
    /\ t \in committed'.ledger
    /\ {e \in committed'.entries : e.tx = t.id} = {e \in committed.entries : e.tx = t.id}

\* No step breaks the invariant, and none rewrites the history.
LEMMA SchemaNextInv ==
  SchemaInv /\ [SchemaNext]_schemaVars => SchemaInv' /\ [HistoryKept]_schemaVars
<1> SUFFICES ASSUME SchemaInv, [SchemaNext]_schemaVars PROVE SchemaInv' /\ HistoryKept
  OBVIOUS
<1>1. ASSUME committed' = committed PROVE HistoryKept
  BY <1>1 DEF HistoryKept
<1>2. CASE UNCHANGED schemaVars
  <2>1. SchemaInv'
    <3>1. CommittedIsSound' /\ KeysOK'
      BY <1>2 DEF schemaVars, SchemaInv, CommittedIsSound, KeysOK, AllEntries, SameKeySameRow, IdsOf
    <3> QED BY <1>2, <3>1 DEF schemaVars, SchemaInv
  <2> QED BY <1>1, <1>2, <2>1 DEF schemaVars
<1>3. ASSUME NEW s \in Sessions, CommitTransaction(s) PROVE SchemaInv' /\ HistoryKept
  BY <1>3, CommitKeepsInv DEF HistoryKept, EntriesOf
<1>4. ASSUME NEW s \in Sessions,
             \/ BeginTransaction(s) \/ RollbackTransaction(s) \/ CheckNow(s)
             \/ \E tx \in TransactionIds :
                  \/ Finalize(s, tx) \/ InsertTransfer(s, tx)
                  \/ \E type \in Types, c \in Currencies, f \in BOOLEAN :
                       InsertTransaction(s, tx, type, c, f)
                  \/ \E a \in EntryAccounts, x \in Halves : InsertEntry(s, tx, a, x)
                  \/ \E type \in Types, a, b \in EntryAccounts, x, y \in Halves :
                       Post(s, tx, type, a, b, x, y)
      PROVE  SchemaInv' /\ HistoryKept
  <2>1. committed' = committed
      <3>1. CASE BeginTransaction(s) \/ RollbackTransaction(s) \/ CheckNow(s)
      BY <3>1 DEF BeginTransaction, RollbackTransaction, CheckNow
    <3>2. CASE \E tx \in TransactionIds : Finalize(s, tx) \/ InsertTransfer(s, tx)
      BY <3>2 DEF Finalize, InsertTransfer
    <3>3. ASSUME NEW tx, NEW type, NEW c, NEW f, InsertTransaction(s, tx, type, c, f)
          PROVE  committed' = committed
      BY <3>3 DEF InsertTransaction, Writes
    <3>4. ASSUME NEW tx, NEW a, NEW x, InsertEntry(s, tx, a, x) PROVE committed' = committed
      BY <3>4 DEF InsertEntry, Writes
    <3>5. ASSUME NEW tx, NEW type, NEW a, NEW b, NEW x, NEW y, Post(s, tx, type, a, b, x, y)
          PROVE  committed' = committed
      BY <3>5 DEF Post
    <3> QED BY <1>4, <3>1, <3>2, <3>3, <3>4, <3>5
  <2>2. SchemaInv'
    BY <1>4, BeginKeepsInv, CheckNowKeepsInv, FinalizeKeepsInv, InsertTransferKeepsInv,
       InsertTransactionKeepsInv, InsertEntryKeepsInv, PostKeepsInv
  <2> QED BY <1>1, <2>1, <2>2
<1> QED BY <1>2, <1>3, <1>4 DEF SchemaNext

\* The inductive invariant of the schema: whatever sessions do by hand.
THEOREM SchemaInvariant == SchemaSpec => []SchemaInv
BY SchemaInitInv, SchemaNextInv, PTL DEF SchemaSpec

\* A transaction that only called the function passes the deferred checks.
LEMMA InvImpliesPostedPasses == SchemaInv => PostedPasses
<1> SUFFICES ASSUME SchemaInv, NEW s \in Sessions, ~session[s].byHand, NEW tx \in session[s].due
             PROVE  Balanced(Visible(s), VisibleEntries(s, tx), tx)
  BY DEF PostedPasses, PassesAtCommit, ChecksPass
<1>1. OwnIsSound(session[s], committed.ledger)
  BY DEF SchemaInv
<1>2. PICK t \in session[s].own.ledger : t.id = tx
  BY <1>1 DEF OwnIsSound, IdsOf
<1>3. Done(session[s].own, t)
  BY <1>1 DEF OwnIsSound
<1>4. SameKeySameRow(session[s].own.ledger)
      /\ IdsOf(session[s].own.ledger) \cap IdsOf(committed.ledger) = {}
  BY <1>1 DEF OwnIsSound
<1>5. \A e \in committed.entries : e.tx \in IdsOf(committed.ledger)
  BY DEF SchemaInv, CommittedIsSound
<1> QED BY <1>2, <1>3, <1>4, <1>5, CheckedIsDone, SeenByIsVisible

\* Migrations 001 to 004: for any sessions, accounts and amounts, what is
\* committed is balanced, finalized and of one currency, stays so, and the
\* posting function's own transactions pass the deferred check.
THEOREM BooksAreSound == SchemaSpec => BooksStaySound
<1>1. SchemaInv => CommittedIsSound /\ PostedPasses
  BY InvImpliesPostedPasses DEF SchemaInv
<1>2. SchemaSpec => [][HistoryKept]_schemaVars
  BY SchemaInvariant, SchemaNextInv, PTL DEF SchemaSpec
<1>3. HistoryIsAppendOnly <=> [][HistoryKept]_schemaVars
  BY DEF HistoryIsAppendOnly, HistoryKept
<1> QED BY <1>1, <1>2, <1>3, SchemaInvariant, PTL DEF BooksStaySound

\* Type correctness of the rows and of the sessions.
THEOREM SchemaTypeCorrect == SchemaSpec => []SchemaTypeOK
<1>1. SchemaInv => SchemaTypeOK
  <2> SUFFICES ASSUME SchemaInv PROVE SchemaTypeOK
    OBVIOUS
  <2>1. \A t \in committed.ledger :
          t.id \in TransactionIds /\ t.type \in Types /\ t.currency \in Currencies
    BY DEF SchemaInv, RowSets, LedgerRow
  <2>2. PICK E : E = committed.entries
    OBVIOUS
  <2>3. IsFiniteSet(E) /\ SameKeySameRow(E)
    BY <2>2 DEF SchemaInv, KeysOK, AllEntries, SameKeySameRow
  <2>4. [e \in E |-> e.id] \in Bijection(E, IdsOf(E))
    BY <2>3 DEF SameKeySameRow, IdsOf, Bijection, Injection, Surjection, IsInjective
  <2>5. Cardinality(IdsOf(E)) = Cardinality(E)
    BY <2>3, <2>4, FS_Bijection DEF ExistsBijection
  <2>6. \A s \in Sessions : session[s].due \subseteq TransactionIds
                            /\ (~session[s].open => session[s] = Closed)
    BY DEF SchemaInv, SessionState, OwnIsSound
  <2> QED BY <2>1, <2>2, <2>5, <2>6 DEF SchemaTypeOK
<1> QED BY <1>1, SchemaInvariant, PTL

----------------------------------------------------------------------------
(***************************************************************************)
(* Pagination, for any table, limit and number of walks.                   *)
(*                                                                         *)
(* The argument: the rows are totally ordered, so the first n of a set are *)
(* those of the n lowest ranks, and ranks are the numbers below the size   *)
(* of the set (RankIsBelow, SizeOfFirst).  What a walk has shown is        *)
(* everything visible up to its cursor, except rows that became visible    *)
(* behind it.                                                              *)
(***************************************************************************)

Before(i, j) == Less(Key(i), Key(j))

Lower(i, S) == {j \in S : Before(j, i)}
Rank(i, S)  == Cardinality(Lower(i, S))

\* Minimum
Fewer(m, n) == IF m < n THEN m ELSE n

DownClosed(P, S) == P \subseteq S /\ \A i \in P, j \in S : Before(j, i) => j \in P

----------------------------------------------------------------------------
(* The order of the rows, and the first rows of a set *)

\* (created_at, id) is a strict total order on the rows.
LEMMA BeforeIsTotal ==
  ASSUME began \in [Ids -> Int]
  PROVE  /\ \A i \in Ids : ~Before(i, i)
         /\ \A i, j, k \in Ids : Before(i, j) /\ Before(j, k) => Before(i, k)
         /\ \A i, j \in Ids : i = j \/ Before(i, j) \/ Before(j, i)
<1>1. \A i \in Ids : i \in Int /\ began[i] \in Int
  BY PaginationAssumption
<1> QED BY <1>1 DEF Before, Less, Key

\* The numbers below n are n numbers.
LEMMA SizeOfInterval ==
  ASSUME NEW n \in Nat
  PROVE  IsFiniteSet(0 .. n - 1) /\ Cardinality(0 .. n - 1) = n
<1>1. 0 \in Int /\ n - 1 \in Int
  OBVIOUS
<1>2. /\ IsFiniteSet(0 .. n - 1)
      /\ Cardinality(0 .. n - 1) = IF 0 > n - 1 THEN 0 ELSE n - 1 - 0 + 1
  BY <1>1, FS_Interval
<1> QED BY <1>2

\* Ranks are different, and ordered as their rows are.
LEMMA RankIsMonotone ==
  ASSUME began \in [Ids -> Int], NEW S \in SUBSET Ids, IsFiniteSet(S),
         NEW i \in S, NEW j \in S, Before(i, j)
  PROVE  Rank(i, S) < Rank(j, S)
<1>1. Lower(i, S) \subseteq Lower(j, S) /\ i \in Lower(j, S) /\ i \notin Lower(i, S)
  BY BeforeIsTotal DEF Lower
<1>2. IsFiniteSet(Lower(j, S))
  BY FS_Subset DEF Lower
<1>3. /\ Cardinality(Lower(i, S)) <= Cardinality(Lower(j, S))
      /\ Cardinality(Lower(i, S)) # Cardinality(Lower(j, S))
  BY <1>1, <1>2, FS_Subset
<1>4. Cardinality(Lower(i, S)) \in Nat /\ Cardinality(Lower(j, S)) \in Nat
  BY <1>1, <1>2, FS_Subset, FS_CardinalityType
<1> QED BY <1>3, <1>4 DEF Rank

\* The rank of a row counts other rows of its set.
LEMMA RankIsBelow ==
  ASSUME began \in [Ids -> Int], NEW S \in SUBSET Ids, IsFiniteSet(S), NEW i \in S
  PROVE  Rank(i, S) \in 0 .. Cardinality(S) - 1
<1>1. Lower(i, S) \subseteq S /\ i \in S \ Lower(i, S)
  BY BeforeIsTotal DEF Lower
<1>2. /\ IsFiniteSet(Lower(i, S)) /\ Cardinality(Lower(i, S)) <= Cardinality(S)
      /\ Cardinality(Lower(i, S)) # Cardinality(S)
  BY <1>1, FS_Subset
<1>3. Cardinality(Lower(i, S)) \in Nat /\ Cardinality(S) \in Nat
  BY <1>2, FS_CardinalityType
<1> QED BY <1>2, <1>3 DEF Rank

\* Every number below the size of the set is the rank of one row.
LEMMA RankIsBijection ==
  ASSUME began \in [Ids -> Int], NEW S \in SUBSET Ids, IsFiniteSet(S)
  PROVE  [i \in S |-> Rank(i, S)] \in Bijection(S, 0 .. Cardinality(S) - 1)
<1>1. PICK r : r = [i \in S |-> Rank(i, S)]
  OBVIOUS
<1>2. PICK T : T = 0 .. Cardinality(S) - 1
  OBVIOUS
<1>3. r \in [S -> T]
  BY <1>1, <1>2, RankIsBelow
<1>4. ASSUME NEW i \in S, NEW j \in S, r[i] = r[j] PROVE i = j
  <2>1. Rank(i, S) = Rank(j, S) /\ Rank(i, S) \in Int
    BY <1>1, <1>4, RankIsBelow
  <2>2. ~Before(i, j) /\ ~Before(j, i)
    BY <2>1, RankIsMonotone
  <2> QED BY <2>2, BeforeIsTotal
<1>5. r \in Injection(S, T)
  BY <1>3, <1>4 DEF Injection, IsInjective
<1>6. IsFiniteSet(T) /\ Cardinality(T) = Cardinality(S)
  BY <1>2, SizeOfInterval, FS_CardinalityType
<1>7. r \in Surjection(S, T)
  BY <1>5, <1>6, FS_Injection
<1> QED BY <1>1, <1>2, <1>5, <1>7 DEF Bijection

\* The first n rows are those of a rank below n.
LEMMA FirstIsRanked == \A n, S : First(n, S) = {i \in S : Rank(i, S) < n}
BY DEF First, Rank, Lower, Before

\* Whatever comes before one of the first rows is one of them.
LEMMA FirstIsDownClosed ==
  ASSUME began \in [Ids -> Int], NEW S \in SUBSET Ids, IsFiniteSet(S), NEW n \in Nat
  PROVE  DownClosed(First(n, S), S)
<1> SUFFICES ASSUME NEW i \in First(n, S), NEW j \in S, Before(j, i) PROVE j \in First(n, S)
  BY FirstIsRanked DEF DownClosed
<1>1. i \in S /\ Rank(i, S) < n
  BY FirstIsRanked
<1>2. Rank(j, S) < Rank(i, S) /\ Rank(i, S) \in Int /\ Rank(j, S) \in Int
  BY <1>1, RankIsMonotone, RankIsBelow
<1> QED BY <1>1, <1>2, FirstIsRanked

\* LIMIT n returns n rows, or all there are: this is why a page of limit + 1
\* rows tells that there is another one.
LEMMA SizeOfFirst ==
  ASSUME began \in [Ids -> Int], NEW S \in SUBSET Ids, IsFiniteSet(S), NEW n \in Nat
  PROVE  Cardinality(First(n, S)) = Fewer(n, Cardinality(S))
<1>1. PICK r : r = [i \in S |-> Rank(i, S)]
  OBVIOUS
<1>2. PICK c \in Nat : c = Cardinality(S)
  BY FS_CardinalityType
<1>3. r \in Bijection(S, 0 .. c - 1)
  BY <1>1, <1>2, RankIsBijection
<1>4. PICK F, T : F = First(n, S) /\ T = 0 .. Fewer(n, c) - 1
  OBVIOUS
<1>5. F = {i \in S : r[i] < n}
  BY <1>1, <1>4, FirstIsRanked
<1>6. r \in [S -> 0 .. c - 1] /\ (\A i, j \in S : r[i] = r[j] => i = j)
      /\ \A k \in 0 .. c - 1 : \E i \in S : r[i] = k
  BY <1>3 DEF Bijection, Injection, Surjection, IsInjective
<1>7. PICK q : q = [i \in F |-> r[i]]
  OBVIOUS
<1>8. q \in [F -> T]
  BY <1>2, <1>4, <1>5, <1>6, <1>7 DEF Fewer
<1>9. \A k \in T : \E i \in F : q[i] = k
  <2> SUFFICES ASSUME NEW k \in T PROVE \E i \in F : q[i] = k
    OBVIOUS
  <2>1. k \in 0 .. c - 1 /\ k < n
    BY <1>2, <1>4 DEF Fewer
  <2>2. PICK i \in S : r[i] = k
    BY <1>6, <2>1
  <2> QED BY <1>5, <1>7, <2>1, <2>2
<1>10. q \in Bijection(F, T)
  BY <1>5, <1>6, <1>7, <1>8, <1>9 DEF Bijection, Injection, Surjection, IsInjective
<1>11. IsFiniteSet(F)
  BY <1>5, FS_Subset
<1>12. Cardinality(T) = Cardinality(F)
  BY <1>10, <1>11, FS_Bijection DEF ExistsBijection
<1>13. Cardinality(T) = Fewer(n, c)
  BY <1>2, <1>4, SizeOfInterval DEF Fewer
<1> QED BY <1>2, <1>4, <1>12, <1>13

\* The greatest row of a set that is not empty: the one the cursor is made of.
LEMMA LastOfIsGreatest ==
  ASSUME began \in [Ids -> Int], NEW S \in SUBSET Ids, IsFiniteSet(S), S # {}
  PROVE  LastOf(S) \in S /\ \A j \in S : LastOf(S) = j \/ Before(j, LastOf(S))
<1>1. PICK c \in Nat : c = Cardinality(S)
  BY FS_CardinalityType
<1>2. c # 0
  BY <1>1, FS_EmptySet
<1>3. PICK r : r = [i \in S |-> Rank(i, S)]
  OBVIOUS
<1>4. r \in Surjection(S, 0 .. c - 1)
  BY <1>1, <1>3, RankIsBijection DEF Bijection
<1>5. PICK i \in S : r[i] = c - 1
  BY <1>1, <1>2, <1>4 DEF Surjection
<1>6. ASSUME NEW j \in S PROVE i = j \/ Before(j, i)
  <2>1. Rank(i, S) = c - 1 /\ Rank(j, S) \in 0 .. c - 1
    BY <1>1, <1>3, <1>5, RankIsBelow
  <2>2. ~Before(i, j)
    BY <1>1, <2>1, RankIsMonotone
  <2> QED BY <2>2, BeforeIsTotal
<1>7. \E k \in S : \A j \in S : k = j \/ Less(Key(j), Key(k))
  BY <1>6 DEF Before
<1> QED BY <1>7 DEF LastOf, Before

----------------------------------------------------------------------------
(* The inductive invariant *)

RowsOK ==
  /\ clock \in 0..MaxTime
  /\ began \in [Ids -> -1..MaxTime] /\ \A i \in Ids : began[i] <= clock
  /\ visible \subseteq Ids /\ IsFiniteSet(visible)
  /\ \A i \in visible : began[i] # Never

WalkTypes ==
  /\ limit \in 1..MaxLimit
  /\ cursor \in [createdAt : -1..MaxTime, id : Ids \cup {0, -1}]
  /\ pages \in Seq(SUBSET visible) /\ \A n \in DOMAIN pages : Cardinality(pages[n]) <= limit
  /\ at \in {"idle", "walking", "complete", "bounded", "refused"}
  /\ old \subseteq visible

\* Between two pages: nothing listed is behind the cursor, and what was there
\* from the start is listed or behind it.
PositionOK ==
  at = "walking" /\ cursor # Malformed =>
    /\ \A i \in Seen : ~Less(cursor, Key(i))
    /\ \A i \in old : i \in Seen \/ Less(cursor, Key(i))

\* While there are more pages the ones read are full.
PagesAreFull ==
  /\ Len(pages) <= MaxPages
  /\ at = "walking" => Len(pages) < MaxPages
  /\ at = "bounded" => Len(pages) = MaxPages
  /\ at \in {"walking", "bounded"} => Cardinality(Seen) = Len(pages) * limit

WalkInv == WalkTypes /\ PositionOK /\ PagesAreFull /\ OnceInOrder /\ OldRowsListed

\* A walk has only shown rows that are visible.
LEMMA SeenIsVisible == WalkTypes => Seen \subseteq visible
BY DEF WalkTypes, Seen

\* The invariant holds of an empty table and no walk.
LEMMA PaginationInitInv == PaginationInit => RowsOK /\ WalkInv
<1> SUFFICES ASSUME PaginationInit PROVE RowsOK /\ WalkInv
  OBVIOUS
<1>1. RowsOK
  BY PaginationAssumption, FS_EmptySet DEF PaginationInit, RowsOK, Never
<1>2. WalkTypes
  BY PaginationAssumption DEF PaginationInit, WalkTypes, NoCursor, Never
<1>3. PositionOK /\ PagesAreFull /\ OnceInOrder /\ OldRowsListed
  BY PaginationAssumption DEF PaginationInit, PositionOK, PagesAreFull, OnceInOrder, OldRowsListed
<1> QED BY <1>1, <1>2, <1>3 DEF WalkInv

\* Rows may begin and commit: the ones that are visible keep their place.
LEMMA RowsGrow ==
  ASSUME WalkInv, UNCHANGED walk, visible \subseteq visible',
         \A i \in visible : began'[i] = began[i]
  PROVE  WalkInv'
<1>1. Seen' = Seen /\ Seen \subseteq visible
  BY SeenIsVisible DEF WalkInv, walk, Seen
<1>2. \A i \in visible : Key(i)' = Key(i)
  BY DEF Key
<1>3. WalkTypes'
  <2>1. pages' \in Seq(SUBSET visible')
    BY DEF WalkInv, WalkTypes, walk
  <2> QED BY <2>1 DEF WalkInv, WalkTypes, walk
<1>4. PositionOK'
  BY <1>1, <1>2 DEF WalkInv, WalkTypes, PositionOK, walk
<1>5. PagesAreFull'
  BY <1>1 DEF WalkInv, PagesAreFull, walk
<1>6. OnceInOrder'
  <2>1. \A n \in DOMAIN pages : pages[n] \subseteq visible
    BY DEF WalkInv, WalkTypes
  <2> QED BY <1>2, <2>1 DEF WalkInv, OnceInOrder, walk
<1>7. OldRowsListed'
  BY <1>1 DEF WalkInv, OldRowsListed, walk
<1> QED BY <1>3, <1>4, <1>5, <1>6, <1>7 DEF WalkInv

\* Rows begin and commit while a walk is under way.
LEMMA RowStepsKeepInv ==
  ASSUME RowsOK, WalkInv, Tick \/ \E i \in Ids : BeginRow(i) \/ CommitRow(i)
  PROVE  RowsOK' /\ WalkInv'
<1>1. CASE Tick
  <2>1. RowsOK'
    BY <1>1, PaginationAssumption DEF RowsOK, Tick
  <2> QED BY <1>1, <2>1, RowsGrow DEF Tick
<1>2. ASSUME NEW i \in Ids, BeginRow(i) PROVE RowsOK' /\ WalkInv'
  <2>1. RowsOK'
    BY <1>2, PaginationAssumption DEF RowsOK, BeginRow, Never
  <2>2. \A j \in visible : began'[j] = began[j]
    BY <1>2 DEF RowsOK, BeginRow
  <2> QED BY <1>2, <2>1, <2>2, RowsGrow DEF BeginRow
<1>3. ASSUME NEW i \in Ids, CommitRow(i) PROVE RowsOK' /\ WalkInv'
  <2>1. IsFiniteSet(visible')
    BY <1>3, FS_AddElement DEF RowsOK, CommitRow
  <2>2. RowsOK'
    BY <1>3, <2>1 DEF RowsOK, CommitRow
  <2> QED BY <1>3, <2>2, RowsGrow DEF CommitRow
<1> QED BY <1>1, <1>2, <1>3

\* A walk starts with a request without a cursor.
LEMMA StartKeepsInv ==
  ASSUME RowsOK, WalkInv, NEW requested \in Requested, StartWalk(requested)
  PROVE  RowsOK' /\ WalkInv'
<1> USE DEF StartWalk
<1>1. RowsOK'
  BY DEF RowsOK, rows
<1>2. Seen' = {} /\ Len(pages') = 0
  BY DEF Seen
<1>3. limit' \in 1..MaxLimit
  BY PaginationAssumption DEF ResolveLimit
<1>4. WalkTypes'
  BY <1>3, PaginationAssumption DEF WalkTypes, rows, NoCursor, Never, RowsOK
<1>5. \A i \in visible : Less(NoCursor, Key(i))
  <2>1. \A i \in visible : began[i] \in 0..MaxTime
    BY PaginationAssumption DEF RowsOK, Never
  <2> QED BY <2>1 DEF Less, NoCursor, Key, Never
<1>6. PositionOK'
  BY <1>2, <1>5 DEF PositionOK, rows, Key
<1>7. PagesAreFull'
  <2>1. Cardinality(Seen') = 0 * limit'
    BY <1>2, <1>3, FS_EmptySet
  <2> QED BY <1>2, <2>1, PaginationAssumption DEF PagesAreFull
<1>8. OnceInOrder' /\ OldRowsListed'
  BY DEF OnceInOrder, OldRowsListed
<1> QED BY <1>1, <1>4, <1>6, <1>7, <1>8 DEF WalkInv

\* A cursor that was tampered with is refused, and the walk stays where it is.
LEMMA RefusalKeepsInv ==
  ASSUME RowsOK, WalkInv, Tamper \/ RefuseCursor PROVE RowsOK' /\ WalkInv'
<1>1. UNCHANGED <<rows, limit, pages, old>>
  BY DEF Tamper, RefuseCursor
<1>2. RowsOK' /\ Seen' = Seen
  BY <1>1 DEF RowsOK, rows, Seen
<1>3. cursor' \in {cursor, Malformed} /\ at' \in {at, "refused"} /\ (at' = "walking" => cursor' = Malformed)
  BY DEF Tamper, RefuseCursor
<1>4. Malformed \in [createdAt : -1..MaxTime, id : Ids \cup {0, -1}]
  BY PaginationAssumption DEF Malformed, Never
<1>5. WalkTypes'
  BY <1>1, <1>3, <1>4 DEF WalkInv, WalkTypes, rows
<1>6. PositionOK'
  BY <1>3 DEF PositionOK, Malformed, Never
<1>7. PagesAreFull' /\ OldRowsListed'
  BY <1>1, <1>2, <1>3 DEF WalkInv, PagesAreFull, OldRowsListed
<1>8. OnceInOrder'
  BY <1>1 DEF WalkInv, OnceInOrder, Key, rows
<1> QED BY <1>2, <1>5, <1>6, <1>7, <1>8 DEF WalkInv

\* A page: the first rows behind the cursor, all of them if there is no next.
LEMMA PageIsPrefix ==
  ASSUME RowsOK, WalkTypes, NEW S, S = Behind(cursor), NEW F, F = First(limit + 1, S),
         NEW P, P = First(limit, F)
  PROVE  /\ S \in SUBSET visible /\ P \subseteq S /\ IsFiniteSet(P) /\ DownClosed(P, S)
         /\ Cardinality(P) <= limit
         /\ ~HasMore(F, limit) => P = S
         /\ HasMore(F, limit) => Cardinality(P) = limit
<1>1. S \in SUBSET visible /\ S \in SUBSET Ids /\ IsFiniteSet(S)
  BY FS_Subset DEF RowsOK, Behind
<1>2. began \in [Ids -> Int] /\ limit \in Nat /\ limit + 1 \in Nat
  BY PaginationAssumption DEF RowsOK, WalkTypes
<1>3. F \subseteq S /\ DownClosed(F, S) /\ Cardinality(F) = Fewer(limit + 1, Cardinality(S))
  BY <1>1, <1>2, FirstIsDownClosed, SizeOfFirst DEF DownClosed
<1>4. F \in SUBSET Ids /\ IsFiniteSet(F)
  BY <1>1, <1>3, FS_Subset
<1>5. P \subseteq F /\ DownClosed(P, F) /\ Cardinality(P) = Fewer(limit, Cardinality(F))
  BY <1>2, <1>4, FirstIsDownClosed, SizeOfFirst DEF DownClosed
<1>6. IsFiniteSet(P) /\ P \subseteq S
  BY <1>3, <1>4, <1>5, FS_Subset
<1>7. DownClosed(P, S)
  BY <1>3, <1>5 DEF DownClosed
<1>8. Cardinality(F) \in Nat /\ Cardinality(S) \in Nat /\ Cardinality(P) \in Nat
  BY <1>1, <1>4, <1>6, FS_CardinalityType
<1>9. ~HasMore(F, limit) => P = S
  <2> SUFFICES ASSUME ~HasMore(F, limit) PROVE P = S
    OBVIOUS
  <2>1. Cardinality(F) = Cardinality(S) /\ Cardinality(P) = Cardinality(F)
    BY <1>2, <1>3, <1>5, <1>8 DEF HasMore, Fewer
  <2> QED BY <1>1, <1>3, <1>4, <1>5, <2>1, FS_Subset
<1>10. HasMore(F, limit) => Cardinality(P) = limit
  BY <1>2, <1>5, <1>8 DEF HasMore, Fewer
<1>11. Cardinality(P) <= limit
  BY <1>2, <1>5, <1>8 DEF Fewer
<1> QED BY <1>1, <1>6, <1>7, <1>9, <1>10, <1>11

\* A page is read behind the cursor: it continues where the last one ended, and
\* only rows that became visible meanwhile may have been passed over.
LEMMA ReadPageKeepsInv == ASSUME RowsOK, WalkInv, ReadPage PROVE RowsOK' /\ WalkInv'
<1>1. PICK S, F, P : S = Behind(cursor) /\ F = First(limit + 1, S) /\ P = First(limit, F)
  OBVIOUS
<1>2. /\ pages' = Append(pages, P)
      /\ cursor' = IF HasMore(F, limit) THEN EncodeCursor(LastOf(P)) ELSE NoCursor
      /\ at' = IF ~HasMore(F, limit) THEN "complete"
               ELSE IF GivesUp(Len(pages) + 1) THEN "bounded" ELSE "walking"
  BY <1>1 DEF ReadPage
<1>3. UNCHANGED <<rows, limit, old>> /\ at = "walking" /\ cursor # Malformed
  BY DEF ReadPage, Decodes
<1>4. WalkTypes /\ limit \in Nat /\ limit >= 1 /\ began \in [Ids -> Int] /\ visible \subseteq Ids
  BY PaginationAssumption DEF WalkInv, WalkTypes, RowsOK
<1>5. /\ S \in SUBSET visible /\ P \subseteq S /\ IsFiniteSet(P) /\ DownClosed(P, S)
      /\ Cardinality(P) <= limit
      /\ ~HasMore(F, limit) => P = S
      /\ HasMore(F, limit) => Cardinality(P) = limit
  BY <1>1, <1>4, PageIsPrefix
<1>6. Seen' = Seen \cup P /\ Len(pages') = Len(pages) + 1
  <2>1. pages \in Seq(SUBSET visible) /\ P \in SUBSET visible
    BY <1>4, <1>5 DEF WalkTypes
  <2>2. /\ DOMAIN pages' = DOMAIN pages \cup {Len(pages) + 1}
        /\ \A n \in DOMAIN pages : pages'[n] = pages[n]
        /\ pages'[Len(pages) + 1] = P /\ Len(pages') = Len(pages) + 1
    BY <1>2, <2>1
  <2> QED BY <2>2 DEF Seen
<1>7. \A i \in visible : Key(i)' = Key(i)
  BY <1>3 DEF rows, Key
<1>8. Seen \subseteq visible /\ IsFiniteSet(Seen)
  BY <1>4, SeenIsVisible, FS_Subset DEF RowsOK
<1>9. /\ \A i \in Seen : ~Less(cursor, Key(i))
      /\ \A i \in old : i \in Seen \/ Less(cursor, Key(i))
  BY <1>3 DEF WalkInv, PositionOK
<1>10. \A i \in S : Less(cursor, Key(i))
  BY <1>1 DEF Behind
<1>11. \A i \in Seen, j \in S : Before(i, j)
  <2>1. cursor.createdAt \in Int /\ cursor.id \in Int
    BY <1>4, PaginationAssumption DEF WalkTypes
  <2>2. \A i \in visible : began[i] \in Int /\ i \in Int
    BY <1>4, PaginationAssumption
  <2> QED BY <1>5, <1>8, <1>9, <1>10, <2>1, <2>2 DEF Before, Less, Key
<1>12. Seen \cap P = {}
  BY <1>5, <1>9, <1>10
<1>13. RowsOK'
  BY <1>3 DEF RowsOK, rows
<1>14. HasMore(F, limit) => LastOf(P) \in P /\ \A j \in P : LastOf(P) = j \/ Before(j, LastOf(P))
  <2> SUFFICES ASSUME HasMore(F, limit) PROVE P # {} /\ P \in SUBSET Ids
    BY <1>4, <1>5, LastOfIsGreatest
  <2> QED BY <1>4, <1>5, FS_EmptySet
<1>15. WalkTypes'
  <2>1. cursor' \in [createdAt : -1..MaxTime, id : Ids \cup {0, -1}]
    <3>1. CASE HasMore(F, limit)
      <4>1. LastOf(P) \in Ids /\ began[LastOf(P)] \in -1..MaxTime
        BY <1>4, <1>5, <1>14, <3>1 DEF RowsOK
      <4> QED BY <1>2, <3>1, <4>1 DEF EncodeCursor, Key
    <3>2. CASE ~HasMore(F, limit)
      BY <1>2, <3>2, PaginationAssumption DEF NoCursor, Never
    <3> QED BY <3>1, <3>2
  <2>2. pages' \in Seq(SUBSET visible') /\ \A n \in DOMAIN pages' : Cardinality(pages'[n]) <= limit'
    BY <1>2, <1>3, <1>4, <1>5 DEF WalkTypes, rows
  <2>3. at' \in {"idle", "walking", "complete", "bounded", "refused"}
    BY <1>2
  <2> QED BY <1>3, <1>4, <2>1, <2>2, <2>3 DEF WalkTypes, rows
<1>16. PositionOK'
  <2> SUFFICES ASSUME at' = "walking"
               PROVE  /\ \A i \in Seen' : ~Less(cursor', Key(i)')
                      /\ \A i \in old : i \in Seen' \/ Less(cursor', Key(i)')
    BY <1>3 DEF PositionOK
  <2>1. HasMore(F, limit)
    BY <1>2
  <2>2. PICK l \in P : l = LastOf(P) /\ cursor' = Key(l) /\ \A j \in P : l = j \/ Before(j, l)
    BY <1>2, <1>14, <2>1 DEF EncodeCursor
  <2>3. \A i \in Seen' : ~Before(l, i)
    <3>1. \A i \in P : ~Before(l, i)
      BY <1>4, <1>5, <2>2, BeforeIsTotal
    <3>2. \A i \in Seen : Before(i, l)
      BY <1>5, <1>11
    <3>3. \A i \in Seen : ~Before(l, i)
      BY <1>4, <1>5, <1>8, <3>2, BeforeIsTotal
    <3> QED BY <1>6, <3>1, <3>3
  <2>4. \A i \in old : i \in Seen' \/ Before(l, i)
    <3> SUFFICES ASSUME NEW i \in old, i \notin Seen' PROVE Before(l, i)
      OBVIOUS
    <3>1. i \in visible /\ Less(cursor, Key(i))
      BY <1>4, <1>6, <1>9 DEF WalkTypes
    <3>2. i \in S /\ i \notin P
      BY <1>1, <1>6, <3>1 DEF Behind
    <3>3. ~Before(i, l)
      BY <1>5, <3>2 DEF DownClosed
    <3> QED BY <1>4, <1>5, <3>1, <3>2, <3>3, BeforeIsTotal
  <2>5. Seen' \subseteq visible /\ old \subseteq visible
    BY <1>4, <1>5, <1>6, <1>8 DEF WalkTypes
  <2> QED BY <1>7, <2>2, <2>3, <2>4, <2>5 DEF Before
<1>17. PagesAreFull'
  <2>1. Len(pages) \in Nat /\ Len(pages) < MaxPages /\ Cardinality(Seen) = Len(pages) * limit
    BY <1>3, <1>4 DEF WalkInv, PagesAreFull, WalkTypes
  <2>2. HasMore(F, limit) => Cardinality(Seen') = (Len(pages) + 1) * limit
    <3> SUFFICES ASSUME HasMore(F, limit) PROVE Cardinality(Seen \cup P) = (Len(pages) + 1) * limit
      BY <1>6
    <3>1. Cardinality(Seen \cap P) = 0
      BY <1>12, FS_EmptySet
    <3>2. Cardinality(Seen \cup P) = Cardinality(Seen) + Cardinality(P) - Cardinality(Seen \cap P)
      BY <1>5, <1>8, FS_Union
    <3>3. Cardinality(Seen) \in Nat
      BY <1>8, FS_CardinalityType
    <3>4. Cardinality(Seen \cup P) = Cardinality(Seen) + limit
      BY <1>4, <1>5, <3>1, <3>2, <3>3
    <3>5. \A m, n \in Nat : m * n + n = (m + 1) * n
      OBVIOUS
    <3> QED BY <1>4, <2>1, <3>4, <3>5
  <2> QED BY <1>2, <1>3, <1>6, <2>1, <2>2, PaginationAssumption DEF PagesAreFull, GivesUp
<1>18. OnceInOrder'
  <2> SUFFICES ASSUME NEW m \in DOMAIN pages', NEW n \in DOMAIN pages', m < n,
                      NEW i \in pages'[m], NEW j \in pages'[n]
               PROVE  Less(Key(i)', Key(j)')
    BY DEF OnceInOrder
  <2>1. pages \in Seq(SUBSET visible) /\ P \in SUBSET visible
    BY <1>4, <1>5 DEF WalkTypes
  <2>2. m \in DOMAIN pages /\ pages'[m] = pages[m] /\ i \in visible
    BY <1>2, <2>1
  <2>3. CASE n \in DOMAIN pages
    <3>1. j \in pages[n] /\ j \in visible
      BY <1>2, <2>1, <2>3
    <3> QED BY <1>7, <2>2, <2>3, <3>1 DEF WalkInv, OnceInOrder
  <2>4. CASE n \notin DOMAIN pages
    <3>1. j \in P
      BY <1>2, <2>1, <2>4
    <3>2. i \in Seen
      BY <2>2 DEF Seen
    <3> QED BY <1>5, <1>7, <1>11, <2>1, <2>2, <3>1, <3>2 DEF Before
  <2> QED BY <2>3, <2>4
<1>19. OldRowsListed'
  <2> SUFFICES ASSUME at' = "complete" PROVE old \subseteq Seen'
    BY <1>3 DEF OldRowsListed
  <2>1. P = S
    BY <1>2, <1>5
  <2>2. old \subseteq visible
    BY <1>4 DEF WalkTypes
  <2> QED BY <1>1, <1>6, <1>9, <2>1, <2>2 DEF Behind
<1> QED BY <1>13, <1>15, <1>16, <1>17, <1>18, <1>19 DEF WalkInv

\* The inductive invariant of a walk.
THEOREM PaginationInvariant == PaginationSpec => [](RowsOK /\ WalkInv)
<1>1. RowsOK /\ WalkInv /\ [PaginationNext]_paginationVars => (RowsOK /\ WalkInv)'
  <2> SUFFICES ASSUME RowsOK, WalkInv, [PaginationNext]_paginationVars PROVE RowsOK' /\ WalkInv'
    OBVIOUS
  <2>1. CASE UNCHANGED paginationVars
    <3>1. RowsOK'
      BY <2>1 DEF RowsOK, paginationVars, rows
    <3> QED BY <2>1, <3>1, RowsGrow DEF paginationVars, rows
  <2> QED BY <2>1, RowStepsKeepInv, StartKeepsInv, ReadPageKeepsInv, RefusalKeepsInv
      DEF PaginationNext
<1> QED BY <1>1, PaginationInitInv, PTL DEF PaginationSpec

\* listJournalEntries, listOwned: a walk that ends has shown every row there was when it
\* began, each once and in order, for any table and any limit.
THEOREM WalksAreComplete == PaginationSpec => []WalkIsComplete
<1>1. WalkInv => WalkIsComplete
  BY DEF WalkInv, PagesAreFull, WalkIsComplete, NeverCutShort
<1> QED BY <1>1, PaginationInvariant, PTL

\* Type correctness of the table and of the walk.
THEOREM PaginationTypeCorrect == PaginationSpec => []PaginationTypeOK
<1>1. RowsOK /\ WalkInv => PaginationTypeOK
  BY DEF RowsOK, WalkInv, WalkTypes, PagesAreFull, PaginationTypeOK
<1> QED BY <1>1, PaginationInvariant, PTL

----------------------------------------------------------------------------
(***************************************************************************)
(* Reconciliation, for any accounts and postings.                          *)
(*                                                                         *)
(* The argument: a posting that commits moves the two cached balances by   *)
(* what its two entries add to the sums, so the difference of the two is   *)
(* always what was altered behind the ledger's back (DriftIsTrue).  Both   *)
(* sides of the comparison are read in one statement: a difference it sees *)
(* is drift, whatever commits before or after.                             *)
(***************************************************************************)

JournalEntry == [of : Postings, account : Books, amount : Int]

PostingState ==
  [at : {"absent", "inserted", "committed", "aborted"}, accounts : {<<>>} \cup (Books \X Books),
   amount : Nat]

IssueKinds == {"missing", "mismatched", "unexpected"}

RunState ==
  [at : {"idle", "counted", "reported"}, counted : 0..Cardinality(Books),
   compared : SUBSET Books, issues : UNION {[S -> IssueKinds] : S \in SUBSET Books},
   drifted : SUBSET Books, orphans : SUBSET Books]

LedgerTypes ==
  /\ opened \subseteq Books
  /\ cached \in [Books -> Int]
  /\ journal \subseteq JournalEntry /\ IsFiniteSet(journal)
  /\ posting \in [Postings -> PostingState]
  /\ drift \in [Books -> Int]
  /\ tampers \in 0..MaxTampers

\* What a transaction in progress holds on to, and when its rows are visible.
PostingsOK ==
  /\ \A t \in Postings : posting[t].at = "inserted" =>
       \E a, b \in opened : a # b /\ posting[t].accounts = <<a, b>>
  /\ \A e \in journal : posting[e.of].at = "committed"

\* The cached balance is the sum of the journal, and what was altered since.
DriftIsTrue == \A a \in Books : cached[a] - Computed(a) = drift[a]

UntouchedIsSound ==
  tampers = 0 =>
    /\ \A a \in Books : drift[a] = 0
    /\ Supported \subseteq opened
    /\ \A e \in journal : \E f \in journal : f.of = e.of /\ f.amount = -e.amount

LedgerInv == LedgerTypes /\ PostingsOK /\ DriftIsTrue /\ UntouchedIsSound

RunOK ==
  /\ run \in RunState
  /\ DOMAIN run.issues \subseteq run.compared
  /\ ReportsTheDrift
  /\ NoFalseAlarm

----------------------------------------------------------------------------

\* The balance that a set of entries gives account a.
SumIn(entries, a) ==
  SumFunctionOnSet([e \in entries |-> e.amount], {e \in entries : e.account = a})

\* What a journal computes for an account is an integer, 0 without entries.
LEMMA SumInType ==
  ASSUME NEW J, IsFiniteSet(J), \A e \in J : e.amount \in Int, NEW a
  PROVE  /\ SumIn(J, a) \in Int
         /\ (\A e \in J : e.account # a) => SumIn(J, a) = 0
<1>. DEFINE f == [e \in J |-> e.amount]
            on == {e \in J : e.account = a}
<1>1. IsFiniteSet(on) /\ \A e \in on : f[e] \in Int
  BY FS_Subset
<1>2. (\A e \in J : e.account # a) => on = {}
  OBVIOUS
<1>. HIDE DEF f, on
<1>3. SumFunctionOnSet(f, on) \in Int /\ (on = {} => SumFunctionOnSet(f, on) = 0)
  BY <1>1, SumType
<1>. QED BY <1>2, <1>3 DEF SumIn, f, on

\* An entry adds its amount to its own account's sum and to no other.
LEMMA SumInMore ==
  ASSUME NEW J, IsFiniteSet(J), NEW x, x \notin J, \A e \in J \cup {x} : e.amount \in Int, NEW a
  PROVE  SumIn(J \cup {x}, a) = SumIn(J, a) + (IF x.account = a THEN x.amount ELSE 0)
<1>. DEFINE f == [e \in J |-> e.amount]
            g == [e \in J \cup {x} |-> e.amount]
            on == {e \in J : e.account = a}
<1>1. /\ IsFiniteSet(on) /\ x \notin on
      /\ \A e \in on : f[e] \in Int /\ g[e] = f[e]
      /\ g[x] = x.amount /\ x.amount \in Int
  BY FS_Subset
<1>2. {e \in J \cup {x} : e.account = a} = IF x.account = a THEN on \cup {x} ELSE on
  OBVIOUS
<1>. HIDE DEF f, g, on
<1>3. SumFunctionOnSet(g, on) = SumFunctionOnSet(f, on) /\ SumFunctionOnSet(f, on) \in Int
  BY <1>1, SumEqual, SumType
<1>4. SumFunctionOnSet(g, on \cup {x}) = SumFunctionOnSet(g, on) + g[x]
  BY <1>1, SumAdd
<1>5. /\ SumIn(J, a) = SumFunctionOnSet(f, on)
      /\ SumIn(J \cup {x}, a) = SumFunctionOnSet(g, IF x.account = a THEN on \cup {x} ELSE on)
  BY <1>2 DEF SumIn, f, g, on
<1>. QED BY <1>1, <1>3, <1>4, <1>5

\* An entry that is gone takes its amount from its own account's sum.
LEMMA SumInLess ==
  ASSUME NEW J, IsFiniteSet(J), NEW x \in J, \A e \in J : e.amount \in Int, NEW a
  PROVE  SumIn(J \ {x}, a) = SumIn(J, a) - (IF x.account = a THEN x.amount ELSE 0)
<1>1. PICK K : K = J \ {x}
  OBVIOUS
<1>2. IsFiniteSet(K) /\ x \notin K /\ J = K \cup {x}
  BY <1>1, FS_RemoveElement
<1>3. SumIn(K \cup {x}, a) = SumIn(K, a) + (IF x.account = a THEN x.amount ELSE 0)
  BY <1>2, SumInMore
<1>4. SumIn(K, a) \in Int /\ x.amount \in Int
  BY <1>2, SumInType
<1>5. SumIn(J, a) = SumIn(K \cup {x}, a) /\ SumIn(J \ {x}, a) = SumIn(K, a)
  BY <1>1, <1>2
<1>. QED BY <1>3, <1>4, <1>5

\* What reconciliation computes is the sum over the journal.
LEMMA ComputedIsSumIn ==
  ASSUME LedgerTypes, NEW a
  PROVE  /\ Computed(a) = SumIn(journal, a)
         /\ Computed(a)' = SumIn(journal', a)
         /\ Computed(a) \in Int
         /\ IsFiniteSet(journal) /\ \A e \in journal : e.amount \in Int
<1>1. IsFiniteSet(journal) /\ \A e \in journal : e.amount \in Int
  BY DEF LedgerTypes, JournalEntry
<1>2. Computed(a) = SumIn(journal, a) /\ Computed(a)' = SumIn(journal', a)
  BY DEF Computed, EntriesOn, SumIn
<1>3. SumIn(journal, a) \in Int
  BY <1>1, SumInType
<1>. QED BY <1>1, <1>2, <1>3

\* An account without entries has the balance zero.
LEMMA NoEntriesNoBalance ==
  ASSUME LedgerTypes, NEW a \in Books, a \notin Supported PROVE Computed(a) = 0
<1>1. \A e \in journal : e.account # a
  BY DEF Supported
<1> QED BY <1>1, ComputedIsSumIn, SumInType

\* The ledger's invariant holds of an empty ledger.
LEMMA LedgerInitInv == ReconciliationInit => LedgerInv
<1> SUFFICES ASSUME ReconciliationInit PROVE LedgerInv
  OBVIOUS
<1>1. LedgerTypes
  BY ReconciliationAssumption, FS_EmptySet
  DEF ReconciliationInit, LedgerTypes, PostingState
<1>2. Supported = {}
  BY DEF ReconciliationInit, Supported
<1>3. DriftIsTrue
  BY <1>1, <1>2, NoEntriesNoBalance DEF ReconciliationInit, DriftIsTrue
<1>4. PostingsOK /\ UntouchedIsSound
  BY <1>2 DEF ReconciliationInit, PostingsOK, UntouchedIsSound
<1> QED BY <1>1, <1>3, <1>4 DEF LedgerInv

\* Opening an account leaves its balance at zero, without entries.
LEMMA OpenKeepsLedger == ASSUME LedgerInv, NEW a \in Books, Open(a) PROVE LedgerInv'
BY DEF LedgerInv, Open, LedgerTypes, PostingsOK, DriftIsTrue, UntouchedIsSound, Supported,
   Computed, EntriesOn

\* A posting that is not committed moves no balance anybody else sees.
LEMMA BeginKeepsLedger ==
  ASSUME LedgerInv, NEW t \in Postings, BeginPosting(t) PROVE LedgerInv'
<1>1. PICK a \in opened, b \in opened, n \in PostedAmounts :
        /\ a # b
        /\ posting' = [posting EXCEPT ![t] = [at |-> "inserted", accounts |-> <<a, b>>, amount |-> n]]
  BY DEF BeginPosting, InsertEntries
<1>2. a \in Books /\ b \in Books /\ UNCHANGED <<opened, cached, journal, run, drift, tampers>>
  BY DEF LedgerInv, LedgerTypes, BeginPosting, InsertEntries
<1>3. [at |-> "inserted", accounts |-> <<a, b>>, amount |-> n] \in PostingState
  BY <1>2, ReconciliationAssumption DEF PostingState
<1>4. LedgerTypes'
  BY <1>1, <1>2, <1>3 DEF LedgerInv, LedgerTypes
<1>5. PostingsOK'
  BY <1>1, <1>2 DEF LedgerInv, LedgerTypes, PostingsOK, BeginPosting
<1>6. DriftIsTrue' /\ UntouchedIsSound'
  BY <1>2 DEF LedgerInv, DriftIsTrue, UntouchedIsSound, Supported, Computed, EntriesOn
<1> QED BY <1>4, <1>5, <1>6 DEF LedgerInv

\* A posting that is rolled back leaves nothing behind.
LEMMA AbortKeepsLedger ==
  ASSUME LedgerInv, NEW t \in Postings, AbortPosting(t) PROVE LedgerInv'
<1>1. LedgerTypes'
  BY DEF LedgerInv, LedgerTypes, AbortPosting, PostingState
<1>2. PostingsOK'
  BY DEF LedgerInv, LedgerTypes, PostingsOK, AbortPosting, PostingState, JournalEntry
<1>3. DriftIsTrue' /\ UntouchedIsSound'
  BY DEF LedgerInv, DriftIsTrue, UntouchedIsSound, Supported, Computed, EntriesOn, AbortPosting
<1> QED BY <1>1, <1>2, <1>3 DEF LedgerInv

\* The two entries of a posting move what its two balances move.
LEMMA CommitKeepsLedger ==
  ASSUME LedgerInv, NEW t \in Postings, CommitPosting(t) PROVE LedgerInv'
<1>1. PICK a \in opened, b \in opened : a # b /\ posting[t].accounts = <<a, b>>
  BY DEF LedgerInv, PostingsOK, CommitPosting
<1>2. a \in Books /\ b \in Books /\ UNCHANGED <<opened, run, drift, tampers>>
  BY DEF LedgerInv, LedgerTypes, CommitPosting
<1>n. PICK n \in Int : n = posting[t].amount
  BY DEF LedgerInv, LedgerTypes, PostingState
<1>3. PICK d, c : /\ d = [of |-> t, account |-> a, amount |-> n]
                  /\ c = [of |-> t, account |-> b, amount |-> -n]
  OBVIOUS
<1>4. d \in JournalEntry /\ c \in JournalEntry
  BY <1>2, <1>3 DEF JournalEntry
<1>5. journal' = (journal \cup {d}) \cup {c}
  <2>1. journal' = journal \cup Entries(t, a, b, n)
    BY <1>1, <1>n DEF CommitPosting
  <2> QED BY <1>3, <2>1 DEF Entries
<1>6. cached' = [cached EXCEPT ![a] = @ + n, ![b] = @ - n]
  BY <1>1, <1>n DEF CommitPosting
<1>7. posting' = [posting EXCEPT ![t].at = "committed"] /\ posting[t].at = "inserted"
  BY DEF CommitPosting
<1>8. d \notin journal /\ c \notin journal /\ c # d
  BY <1>1, <1>3, <1>7 DEF LedgerInv, PostingsOK
<1>9. LedgerTypes'
  <2>1. IsFiniteSet(journal')
    BY <1>5, FS_AddElement DEF LedgerInv, LedgerTypes
  <2>2. journal' \subseteq JournalEntry
    BY <1>4, <1>5 DEF LedgerInv, LedgerTypes
  <2>3. posting' \in [Postings -> PostingState]
    BY <1>7 DEF LedgerInv, LedgerTypes, PostingState
  <2>4. cached' \in [Books -> Int]
    BY <1>2, <1>6 DEF LedgerInv, LedgerTypes
  <2> QED BY <1>2, <2>1, <2>2, <2>3, <2>4 DEF LedgerInv, LedgerTypes
<1>10. PostingsOK'
  <2>1. posting \in [Postings -> PostingState] /\ \A e \in journal : e.of \in Postings
    BY DEF LedgerInv, LedgerTypes, JournalEntry
  <2>2. \A u \in Postings : u # t => posting'[u] = posting[u]
    BY <1>7, <2>1
  <2>3. posting'[t].at = "committed"
    BY <1>7, <2>1 DEF PostingState
  <2> QED BY <1>2, <1>3, <1>5, <2>1, <2>2, <2>3 DEF LedgerInv, PostingsOK
<1>11. DriftIsTrue'
  <2> SUFFICES ASSUME NEW x \in Books PROVE cached'[x] - Computed(x)' = drift[x]
    BY <1>2 DEF DriftIsTrue
  <2>1. LedgerTypes
    BY DEF LedgerInv
  <2>2. SumIn(journal \cup {d}, x) = SumIn(journal, x) + (IF a = x THEN n ELSE 0)
    <3>1. d.account = a /\ d.amount = n
      BY <1>3
    <3>2. \A e \in journal \cup {d} : e.amount \in Int
      BY <2>1, <3>1, ComputedIsSumIn
    <3>3. IsFiniteSet(journal) /\ d \notin journal
      BY <1>8, <2>1, ComputedIsSumIn
    <3>4. SumIn(journal \cup {d}, x) = SumIn(journal, x) + (IF d.account = x THEN d.amount ELSE 0)
      BY <3>2, <3>3, SumInMore
    <3> QED BY <3>1, <3>4
  <2>3. SumIn(journal', x) = SumIn(journal \cup {d}, x) + (IF b = x THEN -n ELSE 0)
    <3>1. c.account = b /\ c.amount = -n /\ d.amount = n
      BY <1>3
    <3>2. \A e \in (journal \cup {d}) \cup {c} : e.amount \in Int
      BY <2>1, <3>1, ComputedIsSumIn
    <3>3. IsFiniteSet(journal \cup {d}) /\ c \notin journal \cup {d}
      BY <1>8, <2>1, ComputedIsSumIn, FS_AddElement
    <3>4. SumIn((journal \cup {d}) \cup {c}, x)
            = SumIn(journal \cup {d}, x) + (IF c.account = x THEN c.amount ELSE 0)
      BY <3>2, <3>3, SumInMore
    <3> QED BY <1>5, <3>1, <3>4
  <2>4. cached'[x] = cached[x] + (IF a = x THEN n ELSE 0) - (IF b = x THEN n ELSE 0)
    BY <1>1, <1>2, <1>6, <2>1 DEF LedgerTypes
  <2>5. cached[x] - Computed(x) = drift[x] /\ cached[x] \in Int /\ drift[x] \in Int
    BY DEF LedgerInv, DriftIsTrue, LedgerTypes
  <2>6. Computed(x) = SumIn(journal, x) /\ Computed(x)' = SumIn(journal', x) /\ Computed(x) \in Int
    BY <2>1, ComputedIsSumIn
  <2> QED BY <1>1, <2>2, <2>3, <2>4, <2>5, <2>6
<1>12. UntouchedIsSound'
  <2>1. Supported' = Supported \cup {a, b}
    BY <1>3, <1>5 DEF Supported
  <2> SUFFICES ASSUME tampers' = 0, NEW e \in journal'
               PROVE  \E f \in journal' : f.of = e.of /\ f.amount = -e.amount
    BY <1>2, <2>1 DEF LedgerInv, UntouchedIsSound
  <2>2. CASE e \in journal
    BY <1>2, <1>5, <2>2 DEF LedgerInv, UntouchedIsSound
  <2>3. CASE e \in {c, d}
    BY <1>3, <1>5, <2>3
  <2> QED BY <1>5, <2>2, <2>3
<1> QED BY <1>9, <1>10, <1>11, <1>12 DEF LedgerInv

\* A balance altered behind the ledger's back drifts by as much.
LEMMA AlterKeepsLedger ==
  ASSUME LedgerInv, NEW a \in Books, AlterBalance(a) PROVE LedgerInv'
<1>1. PICK d \in Int : /\ cached' = [cached EXCEPT ![a] = @ + d]
                       /\ drift' = [drift EXCEPT ![a] = @ + d]
  <2>1. \A d \in PostedAmounts \cup {-n : n \in PostedAmounts} : d \in Int
    BY ReconciliationAssumption
  <2> QED BY <2>1 DEF AlterBalance
<1>2. tampers < MaxTampers /\ tampers' = tampers + 1 /\ UNCHANGED <<opened, journal, posting, run>>
  BY DEF AlterBalance
<1>3. LedgerTypes'
  BY <1>1, <1>2, ReconciliationAssumption DEF LedgerInv, LedgerTypes
<1>4. PostingsOK'
  BY <1>2 DEF LedgerInv, PostingsOK
<1>5. DriftIsTrue'
  <2> SUFFICES ASSUME NEW x \in Books PROVE cached'[x] - Computed(x)' = drift'[x]
    BY DEF DriftIsTrue
  <2>1. Computed(x)' = Computed(x) /\ Computed(x) \in Int
    <3>1. LedgerTypes
      BY DEF LedgerInv
    <3>2. Computed(x)' = Computed(x)
      BY <1>2 DEF Computed, EntriesOn
    <3> QED BY <3>1, <3>2, ComputedIsSumIn
  <2>2. cached[x] - Computed(x) = drift[x]
    BY DEF LedgerInv, DriftIsTrue
  <2>3. cached \in [Books -> Int] /\ drift \in [Books -> Int]
    BY DEF LedgerInv, LedgerTypes
  <2> QED BY <1>1, <2>1, <2>2, <2>3
<1>6. UntouchedIsSound'
  BY <1>2 DEF LedgerInv, LedgerTypes, UntouchedIsSound
<1> QED BY <1>3, <1>4, <1>5, <1>6 DEF LedgerInv

\* An entry that is lost makes its account drift by its amount.
LEMMA LoseEntryKeepsLedger == ASSUME LedgerInv, LoseEntry PROVE LedgerInv'
<1>1. PICK e \in journal : /\ journal' = journal \ {e}
                           /\ drift' = [drift EXCEPT ![e.account] = @ + e.amount]
  BY DEF LoseEntry
<1>2. tampers < MaxTampers /\ tampers' = tampers + 1 /\ UNCHANGED <<opened, cached, posting, run>>
  BY DEF LoseEntry
<1>3. e.account \in Books /\ e.amount \in Int
  BY DEF LedgerInv, LedgerTypes, JournalEntry
<1>4. LedgerTypes'
  BY <1>1, <1>2, <1>3, ReconciliationAssumption, FS_RemoveElement DEF LedgerInv, LedgerTypes
<1>5. PostingsOK'
  BY <1>1, <1>2 DEF LedgerInv, PostingsOK
<1>6. DriftIsTrue'
  <2> SUFFICES ASSUME NEW x \in Books PROVE cached'[x] - Computed(x)' = drift'[x]
    BY DEF DriftIsTrue
  <2>1. LedgerTypes
    BY DEF LedgerInv
  <2>5. Computed(x)' = Computed(x) - (IF e.account = x THEN e.amount ELSE 0) /\ Computed(x) \in Int
    <3>1. SumIn(journal \ {e}, x) = SumIn(journal, x) - (IF e.account = x THEN e.amount ELSE 0)
      BY <2>1, ComputedIsSumIn, SumInLess
    <3> QED BY <1>1, <2>1, <3>1, ComputedIsSumIn
  <2>6. cached[x] - Computed(x) = drift[x]
    BY DEF LedgerInv, DriftIsTrue
  <2>7. cached \in [Books -> Int] /\ drift \in [Books -> Int]
    BY DEF LedgerInv, LedgerTypes
  <2>8. drift'[x] = drift[x] + (IF e.account = x THEN e.amount ELSE 0)
    BY <1>1, <1>3, <2>7
  <2> QED BY <1>2, <1>3, <2>5, <2>6, <2>7, <2>8
<1>7. UntouchedIsSound'
  BY <1>2 DEF LedgerInv, LedgerTypes, UntouchedIsSound
<1> QED BY <1>4, <1>5, <1>6, <1>7 DEF LedgerInv

\* A cached balance that is lost makes its account drift by what it held.
LEMMA LoseAccountKeepsLedger ==
  ASSUME LedgerInv, NEW a \in Books, LoseAccount(a) PROVE LedgerInv'
<1>1. LedgerTypes'
  BY ReconciliationAssumption DEF LedgerInv, LedgerTypes, LoseAccount
<1>2. PostingsOK'
  BY DEF LedgerInv, PostingsOK, LoseAccount
<1>3. DriftIsTrue'
  BY DEF LedgerInv, DriftIsTrue, Computed, EntriesOn, LoseAccount
<1>4. UntouchedIsSound'
  BY DEF LedgerInv, LedgerTypes, UntouchedIsSound, LoseAccount
<1> QED BY <1>1, <1>2, <1>3, <1>4 DEF LedgerInv

\* No step breaks the invariant of the ledger.
LEMMA LedgerNextInv == LedgerInv /\ [ReconciliationNext]_reconciliationVars => LedgerInv'
<1> SUFFICES ASSUME LedgerInv, [ReconciliationNext]_reconciliationVars PROVE LedgerInv'
  OBVIOUS
<1>1. CASE \E a \in Books : Open(a) \/ AlterBalance(a) \/ LoseAccount(a)
  BY <1>1, OpenKeepsLedger, AlterKeepsLedger, LoseAccountKeepsLedger
<1>2. CASE \E t \in Postings : BeginPosting(t) \/ CommitPosting(t) \/ AbortPosting(t)
  BY <1>2, BeginKeepsLedger, CommitKeepsLedger, AbortKeepsLedger
<1>3. CASE LoseEntry
  BY <1>3, LoseEntryKeepsLedger
<1>4. CASE Count \/ Compare \/ UNCHANGED reconciliationVars
  <2>1. UNCHANGED <<opened, cached, journal, posting, drift, tampers>>
    BY <1>4 DEF Count, Compare, reconciliationVars, ledger
  <2>2. LedgerTypes' /\ PostingsOK'
    BY <2>1 DEF LedgerInv, LedgerTypes, PostingsOK
  <2>3. DriftIsTrue' /\ UntouchedIsSound'
    BY <2>1 DEF LedgerInv, DriftIsTrue, UntouchedIsSound, Supported, Computed, EntriesOn
  <2> QED BY <2>2, <2>3 DEF LedgerInv
<1> QED BY <1>1, <1>2, <1>3, <1>4 DEF ReconciliationNext

\* The cached balances are the sums of the journal and of what was altered.
THEOREM LedgerInvariant == ReconciliationSpec => []LedgerInv
BY LedgerInitInv, LedgerNextInv, PTL DEF ReconciliationSpec

----------------------------------------------------------------------------

\* No run has compared anything yet.
LEMMA RunInit == ReconciliationInit => RunOK
<1>1. NoIssues \in [{} -> IssueKinds] /\ DOMAIN NoIssues = {}
  BY DEF NoIssues
<1>2. 0 \in 0..Cardinality(Books)
  BY ReconciliationAssumption, FS_CardinalityType
<1>3. NotRun \in RunState
  BY <1>1, <1>2 DEF NotRun, RunState
<1> QED BY <1>1, <1>3 DEF ReconciliationInit, RunOK, NotRun, ReportsTheDrift, NoFalseAlarm

\* The report names an account exactly if it was altered.
LEMMA ClassifyFindsTheDrift ==
  ASSUME LedgerInv, NEW a \in Joined
  PROVE  Classify(a) # "none" <=> (a \notin opened \/ drift[a] # 0)
<1>1. a \in Books
  BY DEF Joined, Supported, LedgerInv, LedgerTypes, JournalEntry
<1>2. cached[a] - Computed(a) = drift[a] /\ cached[a] \in Int /\ drift[a] \in Int
  BY <1>1 DEF LedgerInv, LedgerTypes, DriftIsTrue
<1>3. Computed(a) \in Int
  <2>1. LedgerTypes
    BY DEF LedgerInv
  <2> QED BY <2>1, ComputedIsSumIn
<1>4. a \notin Supported => Computed(a) = 0
  BY <1>1, NoEntriesNoBalance DEF LedgerInv
<1> QED BY <1>2, <1>3, <1>4 DEF Classify

\* The comparison: its two sides are of one moment, so what differs drifted.
LEMMA CompareKeepsRun == ASSUME LedgerInv, RunOK, Compare PROVE RunOK'
<1>1. PICK R : R = {a \in Joined : Classify(a) # "none"}
  OBVIOUS
<1>2. Joined \subseteq Books /\ Supported \subseteq Books /\ opened \subseteq Books
  BY DEF Joined, Supported, LedgerInv, LedgerTypes, JournalEntry
<1>3. PICK I : I = [a \in R |-> Classify(a)]
  OBVIOUS
<1>4. I \in [R -> IssueKinds] /\ DOMAIN I = R
  BY <1>1, <1>3 DEF Classify, IssueKinds
<1>5. PICK D, O : D = {a \in opened : drift[a] # 0} /\ O = Supported \ opened
  OBVIOUS
<1>6. run' = [run EXCEPT !.at = "reported", !.compared = Joined, !.issues = I, !.drifted = D,
                         !.orphans = O]
  BY <1>1, <1>3, <1>5 DEF Compare
<1>7. I \in UNION {[S -> IssueKinds] : S \in SUBSET Books}
  BY <1>1, <1>2, <1>4
<1>8. run' \in RunState
  BY <1>2, <1>5, <1>6, <1>7 DEF RunOK, RunState
<1>9. /\ run'.at = "reported" /\ run'.compared = Joined /\ run'.issues = I
      /\ run'.drifted = D /\ run'.orphans = O
  BY <1>6 DEF RunOK, RunState
<1>10. R = D \cup O
  BY <1>1, <1>5, ClassifyFindsTheDrift DEF Joined
<1>11. ReportsTheDrift'
  BY <1>4, <1>9, <1>10 DEF ReportsTheDrift
<1>12. NoFalseAlarm'
  <2> SUFFICES ASSUME tampers = 0 PROVE I = NoIssues
    BY <1>9 DEF NoFalseAlarm, Compare
  <2>1. R = {}
    BY <1>2, <1>5, <1>10 DEF LedgerInv, UntouchedIsSound
  <2> QED BY <1>3, <2>1 DEF NoIssues
<1> QED BY <1>1, <1>4, <1>8, <1>9, <1>11, <1>12 DEF RunOK

\* No step makes a report untrue.
LEMMA RunNext ==
  LedgerInv /\ RunOK /\ [ReconciliationNext]_reconciliationVars => RunOK'
<1> SUFFICES ASSUME LedgerInv, RunOK, [ReconciliationNext]_reconciliationVars PROVE RunOK'
  OBVIOUS
<1>1. CASE Compare
  BY <1>1, CompareKeepsRun
<1>2. CASE Count
  <2>1. Cardinality(opened) \in 0..Cardinality(Books)
    <3>1. IsFiniteSet(Books) /\ opened \subseteq Books
      BY ReconciliationAssumption DEF LedgerInv, LedgerTypes
    <3> QED BY <3>1, FS_Subset, FS_CardinalityType
  <2>2. NoIssues \in [{} -> IssueKinds] /\ DOMAIN NoIssues = {}
    BY DEF NoIssues
  <2>3. run' = [at |-> "counted", counted |-> Cardinality(opened), compared |-> {},
                issues |-> NoIssues, drifted |-> {}, orphans |-> {}]
    BY <1>2 DEF Count, NotRun
  <2>4. run' \in RunState
    BY <2>1, <2>2, <2>3 DEF RunState
  <2> QED BY <2>2, <2>3, <2>4 DEF RunOK, ReportsTheDrift, NoFalseAlarm
<1>3. ASSUME run' = run, tampers' = 0 => tampers = 0 PROVE RunOK'
  BY <1>3 DEF RunOK, ReportsTheDrift, NoFalseAlarm
<1>4. CASE ~Compare /\ ~Count
  <2>1. run' = run
    BY <1>4 DEF ReconciliationNext, reconciliationVars, Open, AlterBalance, LoseAccount,
       BeginPosting, CommitPosting, AbortPosting, LoseEntry
  <2>2. tampers' = tampers \/ tampers' = tampers + 1
    BY <1>4 DEF ReconciliationNext, reconciliationVars, Open, AlterBalance, LoseAccount,
       BeginPosting, CommitPosting, AbortPosting, LoseEntry
  <2>3. tampers \in Nat
    BY ReconciliationAssumption DEF LedgerInv, LedgerTypes
  <2> QED BY <1>3, <2>1, <2>2, <2>3
<1> QED BY <1>1, <1>2, <1>4

\* reconcile: while postings commit between its two statements, the report names
\* exactly the accounts whose balance was altered, and none if nothing was.
THEOREM ReportsAreTrue == ReconciliationSpec => []ReportIsTrue
<1>1. ReconciliationSpec => []RunOK
  BY LedgerInvariant, RunInit, RunNext, PTL DEF ReconciliationSpec
<1>2. RunOK => ReportIsTrue
  BY DEF RunOK, ReportIsTrue
<1> QED BY <1>1, <1>2, PTL

\* Type correctness of the ledger and of the run.
THEOREM ReconciliationTypeCorrect == ReconciliationSpec => []ReconciliationTypeOK
<1>1. ReconciliationSpec => []RunOK
  BY LedgerInvariant, RunInit, RunNext, PTL DEF ReconciliationSpec
<1>2. LedgerInv /\ RunOK => ReconciliationTypeOK
  <2> SUFFICES ASSUME LedgerInv, RunOK PROVE ReconciliationTypeOK
    OBVIOUS
  <2>1. \A e \in journal : e.account \in Books /\ e.of \in Postings
    BY DEF LedgerInv, LedgerTypes, JournalEntry
  <2>2. run.counted \in 0..Cardinality(Books)
    BY DEF RunOK, RunState
  <2>3. \A a \in DOMAIN run.issues : run.issues[a] \in IssueKinds
    <3>1. PICK S \in SUBSET Books : run.issues \in [S -> IssueKinds]
      BY DEF RunOK, RunState
    <3> QED BY <3>1
  <2> QED BY <2>1, <2>2, <2>3
      DEF ReconciliationTypeOK, LedgerInv, LedgerTypes, UntouchedIsSound, RunOK, IssueKinds
<1> QED BY <1>1, <1>2, LedgerInvariant, PTL
=============================================================================
