# PulseLedger in TLA+

PulseLedger is a payments ledger: an HTTP API (Fastify, TypeScript) over PostgreSQL that moves
money between accounts with double entries, remembers the result of every request under an
idempotency key, and hands each committed payment to an audit consumer through a transactional
outbox. This directory specifies that system, checks the specifications with TLC on small
instances and proves the central theorems with TLAPS for every instance.

Paths below are relative to the repository. `PROJECT.json` names, for every definition, the lines
it models.

## 1. Inventory

| Component | State it keeps | Operations | What makes it correct |
|---|---|---|---|
| **Transfers** (`src/modules/transfers`) | `transfers` rows; per request: attempt counter, open transaction, locked rows | `POST /v1/transfers` → `TransferService.create`: up to `maxAttempts` SERIALIZABLE attempts of lock, check, post, commit, with backoff | no overdraft, checks still true at commit, at most one payment per request, answer agrees with the books, no deadlock, every request answered |
| **Ledger, funding** (`src/modules/ledger`) | `ledger_transactions`, `journal_entries`, `accounts.balance_minor` | `fundAccount` (unlocked look, then one READ COMMITTED transaction), `listJournalEntries` | double entry conserves money; only active accounts move; pages neither skip nor repeat rows |
| **Ledger schema** (`migrations/001-004`) | constraints, `post_ledger_transaction`, append-only and balance triggers | called by both payments | the database refuses what the service should not have asked for |
| **Idempotency** (`src/modules/idempotency`, `migrations/005`) | `idempotency_records`: absent / in_progress / completed, fingerprint, stored response, age | claim, reclaim, complete (in the payment's transaction), release, settle, purge | one result per key, decided with the money; takeover by one retry |
| **Outbox** (`src/modules/outbox`, `migrations/006`) | `outbox_events`: status, attempts, next_attempt_at; per worker: claimed batch | insert, claimBatch, markProcessed, markFailed, replay, purge; poll loop | nothing lost, disjoint claims, every event delivered or parked |
| **Audit consumer** (`src/modules/audit`, `migrations/008`) | `consumer_inbox`, `audit_effects` | `consume` | one effect per event under at-least-once delivery |
| **Outbox operator commands** (`outbox-cli.ts`) | none of their own | list, show, replay one/all parked | one replay per parking; the exit code says what happened |
| **Retention** (`retention-cli.ts`) | none of its own | purge processed events and completed keys in batches, dry run | what is due goes, all of it where one sweep works alone, and is counted once |
| **Authentication** (`src/modules/auth`, `api-key-auth.ts`, `migrations/009`) | principals, API keys, external identities | sign-in, key issue and revoke, disable | one principal per identity; revocation takes effect |
| **Accounts** (`src/modules/accounts`) | `accounts` rows | create, list (a page at a time), read | an account is seen by its owner only; pages neither skip nor repeat rows |
| **Reconciliation** (`src/modules/reconciliation`) | none | counts accounts, then compares balances with the journal in one statement | no false alarm while payments commit, no drift without its issue |
| **Worker lifecycle and shutdown** (`outbox-worker.ts` start/stop, `server.ts`) | running, timer, inFlight; signal handlers; pool | start, stop, schedulePoll, shutdown | one poll chain; the pool outlives the last poll |
| **Transaction port, pool** (`ports/transaction.ts`, `database/pool.ts`) | checked-out connections | withTransaction | a connection goes back clean or not at all |
| **Migration runner** (`database/migrate.ts`) | `schema_migrations` | apply pending files in order | each file once, in order, whole |
| **Application shell** (`app.ts`, `config.ts`, `errors.ts`, metrics, health) | counters | wiring, error mapping | `replayableFailure` decides what a key remembers |
| **Web client: payment forms** (`pages/AccountDetail.tsx`, `pages/Admin.tsx`, `lib/api.ts`) | fields, the intent's idempotency key, error, receipt | edit, submit, retry | a retry reuses its key, a new intent does not |
| **Web client: credentials** (`App.tsx`, `lib/session.ts`, `lib/firebase.ts`, sign-in pages) | two keys in sessionStorage, the Firebase user, its token | check and store a key, sign in and out, verify an address, drop a rejected key | no page without a credential; a key is proven before it is stored |
| **Web client: loading** (`lib/use-async.ts`, `Layout.tsx`, the history card) | data, error, loading; requests in flight | load, reload, further pages | late answers replace nothing newer; loading ends |
| **Web client: admin console** (`pages/Admin.tsx`) | form, cards with issued keys, revocation panel | onboard, issue another key, revoke | a secret that is shown once is shown, or its loss is explained |
| **Landing page** (`pages/Landing.tsx`, `components/landing`) | an animation | none | - |

**Interactions.** A payment route authenticates the caller, then claims the idempotency key, runs
the payment, and answers. Inside the payment's transaction the ledger posting, the transfers row,
the outbox event and the completion of the key are written together; every other coupling is
through a table. The worker polls the outbox table and calls the audit consumer, which opens its
own transaction. Operators replay parked events; a sweep deletes old processed events and
completed keys. Any number of API processes and workers run side by side and share only PostgreSQL.
The web client talks to the API only; each of its requests picks a credential when it is made and
may be answered after the page that sent it is gone.

**What is hard.** Statements of concurrent transactions interleave; a serializable transaction
reads an old snapshot but locks current rows; COMMIT may take effect and its acknowledgement be
lost; requests outlive the 30-second claim and workers outlive their lease; `release`, `complete`
and `markFailed` name a row by key and status, not by owner; the sweep deletes rows others are
about to read; retry budgets are counted in copies that can be out of date; a signal may arrive
while the server starts, a runner die between a migration and its record, a ROLLBACK fail; in the
browser, answers come back to forms and sessions that have moved on. `PROJECT.json` lists these at their lines under `hazards`.

## 2. Modules

| Module | Role |
|---|---|
| `ChartOfAccounts` | constants of the ledger database: accounts, treasuries, currencies, owners, opening balances, width of a balance; `Moved`, `RowAllowed` |
| `Ledger` | abstract: payments happen at most once, atomically, between active accounts, out of money that is there |
| `Transfers` | transfers and fundings as interleaved statements with row locks, snapshots, 40001, lost acknowledgements, crashes; refines `Ledger` |
| `TransfersProofs` | the theorems about `Transfers` |
| `OneResult` | abstract: a key has at most one result, decided in one step with the money |
| `Idempotency` | claim, takeover, completion, settlement, retention; refines `OneResult` |
| `IdempotencyProofs` | the theorems about `Idempotency` |
| `Delivery` | abstract: an event is owed, has at most one effect, is done only after it, may be parked |
| `Outbox` | rows, workers, leases, consumer, replay, sweep; refines `Delivery` |
| `OutboxProofs` | the theorems about `Outbox` |
| `PaymentForm` | a form that pays, against a server that keeps `OneResult` |
| `WebSession` | who one browser tab says it is |
| `Loader` | `useAsync` and the views over it |
| `AccountHistory` | the history card: first page, further pages, reloads |
| `Onboarding` | the admin console beside the tables it fills |
| `PollChain`, `Shutdown` | start, stop and the poll chain of the worker; `server.ts` around it, from listen to exit |
| `OnePrincipal` | abstract: an identity gets one principal, for ever |
| `Authentication` | keys, tokens, first sign-ins, the customer guard, what a request may see; refines `OnePrincipal` |
| `Pagination` | a walk over the pages of a list while rows are committed |
| `Reconciliation` | the report beside postings, and beside drift |
| `Retention` | both sweeps in batches, two at once, and a dry run |
| `OutboxOperator` | the operator commands beside workers, a sweep and each other |
| `OncePerFile` | abstract: files are applied in order, once each |
| `Migrations` | runners that race and crash; refines `OncePerFile` |
| `ConnectionPool` | `withTransaction` over a pool, every statement failing |
| `JournalSchema` | the tables, triggers and deferred checks of the ledger against any SQL |
| `Server` | the parts of the server beside payments, keys and outbox: `Authentication`, `Pagination`, `Reconciliation`, `Retention`, `OutboxOperator`, `JournalSchema` |
| `Processes` | the worker and its server, the migration runners, the pool: `PollChain`, `Shutdown`, `Migrations`, `ConnectionPool` |
| `WebClient` | the web client: `PaymentForm` (both forms), `WebSession`, `Loader`, `AccountHistory`, `Onboarding` |
| `SumTheorems` | sums over finite sets: what one more, one less or a moved summand does to them |
| `WebClientProofs` | the theorems about the parts of `WebClient`, and about the whole |
| `ProcessProofs` | the theorems about the parts of `Processes`, and about the whole |
| `JournalProofs` | the theorems about `JournalSchema`, `Pagination` and `Reconciliation` |
| `ServerProofs` | the theorems about `Authentication`, `Retention` and `OutboxOperator`, and about the whole of `Server` |
| `MCTransfers`, `MCIdempotency`, `MCOutbox`, `MCServer`, `MCWebClient` | instances for TLC |
| `MCProgress` | an instance of `Processes` for TLC, with `Loader` and `AccountHistory` beside it |

Definitions whose comment says *Mutant* are deliberate bugs next to the definition they spoil;
nothing in the specifications uses them. Each property is checked to be violated when its mutant
takes the place of the definition, so that no property holds for an empty reason.

### Transfers

One request is one HTTP request and also the uuid of the payment it would make. `phase` is the
point its handler has reached:

| phase | code |
|---|---|
| `new` → `backoff` / `find` | `Receive`: `Money.fromMinor`, the self-transfer check |
| `backoff` → `locking` | `TakeSnapshot`: `runSerializable`'s BEGIN and the first statement |
| `locking` | `LockRow`: `lockAccounts`, one row at a time, `ORDER BY id` |
| → `checked` or refused | `Check`: the checks of `create` in their order |
| → `written` | `PostTransfer`, `PostFunding`: `post_ledger_transaction`, transfers row, outbox row |
| → `done` | `Created`, `CommitUnacknowledged`, refusals, `ConnectionLost` |
| → `backoff` or `done` | `SerializationFailure`: 40001 / 40P01, at most `MaxAttempts` |
| `find` → `locking` | `FindAccount`: `fundAccount`'s unlocked reads |

A transaction's writes appear in its `Commit`. PostgreSQL is modelled by the rules the code relies
on: row locks last to the end of the transaction; a SERIALIZABLE transaction cannot lock a row
that changed after its snapshot (`stale`); it may be aborted at any statement; under READ COMMITTED
a waiting statement sees the new row. `seenFunds` and `seenActive` are what the snapshot showed,
so "the balance I checked" and "the balance that is there" are different things in the model and
`ChecksStillHold` is a statement about both. What SSI would additionally abort is allowed at any
time and never relied on.

### Idempotency

`row`, `rowBody`, `rowResult`, `rowStale` are a record of `idempotency_records`. Time is one bit:
`rowStale` says that `created_at` is more than 30 seconds ago, `older[r]` that it lies before the
threshold request `r` computed when it decided to reclaim. `charged` and `paid` are history: which
payments were committed under the key since it was last free, and ever. The transfer's attempt
sees the row in a snapshot (`sees`, `moved`); a funding sees the current row. The outcomes of the
payment itself (commit, commit without acknowledgement, lost claim, 40001, a 4xx, a 5xx) are all
possible; `Transfers` shows which happen when.

### Outbox

`due` abstracts `next_attempt_at` to *now*, *later* and *never* (`'infinity'`): a lease and a
backoff share the column in the code, and one action lets either run out. `claimed[w][e]` is the
copy of `attempts` that the claim returned; `Exhausted` reads that copy, as the code does.
`leased` is the ghost of a running lease. `Elapse` ends a backoff or the lease of a worker that is
gone, `Overrun` the lease of a worker still at work.

### Web client

*PaymentForm.* `form`, `intentKey`, `error`, `receipt` are the component's state and ref;
`awaiting` is the attempt whose promise is pending (`busy`). `stage` and `reply` follow each POST to
the server and back; the server is `OneResult` (which `Idempotency` implements), plus the answers
that leave nothing stored (`Unstored`): 401 and 403, sent before the key is looked at, and a refusal
whose settlement failed. `Edit`, `Submit`, `Succeed`, `Fail`, `Lose`, `Remount` are the handlers;
`SendMoney` and `Fund` differ in three lines, whose actions take the page as a parameter. `intent` is
history: it advances with an edit, a receipt or a new form, so "the user meant one payment" is
something a property can say.

*WebSession.* `customerKey` and `adminKey` are the slots of sessionStorage, `user` is
`auth.currentUser`, `at` the route; `requests` are calls in flight with the credential they were
sent with, each decided by the server (`Verdicts`: a key by whether it is valid, a token that is
verified accepted or, expired or of a disabled principal, a 401, no credential a 401) and then
received or failed. `Received` is the answer's way through `request` (a 401 drops the slot the
request had used, whatever it holds by then; that of a token or a candidate drops nothing) and back
to the page that may be gone; `FollowUp` is the next request of a function that makes several, with
the credential stored by then. `confirmed`, `profile`, `claim` are the three places that know of a verified
address. Guards re-evaluate with every change (`Arrive`).

*Loader.* `shown[v]` is what a view shows, `loads[v]` its requests, of which `current` is the one
whose effect was not cleaned up. *AccountHistory* is the card with its own effect and with
`loadMore`, which nobody cancels. *Onboarding* has the tables of customers and keys beside the
page: `entry` the form between its two requests, `requested` the requests for further keys,
`issued` the cards, `panel` the revocation; every request may fail before or after it took effect.
`LeavePage` unmounts the page (a link, "Open customer app as", sign-out, a 401 elsewhere, a reload)
with requests under way: those go on as `adrift` and `revoking`, nobody reads their answers, and
`abandoned` counts them.

### Server

*PollChain, Shutdown.* `running`, `timer`, `inFlight` are the worker's fields; an action is what
runs between two awaits. `phase` and `left` follow a poll through its claim and its batch, `stops`
the callers of `stop`. `Shutdown` adds `listen`, each signal's `shutdown` (`step`), requests being
served, the app, the pool (`database`) and the exit. `early` is history: a signal came while
`app.listen` was pending. `Turn` says that a resumed await runs before the next timer or I/O event.

*Authentication.* A request goes `PresentKey`/`PresentToken`, `Authenticate`/`FindPrincipal`, the
three statements of `createPrincipalForIdentity` with the lost race and the lost connection,
`Resolve`, and then what it does (`OpenAccount`, `ReadAccounts`). `barred` is history: the
credential was revoked or its principal disabled when the request arrived. Administration
(issue, revoke, disable) runs beside it.

*Pagination.* A row has the time its transaction began, is visible when it commits, and is ordered
by (time, id); the cursor is the key of the last row of a page. *Reconciliation* has the journal
as the entries of each transaction, with their signed amounts and whole postings appearing at
commit, the cached balances, and `tampers` with what the ledger
never does. *Retention*: `Pick` is the subquery, `Delete` the rows that are still there when the
statement gets its locks; history are `gone` (what each sweep deleted), `due` (what was due when it
began) and `raced` (its last batch of a table was short because another sweep had deleted rows of
it). *OutboxOperator*: a command is one or two statements, its exit status and
what it prints. `Claim` also takes rows whose lease ran out, so attempts pass `MaxAttempts`;
`Mark` is by any claim the event ever had (`Counts`), with the attempts that claim returned, which
is more than the workers can do and all they can do.

*Migrations.* A runner's `known` is what it read of `schema_migrations` at its start, `at` where it
is; `Blocked` is the row lock of a rival. A crash loses the open transaction. *ConnectionPool*:
`call` is a `withTransaction` with the first failure it met and what it throws, `backend` the state
of the session behind each connection. *JournalSchema*: each session has its own uncommitted rows,
the deferred checks it owes and whether they were pulled forward; `byHand` is history: it wrote
other than through `post_ledger_transaction`.

## 3. Runs

| Run | States | Shows |
|---|---|---|
| `transfers` | 122 000 | three payments among two rows, opposite directions and fundings, one freezable account, two attempts: type, checks still hold, no overdraft, no wait cycle, answers match books, the books add up, implements `Ledger` |
| `transfers_refused` | 40 000 | two requests of 13 kinds, among them every refusal: only owners spend, money moves only while active, every received request is answered |
| `idempotency` | 2.7 million | three requests with two bodies under one transfer key, takeovers, crashes, retention: completion never lies, the stored result is the payment, answers are true, implements `OneResult` |
| `idempotency_live` | 73 000 | two requests over a transfer key and a funding key: every received request ends |
| `outbox` | 500 000 | two workers, two events, a fault and a replay: one effect, implements `Delivery` |
| `outbox_live` | 189 000 | every committed event is delivered or parked |
| `web_client` | 1.5 million | payment forms, credentials, views, history card, admin console: `PaysAsIntended`, `CredentialsAreEarned`, `ShownIsNoOlderThanAsked`, `PagesFollow`, `KeysAreAccountedFor` |
| `server` | 2.9 million | authentication, pages, reconciliation, sweeps, operator commands, ledger schema: `ActsByRight`, `MapsEachIdentityOnce`, `WalkIsComplete`, `ReportIsTrue`, `SweepsAreExact`, `ReplaysOnceAndSaysSo`, `BooksStaySound` |
| `progress` | 144 000 | poll chain, shutdown, migrations, connection pool: `StopsAreClean`, `ClosesInOrder`, `MigratesOnce`, `CallsAreIndependent`, and under fairness, of the views and the history card too, `NothingHangs` |
| `idempotency_fingerprint`, `idempotency_refusal`, `outbox_lease` | - | a statement of the documentation that the code does not keep, see section 5 |

**Parts side by side.** The parts of `WebClient`, `Server` and `Processes` share no state with one
another (the exception, `Shutdown`, extends `PollChain`), so an interleaving of two of them shows
nothing that one alone does not. In these runs the variable `part` chooses, in the initial state,
the one part that moves; the states are the sum of the parts' states and not their product. Each
property is a conjunction of named parts, which say what is claimed and quote the code.

**Bounds.** Two accounts that everybody wants are enough for every conflict a payment can have,
because a payment locks two rows; the third account (another currency), the treasury and an id that
does not exist bring in the refusals. `MaxMinor = 6` makes a funding run out of range.
Three requests are an owner, the one that took over, and a bystander; the takeover chains of more
requests repeat those roles, and the proofs drop the bound. Two attempts and two claim attempts
have a first, a last and a way between them. Two workers are a claimant and the one that overtook it;
`MaxFaults = 1` lets one crash, overrun or failing statement happen at every point (retries and
failing handlers are not faults and are bounded by `MaxAttempts` only). `Freezable` is one account
that two of the payments want. `Opening` stands for a history of earlier postings.

Three attempts of a form are a first request, its retry, and the request that follows the retry's
answer; two contents are what was meant and what the field was changed to. One Firebase user and two
customer keys in a tab are enough for one credential to be dropped on behalf of another. One failure
and two requests under way when their page was left (`MaxAbandoned`) let each trace of an onboarding
be left behind for each of the reasons. Two requests
racing over two identities, and one key, are every race of `Authentication`; the third principal is
the administrator's. Four rows and pages of two make a walk of two or three pages with rows that
commit in front of and behind its cursor. Two sweeps and a dry run, in batches of two over
three events and a key, meet in every order, and a full batch leaves a row behind;
two operators race over two events with two parkings, and one claim is made of an event whose
attempts are used up (`MaxReclaims`). Two sessions write four entries of amounts 1 and 2
to one ledger transaction, balanced or not. Two runners, three files and three starts let one overtake, crash
and return. Three calls over two connections
always leave one waiting. Postings of 1 and 2 are amounts that differ and can cancel out, for the report.

**Deadlock.** `transfers` and `transfers_refused` leave TLC's check on, but it says little there:
an operator can always change the status of a free account, and a connection can always fail. That
requests never wait for one another in a circle is the invariant `NoWaitCycle`. Requests of `Idempotency` and
events of `Outbox` end (every request done; every event purged or parked with the replays used up),
so their configurations allow a state without successor. So do those of `web_client`, `server` and
`progress`: requests, starts, failures and days are bounded, a server exits, runners end.

**Symmetry** is used in safety runs only, for requests, workers, attempts of a form and a customer's
keys; no constant distinguishes them.

**Fairness.** `FairSpec` of `Transfers` is weak fairness of each request's own progress: Node runs
an awaited call to its end, PostgreSQL executes statements and grants a lock that is free (or
reports 40001 when the row is stale). Nothing is assumed about clients sending requests, operators,
or failures. `Idempotency` is the same, `RequestStep`. In `Outbox` each worker's own steps are fair,
because `schedulePoll` re-arms the timer in `finally` whatever the poll did, and time (`Elapse`) is
fair; crashes, overruns, failing statements, replay and sweep are not. A worker that crashes comes
back idle: the process is restarted by its supervisor.

In `progress` fairness is asked of the part that moves, and of what the code does by itself: timers
fire and polls end, or fail (`PollChain`); requests are answered, and a shutdown goes on behind each
await (`Shutdown`); a migration runner takes its next statement, or its connection fails; a
`withTransaction` does, and the pool hands out connections first come, first served; nothing asks a
call to time out, so among the behaviours are those in which none ends by giving up; requests of the web client are
served or lost. The answers of the badge are quicker than its ten-second interval (`Slow = FALSE`):
otherwise each reload cancels the one before it, and "checking…" stays; `web_client` has
`Slow = TRUE`. Nothing is assumed of users, callers, signals, crashes or failures.

## 4. What is proved

The eight proof modules hold for every set of accounts, keys, events, requests, workers, attempts,
callers, runners, connections and bodies and for every budget; TLC's bounds do not enter. Each part
has the same outline: the initial states satisfy an inductive invariant (`IInv`, or `SessionInv`,
`LoaderInv` and so on where a proof module holds several), every step keeps it (one lemma per action
or per conjunct), and the properties follow. A step of a composed module is a step of each of its
parts or leaves the part alone, so what is proved of the parts holds of the whole (last rows of the
table). With them every safety property of the runs is a theorem.

| Module | About | Theorems |
|---|---|---|
| `TransfersProofs` | `Transfers` | `TypeCorrect`, `ChecksHold`, `NeverOverdrawn`, `LockOrder`, `AnswersAgree`, `JournalExplains` and `Conservation`, together `BooksAlwaysAddUp`; `OwnersSpend`, `MovesWhileActive`, `NoDeadlock`, `Refinement` |
| `IdempotencyProofs` | `Idempotency` | `TypeCorrect`, `CompletionIsTrue`, `ResultAndMoney`, `Truthful`, `OneTakesOver`, `Refinement` |
| `OutboxProofs` | `Outbox` | `TypeCorrect`, `EffectOnce`, `NoEventLost`, `Disjoint`, `Refinement` |
| `WebClientProofs` | `PaymentForm` | `FormTypeCorrect`, `KeyOfOneRequest`, `SecondPaymentExplained`, `ReceiptOfPayment`, together `IntendedPayments` |
| | `WebSession` | `SessionTypeCorrect`, `KeysAreEarned` |
| | `Loader` | `LoaderTypeCorrect`, `ShownIsFresh` |
| | `AccountHistory` | `HistoryTypeCorrect`, `HistoryFollows` |
| | `Onboarding` | `OnboardingTypeCorrect`, `KeysAccountedFor` |
| | `WebClient` | `ClientTypeCorrect`, `ClientIsSound` |
| `ProcessProofs` | `PollChain` | `ChainTypeCorrect`, `OneChain`, `NothingArmed`, `StopOutlastsPolls`, together `CleanStops` |
| | `Shutdown` | `ServerTypeCorrect`, `ShutdownInOrder`, `ServerStopsCleanly` |
| | `ConnectionPool` | `PoolTypeCorrect`, `CleanHandover`, `FirstFailure`, together `Independence` |
| | `Migrations` | `MigrationsTypeCorrect`, `RecordedExactly`, `DoneComplete`, `FilesRefine`, together `Once` |
| | `Processes` | `ProcessesTypeCorrect`, `ProcessesAreSound` |
| `JournalProofs` | `JournalSchema` | `SchemaTypeCorrect`, `BooksAreSound` |
| | `Pagination` | `PaginationTypeCorrect`, `WalksAreComplete` |
| | `Reconciliation` | `ReconciliationTypeCorrect`, `ReportsAreTrue` |
| `ServerProofs` | `Authentication` | `AuthTypeCorrect`, `ActsAsOwn`, `AdministratorExcluded`, `UnverifiedStaysOut`, `OwnAccountsOnly`, `RevocationBites`, together `ByRight`; `IdentitiesRefine` |
| | `Retention` | `RetentionTypeCorrect`, `SweepsExact` |
| | `OutboxOperator` | `OperatorTypeCorrect`, `ParkedEventReplaysOnce` |
| | `Server` | `PartsTypeCorrect`, `ServerIsSound` |
| `SumTheorems` | `SumFunctionOnSet` | `SumType`, `SumRemove`, `SumEqual`, `SumAdd`, `SumMoved` |

*Transfers.* None of the properties is inductive alone. `NoOverdraft` needs that a request about to
commit still has the money; that needs that what it *saw* is what is there for the rows it has
locked (`Snapshots`: a row that is not stale has the seen balance and status, and a held row is not
stale), which needs that a request past `locking` holds all of its rows and nobody else does
(`Locking`), and that it passed the verdict (`Decisions`). `Books` ties answer, ledger, transfers
row and event together, `Funds` is the row constraint, `Screened` what `Receive` let through.
`Outdate` is where the 40001 rule enters: without it `Snapshots` fails, and with it the constraint
`balance_minor >= 0` is never what stops an overdraft. `NoDeadlock` argues on the greatest row any
member of a circle waits for. The assumptions are those of `ChartOfAccounts` and
`RequestAssumption`: at most one treasury per currency, treasuries have no owner, customers open
without debt; for `NoDeadlock`, ids are bounded, as uuids are. For the books, the table of accounts
is finite: only a commit writes the journal, and it adds one row, so the journal is finite too
(`Accounting`). A commit adds to each balance what its row adds to the sum (`SumAdd`), and moves an
amount between two accounts of one currency (`SumMoved`); that the balance it writes is the one the
journal stands for is what row locks and 40001 are there to ensure (`IInv`).

*SumTheorems.* The community operator is a fold over a set, so what it computes is known only by
induction over finite sets, and an induction theorem that takes the property as a parameter cannot be
used. Each fact is instead proved by a smallest counterexample: the set of finite sets for which it
fails, were it not empty, would have a member that is minimal under inclusion
(`WellFoundedInduction`), and one element less brings the contradiction. `SumsExist` finds in this
way a function that gives every subset its sum, and `SumOnSubsets` that the fold is this function.

*Idempotency.* The heart is `ClaimBacksPayment`: a transfer whose completion counts one row saw
`in_progress` in its snapshot and the row has had no new version since, so it is `in_progress`
now. Then the row has no result and no payment (`ResultIsThePayment`), and the commit decides both.
`Payers` says where in its handler a paid request can be, `Sources` that every stored or told
outcome names a request that really came to it and is over, `Thresholds` that the threshold of a
reclaim lies after `created_at` only while the claim is stale. The assumptions are that there is a
body, that the budgets are positive and that `NoResult` is no answer.

*Outbox.* `Locks` says that a row locked by an uncommitted claim is as the claim found it, so that
a claim never takes a finished row back; `Deliveries` that of all the workers that handle an event
one at most is inserting its inbox row, while there is none, and that a worker about to mark an
event has seen its inbox row. The assumptions are the ranges of the budgets.

*PaymentForm.* `Posts` says that a key drawn for an intent has not been used by another and that
keys in use are not newer than the form's; `Answers` that an answer is what the server decided;
`Charges` that only attempts that carried a key are charged to it; `Renewals` that the form draws a
new key within an intent only after an answer that is final. From these a second payment of an intent needs
a final answer that left nothing stored, which the code does give (section 5).

*WebSession.* Each change of a credential is followed by the guards with the new credentials
(`Arrive`), so a page is where its credential is. `Requested` says that a request carries a key of
its own slot, or a user, or nothing: an answer, however late, stores only the key it was about and drops only a
slot it was made with. A key that was refused stays refused (`valid` only shrinks), so the 401 of a
request made with the slot is still true of that key when it comes. The assumption `WebSessionAssumption` keeps keys, users and the two markers
for *nobody* apart.

*Loader.* Of a view's requests only the last is not cancelled, and what answers it was read after the
view asked (`AnswersAreFresh`).

*AccountHistory.* At most one first page is awaited (`OneAwaited`) and a served page is what the
server had (`PagesAreTrue`). A further page is asked for only behind a full first page, and entries
are only added, so every later first page is full too (`FirstPageIsFull`): whichever comes last, the
cursor stays at the end of the last page on screen.

*Onboarding.* `LeftoversAreExplained` compares a count of leftovers with a count of failures, of
requests under way and of requests abandoned with their page, and no step keeps it by itself. `Reported` takes away what a request under way
will still account for: of the customers then stranded and the keys then lost, each has its failure.
`OwnersOK` says that a key under way acts for the customer it will be shown for.

*PollChain.* `InFlightRuns` says that `inFlight` is a poll exactly while it runs, `StopsWaitForCurrent`
that a `stop` that waits, waits for the poll in flight, also after a restart: so when it resumes
there is none. That a stopped worker has no timer armed (`StoppedArmsNothing`) is inductive by itself.

*Shutdown.* Steps of the server are steps of its poll chain, so `ChainInv` holds here too. A process that is
not listening runs nothing (`QuietUnlessUp`); unless the worker was started behind a signal
(`Orderly`) a signal stops it for good (`StoppedForGood`), no poll is in flight behind its stop
(`NoPollBehindStop`), the app is closed by a shutdown that is past its stop (`ClosedBySomeone`), and the
pool ends behind the app, or before anything ran (`PoolEndsLast`). A signal calls `stop` only when it is
not in `stop` yet, so the server's steps are steps of its poll chain, and stops are clean in it too.

*Authentication.* `Good` ties each stage of a request to what it holds: the principal it made is not
visible yet, the one it found is in the directory, the credential it was accepted with is its own.
`Apart` says that two sign-ins under way made different principals, `AdministratorOut` that the
administrator is in nobody's directory. That an accepted request was not barred follows from the
step that accepts it.

*Migrations.* `Prefix`: what is recorded is a prefix of the files. `Exclusive`: of two runners
inside the same file one waits. `Progress`: a runner inside a file's transaction has every earlier
file recorded. The record and the file's statements commit together, so `RecordedIsApplied` is kept by a
crash at any point.

*Retention.* What a sweep may delete is settled when it starts (`WindowOf`): its cutoff is in the past,
because rows are kept a day at least, and rows finish today. A row that is gone is with the one
sweep that deleted it (`RowsAreAccountedFor`), whose counter is the number of its rows (`Counted`).
A batch that is not full is all there is of its table (`ProgressOf`), unless `raced`. The tables are
assumed finite.

*OutboxOperator.* A replay takes an event from parked to its first attempt in one statement and only a
mark parks it again, so parkings and replays stay in step (`OneReplayPerParking`); what a command
says is decided in the statement that changes the event.

*JournalSchema.* `OwnIsSound`: each row an open transaction has written is queued for the deferred
check or is as that check wants it, and no other session can write beside it. A check that passes
therefore vouches for all that becomes visible. What
`post_ledger_transaction` writes is one debit and one credit, so the sums of its check are over one
entry each (`TotalOfOne`, `PairIsEven`); no other sum is ever computed in the proof.

*Pagination.* Rows are totally ordered, so the first *n* of a set are those of the *n* lowest ranks, and there
are *n* of them (`RankIsBelow`, `SizeOfFirst`). A walk has shown what was visible up to its cursor
(`PositionOK`), except rows that became visible behind it, which are not *old*.

*Reconciliation.* A posting moves the cached balances by what its entries add to the sums, so their
difference is what was altered behind the ledger's back (`DriftIsTrue`), at every moment: one more
or one entry less changes a sum by its amount (`SumInMore`, `SumInLess`, from `SumTheorems`); the
comparison is one statement and so sees one such moment. Accounts and postings are assumed finite.

*ConnectionPool.* `HoldersOK` (a connection that is out has one holder), `QueueOK` (no holder
waits), `SessionsOK` (a session inside a transaction belongs to a call that will end it or destroy
it), `OutcomesOK` (what a call throws is the first failure it met).

Proved and in no run of their own, because a refinement or a stronger property of a run implies
them or TLC's small instance adds nothing to the proof: `LocksAscend`, `OnlyStaleClaimsAreTaken`,
`NothingLost`, `ClaimsAreDisjoint`.

*The wholes.* The parts of `WebClient` and `Server` do not touch each other, so the whole implements
each of its parts, and the theorems about them apply. The two payment forms are told apart by a
variable, and the server process begins and ends inside `Processes` beside a worker that runs
without it: for these the inductive invariant is carried over step by step (`FormMoves`,
`ServerPart`).

Only model-checked: the liveness properties (`EveryRequestAnswered`, `EventuallyDelivered`,
`NothingHangs`), since reasoning about fairness and `ENABLED` is beyond the prover. The three
violated statements of section 5 are counterexamples found by TLC.

## 5. Findings

* **A key may bind one body's result to another body's fingerprint** (`idempotency_fingerprint`).
  `docs/ARCHITECTURE.md:208` says a key identifies one request fingerprint and one stable result.
  `complete` and `release` name the row by key and status, not by owner or fingerprint. An owner
  that outlives its claim releases the key; another body claims it; the retry that had taken over
  completes the row with its own response. Money moves once.
* **A refusal may be forgotten** (`idempotency_refusal`). `docs/API.md:464` says a 4xx becomes the
  key's stored result. The handler tells the client even when storing it failed.
* **A lease may be cut short** (`outbox_lease`). `README.md:298`. `markFailed` of a worker that lost its lease
  resets the next attempt of the claim that took over. Effects stay single (`OneEffect`).

Observations that no run is devoted to. The first three concern the outbox; the others came out as
counterexamples while the modules named were written, and the properties that are checked state what
is true beside them.

* The comment at `outbox-repository.ts:183` promises a replayed event a fresh budget, but a worker
  that lost its lease before the event was parked can still park it again on its old count
  (`outbox-worker.ts:124`).
* ADR-003 says an event is parked after `maxAttempts`, but a worker that dies on the last attempt
  leaves a row that is claimed and handled once more.
* `computeNextAttempt` is called with `attempts + 1`, so the documented base delay is never used.
* *Shutdown* (`server.ts:63`). The signal handlers are registered before `listen` is awaited: a
  signal in between stops a worker that was never started, and `worker.start()` after `listen`
  starts it while the server closes. It polls beside and after the pool's end, where
  `ARCHITECTURE.md:250` closes the worker first. `Orderly` is this one exception.
* *PaymentForm* (`api.ts:98`). `isFinalAnswer` holds for a 401 or 403 too, which store nothing under
  the key: a request times out, its retry is answered 401, the form draws a new key, the first
  request is carried out, and the next click pays the same intent again. `api.ts:94` says that a
  4xx is stored as the key's result.
* *PaymentForm* (`AccountDetail.tsx:121`). The button "Retry safely (same idempotency key)" stands over a newer
  key when the fields were edited while the request was in flight.
* *WebSession* (`api.ts:155`). A 401 clears the slot without comparing its value with the key that
  was sent: a late 401 for an old key drops the key stored since.
* *WebSession* (`api.ts:150`). An administrator's 401 clears the admin slot also if the request was made
  without a key (the second request of an onboarding after a sign-out): the key of an administrator
  who signed in since is dropped.
* *WebSession* (`App.tsx:25`). `web/README.md:64` says a 401 returns to sign-in; with a Firebase user
  in the same tab the page stays open as that user.
* *WebSession* (`AdminLogin.tsx:35`). A key check that is answered after a sign-out stores the key.
* *WebSession* (`firebase.ts:91`). The profile knows of the verified address before the token does:
  the app opens and the API still answers 403.
* *AccountHistory* (`AccountDetail.tsx:290`). `loadMore` is cancelled by nobody: a further page asked
  for before a reload and answered after it is appended to the reloaded first page, or puts its
  error over fresh entries, where line 268 says that a reload starts clean.
* *Onboarding* (`Admin.tsx:64`). A key whose request was under way when the page was left (`Admin.tsx:122`
  does so itself) is issued, shown to nobody and reported by nobody; so is a customer without a key.
  `LeftoversAreExplained` counts these as `abandoned`.
* *Retention* (`outbox-repository.ts:223`, `idempotency-repository.ts:206`). A sweep takes a batch in
  which fewer rows were deleted than it asked for to be the last. Two sweeps at once can pick the
  same rows; each then ends on a batch the other made short, and rows that were due stay although
  both report success. The next sweep takes them. `NothingDueIsLeft` therefore speaks of a sweep
  whose last batches nobody else took from.
* *Pagination* (`ledger-repository.ts:115`). The cursor orders by `created_at`, the start of the
  inserting transaction: an entry that commits behind the cursor during a walk is not listed by it.

## 6. What is not modelled

* The landing page, layout, wording and preselected fields; `config.ts`, metrics, logging and health
  checks; wiring. They have no state a property is about.
* Hashing, the signature check of an ID token, Firebase, `pg`'s pool, Fastify's close and PostgreSQL
  itself are external: modelled by what the code relies on, and marked so.
* Lengths of delays (backoff, leases, intervals) are abstracted to *later*; `canonicalSerialize` to
  equality of bodies; formats of amounts, cursors and keys to what they keep apart. A cursor that
  lost the microseconds would, and is the mutant of `WalkIsComplete`.
* `PaymentForm` has no sweep of old keys: a retry after the retention window is in `Idempotency`.
  Its contents name the account that pays; `SendMoney` also keeps its key when the browser's history moves from one
  account's page to another's (`AccountDetail.tsx:20` changes the id and mounts nothing anew).
* `Onboarding`: a request that takes effect only after its failure was reported; the text in the
  revocation field, of which only the id sent is kept.
* `Shutdown`: a signal that comes twice. `process.once` leaves the second to the default action, which
  kills the process: for the safety properties a behaviour that ends there, and `NothingHangs`
  assumes that it is not sent.
* `ConnectionPool`: a BEGIN refused on a connection that lives on.
* `Pagination`: a cursor of the right form that no page carried, which the decoders accept.
* `OutboxOperator`: whether the reason printed for a refused replay is still true. The exit status is.
* `JournalSchema` leaves out `TRUNCATE`, single statements that write several tables, and postings
  of more than two entries, which the service never makes.
* `Reconciliation` compares balances; a report over an account that is opened between its two
  statements is in the model, a second report at once is not.
* The instance of `Retention` keeps rows for one day in every sweep; a window of no days is refused by
  `retention-cli.ts`, and the proofs are about any window.
* Benchmarks, scripts and tests were read as evidence and are not modelled.
