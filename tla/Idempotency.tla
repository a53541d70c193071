---------------------------- MODULE Idempotency ----------------------------
(***************************************************************************)
(* The life of an Idempotency-Key: POST /v1/transfers and                  *)
(* POST /v1/admin/fund claim the key, run the payment, complete the claim  *)
(* in the payment's own transaction, or settle the failure afterwards.     *)
(* Claims go stale after 30 seconds and are taken over; requests crash,    *)
(* outlive their claim, and retry; a retention sweep forgets results.      *)
(*                                                                         *)
(* A key here stands for the unique (principal_id, key, operation) of      *)
(* table idempotency_records.  What the payment itself does is in          *)
(* Transfers; here an attempt commits, conflicts, is refused, or fails.    *)
(***************************************************************************)
EXTENDS Integers, FiniteSets

CONSTANTS
  Keys,
  TransferKeys,     \* keys of operation 'transfer'; the others are 'funding'
  Requests,
  Bodies,           \* request bodies; equal bodies have equal fingerprints
  MaxClaimAttempts, \* maxClaimAttempts of the repository
  MaxAttempts,      \* attempts of TransferService.create
  Retention,        \* whether the retention sweep is run while requests are
  NoResult

ASSUME IdempotencyAssumption ==
  /\ TransferKeys \subseteq Keys
  /\ Bodies # {}
  /\ MaxClaimAttempts \in Nat \ {0}
  /\ MaxAttempts \in Nat \ {0}
  /\ Retention \in BOOLEAN

Results == [kind : {"created", "refused"}, by : Requests]

VARIABLES
  \* table idempotency_records, one row per key
  row,       \* [Keys -> {"absent", "in_progress", "completed"}]
  rowBody,   \* [Keys -> Bodies], request_fingerprint
  rowResult, \* [Keys -> Results \cup {NoResult}], the stored response
  rowStale,  \* [Keys -> BOOLEAN], created_at is more than 30 s ago
  charged,   \* [Keys -> SUBSET Requests], payments since the key was last free
  paid,      \* requests whose payment was ever committed
  \* the requests
  key, body, \* what the client sent
  phase, claims, attempt,
  older,     \* created_at < the staleThreshold this request computed
  sees,      \* status of the row in the snapshot of the attempt
  moved,     \* the row changed after that snapshot
  verdict,   \* what settleFailure will be given
  answer     \* what the client was told

table    == <<row, rowBody, rowResult, rowStale, charged, paid>>
claimant == <<claims, older>>
payer    == <<attempt, sees, moved, verdict>>
sent     == <<key, body>>
vars     == <<table, sent, phase, claimant, payer, answer>>

Phases ==
  {"new",       \* not received
   "insert",    \* before the INSERT ... ON CONFLICT DO NOTHING
   "read",      \* lost the insert, before findRecord
   "reclaim",   \* saw a stale claim, before the conditional UPDATE
   "reread",    \* lost the reclaim, before the second findRecord
   "begin",     \* owns the claim, before (the next) BEGIN
   "posting",   \* in the payment's transaction
   "settling",  \* the payment failed, before settleFailure
   "done"}

Rows == {"absent", "in_progress", "completed"}

\* A stored or fresh response, or one of the two errors of the claim itself,
\* or an answer that decides nothing (503, 500), or none because of a crash.
Answer(r, what) == [kind |-> what, by |-> r]

Created(r) == Answer(r, "created")
Refused(r) == Answer(r, "refused")

Told == [kind : {"created", "refused", "IDEMPOTENCY_IN_PROGRESS",
                 "IDEMPOTENCY_CONFLICT", "retry", "crashed"}, by : Requests]

ASSUME NoResultAssumption == NoResult \notin Told

Init ==
  /\ row = [k \in Keys |-> "absent"]
  /\ rowBody = [k \in Keys |-> CHOOSE b \in Bodies : TRUE]
  /\ rowResult = [k \in Keys |-> NoResult]
  /\ rowStale = [k \in Keys |-> FALSE]
  /\ charged = [k \in Keys |-> {}]
  /\ paid = {}
  /\ key \in [Requests -> Keys]
  /\ body \in [Requests -> Bodies]
  /\ phase = [r \in Requests |-> "new"]
  /\ claims = [r \in Requests |-> 1]
  /\ attempt = [r \in Requests |-> 1]
  /\ older = [r \in Requests |-> FALSE]
  /\ sees = [r \in Requests |-> "absent"]
  /\ moved = [r \in Requests |-> FALSE]
  /\ verdict = [r \in Requests |-> "release"]
  /\ answer = [r \in Requests |-> NoResult]

Goto(r, from, to) ==
  /\ phase[r] = from
  /\ phase' = [phase EXCEPT ![r] = to]

Tell(r, from, what) ==
  /\ Goto(r, from, "done")
  /\ answer' = [answer EXCEPT ![r] = what]

\* The row of k gets a new version: snapshots taken before do not see it.
Touch(k) ==
  moved' = [q \in Requests |->
              IF key[q] = k /\ phase[q] = "posting" THEN TRUE ELSE moved[q]]

\* The row of k gets a new created_at: no threshold computed before is later.
Renew(k) ==
  /\ rowStale' = [rowStale EXCEPT ![k] = FALSE]
  /\ older' = [q \in Requests |-> IF key[q] = k THEN FALSE ELSE older[q]]

----------------------------------------------------------------------------
(* claimOrReplay: tryClaim, at most MaxClaimAttempts times *)

Receive(r) ==
  /\ Goto(r, "new", "insert")
  /\ UNCHANGED <<table, sent, claimant, payer, answer>>

Insert(r) ==
  \/ /\ row[key[r]] = "absent"
     /\ row' = [row EXCEPT ![key[r]] = "in_progress"]
     /\ rowBody' = [rowBody EXCEPT ![key[r]] = body[r]]
     /\ Renew(key[r])
     /\ Goto(r, "insert", "begin")
     /\ UNCHANGED <<rowResult, charged, paid, sent, claims, payer, answer>>
  \/ /\ row[key[r]] # "absent"
     /\ Goto(r, "insert", "read")
     /\ UNCHANGED <<table, sent, claimant, payer, answer>>

\* Mutant: the loop runs once too often.
ClaimAgainOnceMore(r, from) ==
  /\ claims[r] <= MaxClaimAttempts
  /\ Goto(r, from, "insert")
  /\ claims' = [claims EXCEPT ![r] = @ + 1]
  /\ older' = [older EXCEPT ![r] = FALSE]
  /\ UNCHANGED <<table, sent, payer, answer>>

\* tryClaim found the row gone: once more, unless the attempts are used up.
ClaimAgain(r, from) ==
  \/ /\ claims[r] < MaxClaimAttempts
     /\ Goto(r, from, "insert")
     /\ claims' = [claims EXCEPT ![r] = @ + 1]
     /\ older' = [older EXCEPT ![r] = FALSE]
     /\ UNCHANGED <<table, sent, payer, answer>>
  \/ /\ claims[r] = MaxClaimAttempts
     /\ Tell(r, from, Answer(r, "IDEMPOTENCY_IN_PROGRESS"))
     /\ UNCHANGED <<table, sent, claimant, payer>>

Replay(r, from) ==
  /\ Tell(r, from, rowResult[key[r]])
  /\ UNCHANGED <<table, sent, claimant, payer>>

FindRecord(r) ==
  \/ /\ row[key[r]] = "absent"
     /\ ClaimAgain(r, "read")
  \/ /\ row[key[r]] # "absent" /\ rowBody[key[r]] # body[r]
     /\ Tell(r, "read", Answer(r, "IDEMPOTENCY_CONFLICT"))
     /\ UNCHANGED <<table, sent, claimant, payer>>
  \/ /\ row[key[r]] = "completed" /\ rowBody[key[r]] = body[r]
     /\ Replay(r, "read")
  \/ /\ row[key[r]] = "in_progress" /\ rowBody[key[r]] = body[r]
     /\ rowStale[key[r]]
     /\ Goto(r, "read", "reclaim")
     /\ older' = [older EXCEPT ![r] = TRUE]
     /\ UNCHANGED <<table, sent, claims, payer, answer>>
  \/ /\ row[key[r]] = "in_progress" /\ rowBody[key[r]] = body[r]
     /\ ~rowStale[key[r]]
     /\ Tell(r, "read", Answer(r, "IDEMPOTENCY_IN_PROGRESS"))
     /\ UNCHANGED <<table, sent, claimant, payer>>

\* The WHERE clause of the conditional UPDATE, evaluated on the current row.
Reclaimable(r) ==
  /\ row[key[r]] = "in_progress"
  /\ rowBody[key[r]] = body[r]
  /\ older[r]

Reclaim(r) ==
  \/ /\ Reclaimable(r)
     /\ Goto(r, "reclaim", "begin")
     /\ Renew(key[r])
     /\ Touch(key[r])
     /\ UNCHANGED <<row, rowBody, rowResult, charged, paid, sent, claims,
                    attempt, sees, verdict, answer>>
  \/ /\ ~Reclaimable(r)
     /\ Goto(r, "reclaim", "reread")
     /\ UNCHANGED <<table, sent, claimant, payer, answer>>

\* The fingerprint is not compared again here.
Reread(r) ==
  \/ /\ row[key[r]] = "absent"
     /\ ClaimAgain(r, "reread")
  \/ /\ row[key[r]] = "completed"
     /\ Replay(r, "reread")
  \/ /\ row[key[r]] = "in_progress"
     /\ Tell(r, "reread", Answer(r, "IDEMPOTENCY_IN_PROGRESS"))
     /\ UNCHANGED <<table, sent, claimant, payer>>

----------------------------------------------------------------------------
(* The payment *)

\* BEGIN and the first statement: a transfer's whole attempt sees the row as
\* it is now; a funding's statements each see the row as it is then.
Begin(r) ==
  /\ Goto(r, "begin", "posting")
  /\ sees' = [sees EXCEPT ![r] = row[key[r]]]
  /\ moved' = [moved EXCEPT ![r] = FALSE]
  /\ UNCHANGED <<table, sent, claimant, attempt, verdict, answer>>

Serializable(r) == key[r] \in TransferKeys

\* Mutant: the claim is looked up in the snapshot, no row is updated.
OwnsClaimInSnapshot(r) ==
  IF Serializable(r) THEN sees[r] = "in_progress"
                     ELSE row[key[r]] = "in_progress"

\* Whether UPDATE ... WHERE status = 'in_progress' counts one row.
OwnsClaim(r) ==
  IF Serializable(r) THEN sees[r] = "in_progress" /\ ~moved[r]
                     ELSE row[key[r]] = "in_progress"

CountsNoRow(r) ==
  IF Serializable(r) THEN sees[r] # "in_progress"
                     ELSE row[key[r]] # "in_progress"

\* Mutant: the row count of the completion UPDATE is not looked at.
CommitUncounted(r) ==
  LET k == key[r] IN
  /\ Serializable(r) => ~moved[r]
  /\ row' = [row EXCEPT ![k] = IF @ = "absent" THEN @ ELSE "completed"]
  /\ rowResult' = [rowResult EXCEPT
                     ![k] = IF row[k] = "in_progress" THEN Created(r) ELSE @]
  /\ charged' = [charged EXCEPT ![k] = @ \cup {r}]
  /\ paid' = paid \cup {r}
  /\ Touch(k)
  /\ Tell(r, "posting", Created(r))
  /\ UNCHANGED <<rowBody, rowStale, sent, claimant, attempt, sees, verdict>>

\* The completion UPDATE counts one row and the transaction commits: payment,
\* event and stored response at once.  The acknowledgement may get lost, in
\* which case the handler goes on to settle a 500.
Commit(r) ==
  LET k == key[r] IN
  /\ OwnsClaim(r)
  /\ row' = [row EXCEPT ![k] = "completed"]
  /\ rowResult' = [rowResult EXCEPT ![k] = Created(r)]
  /\ charged' = [charged EXCEPT ![k] = @ \cup {r}]
  /\ paid' = paid \cup {r}
  /\ Touch(k)
  /\ \/ /\ Tell(r, "posting", Created(r))
        /\ UNCHANGED verdict
     \/ /\ Goto(r, "posting", "settling")
        /\ verdict' = [verdict EXCEPT ![r] = "release"]
        /\ UNCHANGED answer
  /\ UNCHANGED <<rowBody, rowStale, sent, claimant, attempt, sees>>

\* Mutant: the payment has been committed before the claim is completed.
LostClaimPaid(r) ==
  /\ CountsNoRow(r)
  /\ Tell(r, "posting", Answer(r, "IDEMPOTENCY_IN_PROGRESS"))
  /\ paid' = paid \cup {r}
  /\ UNCHANGED <<row, rowBody, rowResult, rowStale, charged, sent, claimant, payer>>

\* It counts no row: the payment is rolled back and nothing is settled.
LostClaim(r) ==
  /\ CountsNoRow(r)
  /\ Tell(r, "posting", Answer(r, "IDEMPOTENCY_IN_PROGRESS"))
  /\ UNCHANGED <<table, sent, claimant, payer>>

\* Mutant: attempts are not counted.
ConflictUncounted(r) ==
  /\ Serializable(r)
  /\ Goto(r, "posting", "begin")
  /\ UNCHANGED <<table, sent, claimant, payer, answer>>

\* 40001: the row of the key moved, or anything else the payment touched did.
Conflict(r) ==
  /\ Serializable(r)
  /\ \/ /\ attempt[r] < MaxAttempts
        /\ Goto(r, "posting", "begin")
        /\ attempt' = [attempt EXCEPT ![r] = @ + 1]
        /\ UNCHANGED verdict
     \/ /\ attempt[r] = MaxAttempts
        /\ Goto(r, "posting", "settling")
        /\ verdict' = [verdict EXCEPT ![r] = "release"]
        /\ UNCHANGED attempt
  /\ UNCHANGED <<table, sent, claimant, sees, moved, answer>>

\* The payment is rolled back with a refusal (a 4xx) or another error (5xx).
Fail(r, v) ==
  /\ Goto(r, "posting", "settling")
  /\ verdict' = [verdict EXCEPT ![r] = v]
  /\ UNCHANGED <<table, sent, claimant, attempt, sees, moved, answer>>

----------------------------------------------------------------------------
(* settleFailure, then the client gets the error *)

ErrorAnswer(r) ==
  Answer(r, IF verdict[r] = "refuse" THEN "refused" ELSE "retry")

\* Mutant: complete and release without "AND status = 'in_progress'".
SettleAnyStatus(r) ==
  LET k == key[r] IN
  /\ Tell(r, "settling", ErrorAnswer(r))
  /\ row[k] # "absent"
  /\ row' = [row EXCEPT ![k] =
               IF verdict[r] = "refuse" THEN "completed" ELSE "absent"]
  /\ rowResult' = [rowResult EXCEPT ![k] =
                     IF verdict[r] = "refuse" THEN Refused(r) ELSE NoResult]
  /\ Touch(k)
  /\ UNCHANGED <<rowBody, rowStale, charged, paid, sent, claimant, attempt, sees,
                 verdict>>

Settle(r) ==
  LET k == key[r] IN
  /\ Tell(r, "settling", ErrorAnswer(r))
  /\ \/ /\ row[k] = "in_progress" /\ verdict[r] = "refuse"
        /\ row' = [row EXCEPT ![k] = "completed"]
        /\ rowResult' = [rowResult EXCEPT ![k] = Refused(r)]
        /\ Touch(k)
        /\ UNCHANGED <<rowBody, rowStale, charged, paid>>
     \/ /\ row[k] = "in_progress" /\ verdict[r] = "release"
        /\ row' = [row EXCEPT ![k] = "absent"]
        /\ Touch(k)
        /\ UNCHANGED <<rowBody, rowResult, rowStale, charged, paid>>
     \/ /\ row[k] # "in_progress"
        /\ UNCHANGED <<table, moved>>
  /\ UNCHANGED <<sent, claimant, attempt, sees, verdict>>

\* Settling failed: logged, and the client still gets the payment's error.
SettleFailed(r) ==
  /\ Tell(r, "settling", ErrorAnswer(r))
  /\ UNCHANGED <<table, sent, claimant, payer>>

\* The process dies; an open transaction is rolled back.
Crash(r) ==
  /\ phase[r] \notin {"new", "done"}
  /\ Tell(r, phase[r], Answer(r, "crashed"))
  /\ UNCHANGED <<table, sent, claimant, payer>>

----------------------------------------------------------------------------
(* Time and retention *)

Age(k) ==
  /\ row[k] = "in_progress" /\ ~rowStale[k]
  /\ rowStale' = [rowStale EXCEPT ![k] = TRUE]
  /\ UNCHANGED <<row, rowBody, rowResult, charged, paid, sent, phase, claimant,
                 payer, answer>>

\* purgeCompletedBefore: completed rows only, whatever their age.
Purge(k) ==
  /\ Retention
  /\ row[k] = "completed"
  /\ row' = [row EXCEPT ![k] = "absent"]
  /\ rowResult' = [rowResult EXCEPT ![k] = NoResult]
  /\ charged' = [charged EXCEPT ![k] = {}]
  /\ Touch(k)
  /\ UNCHANGED <<rowBody, rowStale, paid, sent, phase, claimant, attempt, sees,
                 verdict, answer>>

----------------------------------------------------------------------------
RequestStep(r) ==
  \/ Insert(r)
  \/ FindRecord(r)
  \/ Reclaim(r)
  \/ Reread(r)
  \/ Begin(r)
  \/ Commit(r)
  \/ LostClaim(r)
  \/ Conflict(r)
  \/ \E v \in {"refuse", "release"} : Fail(r, v)
  \/ Settle(r)
  \/ SettleFailed(r)

Next ==
  \/ \E r \in Requests : Receive(r) \/ RequestStep(r) \/ Crash(r)
  \/ \E k \in Keys : Age(k) \/ Purge(k)

Spec == Init /\ [][Next]_vars

\* A received request is run to its end unless its process dies.
FairSpec == Spec /\ \A r \in Requests : WF_vars(RequestStep(r))

----------------------------------------------------------------------------
(* Properties *)

\* The records, each request's place in its handler and its answer are of
\* their kind.
TypeOK ==
  /\ row \in [Keys -> Rows]
  /\ rowBody \in [Keys -> Bodies]
  /\ rowResult \in [Keys -> Results \cup {NoResult}]
  /\ rowStale \in [Keys -> BOOLEAN]
  /\ charged \in [Keys -> SUBSET Requests]
  /\ paid \subseteq Requests
  /\ key \in [Requests -> Keys]
  /\ body \in [Requests -> Bodies]
  /\ phase \in [Requests -> Phases]
  /\ claims \in [Requests -> 1..MaxClaimAttempts]
  /\ attempt \in [Requests -> 1..MaxAttempts]
  /\ older \in [Requests -> BOOLEAN]
  /\ sees \in [Requests -> Rows]
  /\ moved \in [Requests -> BOOLEAN]
  /\ verdict \in [Requests -> {"refuse", "release"}]
  /\ answer \in [Requests -> Told \cup {NoResult}]

\* The row count of the completion UPDATE never lies: a transaction that is
\* told it completes the claim does so on a row that is still in_progress,
\* although a transfer reads it in a snapshot taken long before.
ClaimBacksPayment ==
  \A r \in Requests :
    phase[r] = "posting" /\ OwnsClaim(r) => row[key[r]] = "in_progress"

\* The stored result and the money agree at every moment, whoever crashed,
\* whatever was reclaimed, released or acknowledged too late: a stored 201 is
\* the one payment made under the key, and a stored refusal means none was.
ResultIsThePayment ==
  \A k \in Keys :
    /\ row[k] = "completed" <=> rowResult[k] # NoResult
    /\ charged[k] = {r \in Requests : rowResult[k] = Created(r)}

\* Nobody is told a lie: a 201 names a payment that was made under that very
\* key, a refusal names a request that paid nothing, and a request whose
\* payment was made is never itself told it was refused or must wait.
AnswersAreTrue ==
  \A r \in Requests :
    /\ \A q \in Requests :
         /\ answer[r] = Created(q) => q \in paid /\ key[q] = key[r]
         /\ answer[r] = Refused(q) => q \notin paid /\ key[q] = key[r]
    /\ r \in paid =>
         answer[r] \in {Created(r), NoResult, Answer(r, "retry"), Answer(r, "crashed")}

\* A reclaim takes a claim only while it is more than 30 seconds old, so of
\* all the retries that saw the same stale claim one proceeds.
OnlyStaleClaimsAreTaken ==
  [][\A r \in Requests :
       phase[r] = "reclaim" /\ phase'[r] = "begin" => rowStale[key[r]]]_vars

Abstract == INSTANCE OneResult WITH result <- rowResult

\* A key has at most one result, decided together with the money it reports.
ImplementsOneResult == Abstract!Spec

\* A received request is answered or its process crashed: neither the claim
\* loop nor the attempts go on for ever.
EveryRequestAnswered ==
  \A r \in Requests : phase[r] # "new" ~> phase[r] = "done"

----------------------------------------------------------------------------
(* Two statements of the documentation that the code does not keep *)

\* docs/ARCHITECTURE.md: a key "identifies one request fingerprint and one
\* stable result": the stored response answers the stored fingerprint.
OneFingerprintOneResult ==
  \A k \in Keys : \A r \in Requests :
    row[k] = "completed" /\ rowResult[k].by = r => body[r] = rowBody[k]

\* docs/API.md: a 4xx "becomes the key's stored result"; retrying the key
\* "posts nothing, even if the cause has since been fixed".
RefusalIsRemembered ==
  \A r \in Requests : answer[r] = Refused(r) => charged[key[r]] = {}
=============================================================================
