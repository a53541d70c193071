------------------------------- MODULE Outbox -------------------------------
(***************************************************************************)
(* The transactional outbox: rows of outbox_events, the workers that claim *)
(* them in leased batches and run the handler on each, the audit consumer  *)
(* that is the handler (an inbox row and an effect row in one              *)
(* transaction), the operator's replay of parked events and the retention  *)
(* sweep.  Workers overrun their leases, crash, and lose acknowledgements. *)
(*                                                                         *)
(* Time is kept as due[e]: whether next_attempt_at has come, is still to   *)
(* come, or is 'infinity'.  Leases and backoffs share that column, so one  *)
(* action lets either run out.                                             *)
(***************************************************************************)
EXTENDS Integers, FiniteSets

CONSTANTS
  Events,       \* numbered in the order of created_at
  Workers,      \* OutboxWorker instances, one poll chain each
  BatchSize,
  MaxAttempts,  \* OutboxWorkerConfig.maxAttempts
  MaxFaults,    \* bounds crashes, lease overruns and failing outbox statements
  MaxReplays,   \* bounds the operator's replays
  NoEvent

ASSUME OutboxAssumption ==
  /\ Events \subseteq Nat
  /\ NoEvent \notin Events
  /\ BatchSize \in Nat \ {0}
  /\ MaxAttempts \in Nat \ {0}
  /\ MaxFaults \in Nat
  /\ MaxReplays \in Nat

VARIABLES
  \* table outbox_events
  status,    \* [Events -> Statuses]
  attempts,  \* [Events -> Nat]
  due,       \* [Events -> {"now", "later", "never"}], next_attempt_at
  \* tables consumer_inbox and audit_effects
  inbox,     \* SUBSET Events
  effects,   \* [Events -> Nat], rows of audit_effects
  \* the workers
  phase,     \* [Workers -> Phases]
  batch,     \* [Workers -> SUBSET Events], claimed and not yet dealt with
  claimed,   \* [Workers -> [Events -> Nat]], attempts as the claim returned it
  current,   \* [Workers -> Events \cup {NoEvent}], the event in the handler
  leased,    \* [Workers -> SUBSET Events], batch entries whose lease still runs
  \* bounds
  faults, replays

outbox  == <<status, attempts, due>>
audit   == <<inbox, effects>>
worker  == <<phase, batch, claimed, current, leased>>
budgets == <<faults, replays>>
vars    == <<outbox, audit, worker, budgets>>

Statuses == {"absent", "pending", "processing", "failed", "processed", "purged"}

Phases == {"idle",       \* between polls
           "claiming",   \* claim UPDATE done, its COMMIT not
           "choosing",   \* for (const event of batch)
           "handling",   \* before the consumer's INSERT into the inbox
           "consuming",  \* inbox and effect rows written, COMMIT not yet
           "marking",    \* handler done, before markProcessed
           "failing"}    \* handler or markProcessed threw, before markFailed

InHandler == {"handling", "consuming", "marking", "failing"}

Init ==
  /\ status = [e \in Events |-> "absent"]
  /\ attempts = [e \in Events |-> 0]
  /\ due = [e \in Events |-> "now"]
  /\ inbox = {}
  /\ effects = [e \in Events |-> 0]
  /\ phase = [w \in Workers |-> "idle"]
  /\ batch = [w \in Workers |-> {}]
  /\ claimed = [w \in Workers |-> [e \in Events |-> 0]]
  /\ current = [w \in Workers |-> NoEvent]
  /\ leased = [w \in Workers |-> {}]
  /\ faults = 0
  /\ replays = 0

Fault ==
  /\ faults < MaxFaults
  /\ faults' = faults + 1
  /\ UNCHANGED replays

Goto(w, from, to) ==
  /\ phase[w] = from
  /\ phase' = [phase EXCEPT ![w] = to]

Forget(w) ==
  /\ batch' = [batch EXCEPT ![w] = {}]
  /\ claimed' = [claimed EXCEPT ![w] = [e \in Events |-> 0]]
  /\ current' = [current EXCEPT ![w] = NoEvent]
  /\ leased' = [leased EXCEPT ![w] = {}]

----------------------------------------------------------------------------
(* The payment's transaction commits with its event *)

Create(e) ==
  /\ status[e] = "absent"
  /\ status' = [status EXCEPT ![e] = "pending"]
  /\ UNCHANGED <<attempts, due, audit, worker, budgets>>

----------------------------------------------------------------------------
(* claimBatch *)

\* Rows another worker's claim has locked and not committed are skipped.
Locked(w, e) ==
  \E v \in Workers \ {w} : phase[v] = "claiming" /\ e \in batch[v]

\* Mutant: a row left 'processing' by a crash is nobody's to claim.
EligibleNotProcessing(w) ==
  {e \in Events :
     /\ status[e] \in {"pending", "failed"}
     /\ due[e] = "now"
     /\ ~Locked(w, e)}

Eligible(w) ==
  {e \in Events :
     /\ status[e] \in {"pending", "failed", "processing"}
     /\ due[e] = "now"
     /\ ~Locked(w, e)}

\* ORDER BY created_at LIMIT BatchSize.
First(S) == {e \in S : Cardinality({f \in S : f < e}) < BatchSize}

Claim(w) ==
  LET picked == First(Eligible(w)) IN
  /\ picked # {}
  /\ Goto(w, "idle", "claiming")
  /\ batch' = [batch EXCEPT ![w] = picked]
  /\ UNCHANGED <<outbox, audit, claimed, current, leased, budgets>>

CommitClaim(w) ==
  /\ Goto(w, "claiming", "choosing")
  /\ status' = [e \in Events |-> IF e \in batch[w] THEN "processing" ELSE status[e]]
  /\ attempts' = [e \in Events |->
                    IF e \in batch[w] THEN attempts[e] + 1 ELSE attempts[e]]
  /\ due' = [e \in Events |-> IF e \in batch[w] THEN "later" ELSE due[e]]
  /\ claimed' = [claimed EXCEPT ![w] =
                   [e \in Events |-> IF e \in batch[w] THEN attempts[e] + 1 ELSE 0]]
  /\ leased' = [leased EXCEPT ![w] = batch[w]]
  /\ UNCHANGED <<audit, batch, current, budgets>>

\* claimBatch throws; the poll reports a claimError.
AbortClaim(w) ==
  /\ Goto(w, "claiming", "idle")
  /\ Forget(w)
  /\ Fault
  /\ UNCHANGED <<outbox, audit>>

----------------------------------------------------------------------------
(* processEvent *)

\* The next event of the batch, in the order the claim happened to return.
Choose(w, e) ==
  /\ e \in batch[w]
  /\ Goto(w, "choosing", "handling")
  /\ current' = [current EXCEPT ![w] = e]
  /\ UNCHANGED <<outbox, audit, batch, claimed, leased, budgets>>

EndOfBatch(w) ==
  /\ batch[w] = {}
  /\ Goto(w, "choosing", "idle")
  /\ Forget(w)
  /\ UNCHANGED <<outbox, audit, budgets>>

\* Mutant: SELECT from the inbox first, then insert.
ConsumeUnguarded(w) ==
  LET e == current[w] IN
  /\ phase[w] = "handling"
  /\ IF e \in inbox THEN Goto(w, "handling", "marking")
                    ELSE Goto(w, "handling", "consuming")
  /\ UNCHANGED <<outbox, audit, batch, claimed, current, leased, budgets>>

\* INSERT INTO consumer_inbox ... ON CONFLICT DO NOTHING waits for a
\* transaction that has inserted the same row and not ended.
Consume(w) ==
  LET e == current[w] IN
  /\ phase[w] = "handling"
  /\ \A v \in Workers \ {w} : ~(phase[v] = "consuming" /\ current[v] = e)
  /\ IF e \in inbox THEN Goto(w, "handling", "marking")
                    ELSE Goto(w, "handling", "consuming")
  /\ UNCHANGED <<outbox, audit, batch, claimed, current, leased, budgets>>

\* The inbox row and the effect row become visible together; the worker may
\* not learn of it.
CommitEffect(w, to) ==
  LET e == current[w] IN
  /\ Goto(w, "consuming", to)
  /\ inbox' = inbox \cup {e}
  /\ effects' = [effects EXCEPT ![e] = @ + 1]
  /\ UNCHANGED <<outbox, batch, claimed, current, leased, budgets>>

\* The handler throws, or markProcessed does.
HandlerFails(w) ==
  /\ phase[w] \in {"handling", "consuming", "marking"}
  /\ Goto(w, phase[w], "failing")
  /\ UNCHANGED <<outbox, audit, batch, claimed, current, leased, budgets>>

\* Mutant: the loop goes on with the same event.
DealtAgain(w) ==
  /\ Goto(w, phase[w], "choosing")
  /\ UNCHANGED <<audit, batch, claimed, current, leased, budgets>>

\* processEvent returns and the loop goes on.
Dealt(w) ==
  /\ Goto(w, phase[w], "choosing")
  /\ batch' = [batch EXCEPT ![w] = @ \ {current[w]}]
  /\ leased' = [leased EXCEPT ![w] = @ \ {current[w]}]
  /\ current' = [current EXCEPT ![w] = NoEvent]
  /\ UNCHANGED <<audit, claimed, budgets>>

\* UPDATE ... WHERE status = 'processing', which waits for a claim's row lock.
MarkProcessed(w) ==
  LET e == current[w] IN
  /\ phase[w] = "marking"
  /\ ~Locked(w, e)
  /\ status' = IF status[e] = "processing"
               THEN [status EXCEPT ![e] = "processed"] ELSE status
  /\ Dealt(w)
  /\ UNCHANGED <<attempts, due>>

\* The attempt that counts is the one the claim returned, not the row's.
Exhausted(w) == claimed[w][current[w]] >= MaxAttempts

\* Mutant: without "AND status = 'processing'".
MarkFailedAnyStatus(w) ==
  LET e == current[w] IN
  /\ phase[w] = "failing"
  /\ ~Locked(w, e)
  /\ status' = [status EXCEPT ![e] = "failed"]
  /\ due' = [due EXCEPT ![e] = IF Exhausted(w) THEN "never" ELSE "later"]
  /\ Dealt(w)
  /\ UNCHANGED attempts

MarkFailed(w) ==
  LET e == current[w] IN
  /\ phase[w] = "failing"
  /\ ~Locked(w, e)
  /\ \/ /\ status[e] = "processing"
        /\ status' = [status EXCEPT ![e] = "failed"]
        /\ due' = [due EXCEPT ![e] = IF Exhausted(w) THEN "never" ELSE "later"]
     \/ /\ status[e] # "processing"
        /\ UNCHANGED <<status, due>>
  /\ Dealt(w)
  /\ UNCHANGED attempts

\* markFailed throws inside the catch: the rest of the batch is abandoned.
MarkFailedThrows(w) ==
  /\ Goto(w, "failing", "idle")
  /\ Forget(w)
  /\ Fault
  /\ UNCHANGED <<outbox, audit>>

\* The process dies; its open transaction is rolled back.
Crash(w) ==
  /\ phase[w] # "idle"
  /\ Goto(w, phase[w], "idle")
  /\ Forget(w)
  /\ Fault
  /\ UNCHANGED <<outbox, audit>>

----------------------------------------------------------------------------
(* Time *)

Worked(e) == \E w \in Workers : e \in leased[w]

RunsOut(e) ==
  /\ due[e] = "later"
  /\ due' = [due EXCEPT ![e] = "now"]
  /\ UNCHANGED <<status, attempts, audit, phase, batch, claimed, current>>

\* A backoff ends, or the lease of a worker that is gone.
Elapse(e) ==
  /\ RunsOut(e)
  /\ status[e] = "processing" => ~Worked(e)
  /\ UNCHANGED <<leased, budgets>>

\* A lease ends under a worker that is still at work on its batch.
Overrun(e) ==
  /\ RunsOut(e)
  /\ status[e] = "processing" /\ Worked(e)
  /\ leased' = [w \in Workers |-> leased[w] \ {e}]
  /\ Fault

----------------------------------------------------------------------------
(* The operator: replay of parked events, retention *)

Parked(e) == status[e] = "failed" /\ due[e] = "never"

\* replay(id) and replayAllParked.
Replay(S) ==
  /\ S # {} /\ \A e \in S : Parked(e)
  /\ status' = [e \in Events |-> IF e \in S THEN "pending" ELSE status[e]]
  /\ attempts' = [e \in Events |-> IF e \in S THEN 0 ELSE attempts[e]]
  /\ due' = [e \in Events |-> IF e \in S THEN "now" ELSE due[e]]
  /\ replays < MaxReplays
  /\ replays' = replays + 1
  /\ UNCHANGED <<audit, worker, faults>>

\* purgeProcessedBefore: processed rows only; the inbox is never swept.
Purge(e) ==
  /\ status[e] = "processed"
  /\ status' = [status EXCEPT ![e] = "purged"]
  /\ UNCHANGED <<attempts, due, audit, worker, budgets>>

----------------------------------------------------------------------------
WorkerStep(w) ==
  \/ Claim(w)
  \/ CommitClaim(w)
  \/ \E e \in Events : Choose(w, e)
  \/ EndOfBatch(w)
  \/ Consume(w)
  \/ CommitEffect(w, "marking")
  \/ CommitEffect(w, "failing")
  \/ HandlerFails(w)
  \/ MarkProcessed(w)
  \/ MarkFailed(w)

Next ==
  \/ \E e \in Events : Create(e) \/ Elapse(e) \/ Overrun(e) \/ Purge(e)
  \/ \E w \in Workers :
       WorkerStep(w) \/ AbortClaim(w) \/ MarkFailedThrows(w) \/ Crash(w)
  \/ \E S \in {{e} : e \in Events} \cup {{e \in Events : Parked(e)}} : Replay(S)

Spec == Init /\ [][Next]_vars

\* The poll timer re-arms itself and a poll runs to its end; time passes.
\* Nothing obliges an operator to replay or purge, nor a worker to fail.
FairSpec ==
  /\ Spec
  /\ \A w \in Workers : WF_vars(WorkerStep(w))
  /\ \A e \in Events : WF_vars(Elapse(e))

----------------------------------------------------------------------------
(* Properties *)

\* Rows, the consumer's tables and the workers' batches are of their kind, and
\* a worker handles an event of its batch exactly while it is in its handler.
TypeOK ==
  /\ status \in [Events -> Statuses]
  /\ attempts \in [Events -> Nat]
  /\ due \in [Events -> {"now", "later", "never"}]
  /\ inbox \subseteq Events
  /\ effects \in [Events -> Nat]
  /\ phase \in [Workers -> Phases]
  /\ batch \in [Workers -> SUBSET Events]
  /\ claimed \in [Workers -> [Events -> Nat]]
  /\ current \in [Workers -> Events \cup {NoEvent}]
  /\ leased \in [Workers -> SUBSET Events]
  /\ \A w \in Workers :
       /\ phase[w] \in InHandler => current[w] \in batch[w]
       /\ phase[w] \notin InHandler => current[w] = NoEvent
  /\ faults \in 0..MaxFaults
  /\ replays \in 0..MaxReplays

\* However often an event is delivered - a lease overrun, a crash before
\* markProcessed, a replay, a redelivery after its row was swept - the audit
\* trail records it once.
OneEffect == \A e \in Events : effects[e] = IF e \in inbox THEN 1 ELSE 0

\* No committed event is lost: a row that no worker will ever look at again
\* has had its effect, unless it is parked for a human.
NothingLost ==
  \A e \in Events : status[e] \in {"processed", "purged"} => e \in inbox

\* Two workers are never inside the claim of the same row.
ClaimsAreDisjoint ==
  \A v, w \in Workers :
    v # w /\ phase[v] = "claiming" /\ phase[w] = "claiming"
      => batch[v] \cap batch[w] = {}

\* What the operator would say of an event.
Stage(e) ==
  CASE status[e] = "absent" -> "none"
    [] status[e] \in {"processed", "purged"} -> "done"
    [] status[e] \in {"pending", "processing"} -> "owed"
    [] status[e] = "failed" -> IF due[e] = "never" THEN "parked" ELSE "owed"

Abstract == INSTANCE Delivery WITH
  state   <- [e \in Events |-> Stage(e)],
  applied <- inbox

\* The worker, the consumer and the operator together implement Delivery.
ImplementsDelivery == Abstract!Spec

\* Every committed event is delivered, or parked where an operator sees it:
\* failures are bounded by the attempts, and no lease keeps a row for ever.
EventuallyDelivered ==
  \A e \in Events :
    status[e] # "absent" ~> status[e] \in {"processed", "purged"} \/ Parked(e)

----------------------------------------------------------------------------
(* A statement of the documentation that the code does not keep *)

\* README.md: a claim is held for OUTBOX_CLAIM_LEASE_SECONDS "before another
\* worker may reclaim it": two running leases never cover one event.
LeaseIsExclusive ==
  \A v, w \in Workers : v # w => leased[v] \cap leased[w] = {}
=============================================================================
