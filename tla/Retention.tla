----------------------------- MODULE Retention -----------------------------
(***************************************************************************)
(* The retention sweep (retention-cli.ts): finished rows of outbox_events, *)
(* then of idempotency_records, deleted in batches until a batch comes     *)
(* back short.  Several sweeps may run at once, beside the traffic that    *)
(* finishes rows: each DELETE picks its rows from a snapshot, waits for    *)
(* the rows another DELETE holds, and skips those that are gone.           *)
(***************************************************************************)
EXTENDS Integers, FiniteSets

CONSTANTS
  OutboxRows, IdempotencyRows,
  Sweepers,
  BatchSize,
  Days,   \* [Sweepers -> Nat \ {0}], how long finished rows are kept
  DryRun, \* sweepers called with --dry-run
  MaxDay  \* bounds the clock

ASSUME RetentionAssumption ==
  /\ BatchSize \in Nat \ {0} /\ MaxDay \in Nat
  /\ Days \in [Sweepers -> Nat \ {0}] /\ DryRun \subseteq Sweepers
  /\ IsFiniteSet(OutboxRows) /\ IsFiniteSet(IdempotencyRows)
  /\ OutboxRows \cap IdempotencyRows = {}

Rows == OutboxRows \cup IdempotencyRows

Unfinished == -1

VARIABLES
  day,
  present,  \* rows there are
  finished, \* [Rows -> processed_at or completed_at, or Unfinished]
  sweep,    \* the sweepers
  gone      \* history: [Sweepers -> the rows it deleted]

retentionVars == <<day, present, finished, sweep, gone>>

\* due and raced are history: what was due at the start, and whether a batch
\* that ended the sweep of a table was short because of another sweep.
NotSweeping == [at |-> "idle", cutoff |-> Unfinished, picked |-> {}, removed |-> 0,
                due |-> {}, raced |-> FALSE]

RetentionInit ==
  /\ day = 0 /\ present = Rows
  /\ finished \in [Rows -> {Unfinished, 0}]
  /\ sweep = [s \in Sweepers |-> NotSweeping] /\ gone = [s \in Sweepers |-> {}]

NextDay == day < MaxDay /\ day' = day + 1 /\ UNCHANGED <<present, finished, sweep, gone>>

\* External: an event is processed, a request completed.
Finish(r) ==
  /\ r \in present /\ finished[r] = Unfinished
  /\ finished' = [finished EXCEPT ![r] = day]
  /\ UNCHANGED <<day, present, sweep, gone>>

\* status = 'processed' AND processed_at < $1, and the same of the records
Eligible(r, cutoff) == finished[r] # Unfinished /\ finished[r] < cutoff

StartSweep(s) ==
  /\ sweep[s].at = "idle"
  /\ LET cutoff == day - Days[s]
     IN  sweep' = [sweep EXCEPT ![s].cutoff = cutoff,
                                ![s].due = {r \in present : Eligible(r, cutoff)},
                                ![s].at = IF s \in DryRun THEN "counting" ELSE "outbox"]
  /\ UNCHANGED <<day, present, finished, gone>>

\* --dry-run counts with the same predicates and deletes nothing.
Preview(s) ==
  /\ sweep[s].at = "counting"
  /\ sweep' = [sweep EXCEPT ![s].at = "previewed",
                 ![s].removed = Cardinality({r \in present : Eligible(r, sweep[s].cutoff)})]
  /\ UNCHANGED <<day, present, finished, gone>>

Table(s) == IF sweep[s].at \in {"outbox", "deleting outbox"} THEN OutboxRows ELSE IdempotencyRows

\* ORDER BY processed_at LIMIT batchSize; rows of one time in any order.
Batches(S) ==
  {B \in SUBSET S :
     /\ Cardinality(B) = IF Cardinality(S) < BatchSize THEN Cardinality(S) ELSE BatchSize
     /\ \A i \in B, j \in S \ B : finished[i] <= finished[j]}

Pick(s) ==
  /\ sweep[s].at \in {"outbox", "idempotency"}
  /\ \E B \in Batches({r \in present \cap Table(s) : Eligible(r, sweep[s].cutoff)}) :
       sweep' = [sweep EXCEPT ![s].picked = B,
                   ![s].at = IF @ = "outbox" THEN "deleting outbox" ELSE "deleting records"]
  /\ UNCHANGED <<day, present, finished, gone>>

\* Mutant: the loop left after one full batch.
NotBeyondBatch(deleted, picked) == Cardinality(deleted) <= BatchSize

\* if (deleted < batchSize) return removed
Short(deleted, picked) == Cardinality(deleted) < BatchSize

Delete(s) ==
  /\ sweep[s].at \in {"deleting outbox", "deleting records"}
  /\ LET picked  == sweep[s].picked
         deleted == picked \cap present
     IN  /\ present' = present \ deleted
         /\ gone' = [gone EXCEPT ![s] = @ \cup deleted]
         /\ sweep' = [sweep EXCEPT
              ![s].removed = @ + Cardinality(deleted),
              ![s].picked = {},
              ![s].raced = @ \/ (Short(deleted, picked) /\ deleted # picked),
              ![s].at = CASE @ = "deleting outbox" ->
                               IF Short(deleted, picked) THEN "idempotency" ELSE "outbox"
                          [] @ = "deleting records" ->
                               IF Short(deleted, picked) THEN "done" ELSE "idempotency"]
  /\ UNCHANGED <<day, finished>>

\* The statement fails, or the operator interrupts the sweep.
SweepFails(s) ==
  /\ sweep[s].at \notin {"idle", "done", "previewed", "failed"}
  /\ sweep' = [sweep EXCEPT ![s].at = "failed", ![s].picked = {}]
  /\ UNCHANGED <<day, present, finished, gone>>

RetentionNext ==
  \/ NextDay
  \/ \E r \in Rows : Finish(r)
  \/ \E s \in Sweepers : StartSweep(s) \/ Preview(s) \/ Pick(s) \/ Delete(s) \/ SweepFails(s)

RetentionSpec == RetentionInit /\ [][RetentionNext]_retentionVars

----------------------------------------------------------------------------
(* Properties *)

RetentionTypeOK ==
  /\ day \in 0..MaxDay
  /\ present \subseteq Rows /\ gone \in [Sweepers -> SUBSET Rows]
  /\ finished \in [Rows -> -1..MaxDay]
  /\ \A s \in Sweepers : sweep[s].picked \subseteq Rows /\ sweep[s].due \subseteq Rows

\* Each row that is no longer there is counted by the sweep that deleted it
\* and by no other, however their batches overlap.
RemovedCountedOnce ==
  /\ \A s \in Sweepers \ DryRun : sweep[s].removed = Cardinality(gone[s])
  /\ \A r \in Rows \ present : \E s \in Sweepers : r \in gone[s]
  /\ \A s, t \in Sweepers : s # t => gone[s] \cap gone[t] = {}

\* A sweep deletes what was due when it started: no row that was finished, or
\* that came of age, while its batches went on, and nothing at all when dry.
OnlyDueIsRemoved ==
  \A s \in Sweepers : gone[s] \subseteq IF s \in DryRun THEN {} ELSE sweep[s].due

\* A sweep stops at its first short batch.  Unless another sweep took rows of
\* that batch, it then leaves nothing that was due, in either table.
NothingDueIsLeft ==
  \A s \in Sweepers :
    sweep[s].at = "done" /\ ~sweep[s].raced => sweep[s].due \cap present = {}

\* However the sweeps share the rows between them, they remove what is due,
\* all of it unless they got in each other's way, and count what they removed.
SweepsAreExact == RemovedCountedOnce /\ OnlyDueIsRemoved /\ NothingDueIsLeft
=============================================================================
