---------------------------- MODULE OutboxProofs ----------------------------
(***************************************************************************)
(* Proofs about Outbox, for any number of events, workers, attempts,       *)
(* faults and replays.                                                     *)
(*                                                                         *)
(* The argument: a row that a claim has locked is not changed before the   *)
(* claim commits (Locks, ClaimsAreDisjoint), so a claim never takes a row  *)
(* back that is done; of all the workers that handle an event only one can *)
(* be inserting its inbox row, and only while there is none (Deliveries),  *)
(* so the effect is recorded once; and a row is marked processed only by a *)
(* worker that saw its inbox row, so nothing is lost.                      *)
(***************************************************************************)
EXTENDS Outbox, TLAPS

\* A row that an uncommitted claim holds is as the claim found it.
Locks ==
  \A w \in Workers : phase[w] = "claiming" =>
    \A e \in batch[w] :
      status[e] \in {"pending", "failed", "processing"} /\ due[e] = "now"

\* Events in the hands of the workers exist; inbox rows are inserted by one
\* worker at a time; who marks an event has seen its inbox row.
Deliveries ==
  \A w \in Workers :
    /\ \A e \in batch[w] : status[e] # "absent"
    /\ phase[w] = "consuming" =>
         /\ current[w] \notin inbox
         /\ \A v \in Workers \ {w} :
              phase[v] = "consuming" => current[v] # current[w]
    /\ phase[w] = "marking" => current[w] \in inbox

IInv ==
  /\ TypeOK
  /\ ClaimsAreDisjoint
  /\ Locks
  /\ Deliveries
  /\ OneEffect
  /\ NothingLost

----------------------------------------------------------------------------
\* The invariant holds when the outbox is empty and every worker idle.
LEMMA InitIInv == Init => IInv
<1>. SUFFICES ASSUME Init PROVE IInv
  OBVIOUS
<1>. USE OutboxAssumption DEF Init
<1>1. TypeOK
  BY DEF TypeOK, Statuses, Phases, InHandler
<1>2. ClaimsAreDisjoint /\ Locks
  BY DEF ClaimsAreDisjoint, Locks
<1>3. Deliveries /\ OneEffect /\ NothingLost
  BY DEF Deliveries, OneEffect, NothingLost
<1>. QED BY <1>1, <1>2, <1>3 DEF IInv

----------------------------------------------------------------------------
(* Types *)

\* What the steps need of the types of the tables.
Tables ==
  /\ status \in [Events -> Statuses]
  /\ attempts \in [Events -> Nat]
  /\ due \in [Events -> {"now", "later", "never"}]
  /\ inbox \subseteq Events
  /\ effects \in [Events -> Nat]
  /\ faults \in 0..MaxFaults
  /\ replays \in 0..MaxReplays

\* And of the types of the workers.
WorkersOK ==
  /\ phase \in [Workers -> Phases]
  /\ batch \in [Workers -> SUBSET Events]
  /\ claimed \in [Workers -> [Events -> Nat]]
  /\ current \in [Workers -> Events \cup {NoEvent}]
  /\ leased \in [Workers -> SUBSET Events]
  /\ \A w \in Workers :
       /\ phase[w] \in InHandler => current[w] \in batch[w]
       /\ phase[w] \notin InHandler => current[w] = NoEvent

\* The two together are the type invariant.
LEMMA TwoTypes == TypeOK <=> Tables /\ WorkersOK
BY DEF TypeOK, Tables, WorkersOK

\* A fault is counted within its bound.
LEMMA FaultType ==
  ASSUME Tables, Fault
  PROVE  faults' \in 0..MaxFaults /\ replays' \in 0..MaxReplays
BY OutboxAssumption DEF Tables, Fault

\* Every step keeps the types of the tables.
LEMMA TablesStep ==
  ASSUME TypeOK, [Next]_vars
  PROVE  Tables'
<1>. USE TwoTypes, FaultType DEF outbox, audit, worker, budgets
<1>0. Tables
  BY TwoTypes
<1>1. ASSUME NEW e \in Events, Create(e) \/ Purge(e)
      PROVE  Tables'
  BY <1>0, <1>1 DEF Tables, Create, Purge, Statuses
<1>2. ASSUME NEW e \in Events, Elapse(e)
      PROVE  Tables'
  BY <1>0, <1>2 DEF Tables, Elapse, RunsOut
<1>3. ASSUME NEW e \in Events, Overrun(e)
      PROVE  Tables'
  BY <1>0, <1>3 DEF Tables, Overrun, RunsOut
<1>4. ASSUME NEW S \in SUBSET Events, Replay(S)
      PROVE  Tables'
  <2>1. status' \in [Events -> Statuses]
    BY <1>0, <1>4 DEF Tables, Replay, Statuses
  <2>2. attempts' \in [Events -> Nat] /\ due' \in [Events -> {"now", "later", "never"}]
    BY <1>0, <1>4 DEF Tables, Replay
  <2>3. replays' \in 0..MaxReplays
    BY <1>0, <1>4, OutboxAssumption DEF Tables, Replay
  <2>. QED BY <1>0, <1>4, <2>1, <2>2, <2>3 DEF Tables, Replay
<1>5. ASSUME NEW w \in Workers,
             \/ Claim(w) \/ EndOfBatch(w) \/ Consume(w) \/ HandlerFails(w)
             \/ \E e \in Events : Choose(w, e)
      PROVE  Tables'
  BY <1>0, <1>5 DEF Tables, Claim, EndOfBatch, Consume, HandlerFails, Choose
<1>6. ASSUME NEW w \in Workers, AbortClaim(w) \/ MarkFailedThrows(w) \/ Crash(w)
      PROVE  Tables'
  BY <1>0, <1>6 DEF Tables, AbortClaim, MarkFailedThrows, Crash
<1>7. ASSUME NEW w \in Workers, CommitClaim(w)
      PROVE  Tables'
  BY <1>0, <1>7 DEF Tables, CommitClaim, Statuses
<1>8. ASSUME NEW w \in Workers, NEW to, CommitEffect(w, to)
      PROVE  Tables'
  <2>1. current[w] \in Events
    BY <1>8 DEF CommitEffect, Goto, TypeOK, InHandler
  <2>. QED BY <1>0, <1>8, <2>1 DEF Tables, CommitEffect
<1>9. ASSUME NEW w \in Workers, MarkProcessed(w)
      PROVE  Tables'
  BY <1>0, <1>9 DEF Tables, MarkProcessed, Dealt, Statuses
<1>10. ASSUME NEW w \in Workers, MarkFailed(w)
       PROVE  Tables'
  <2>1. due' \in [Events -> {"now", "later", "never"}]
    BY <1>0, <1>10 DEF Tables, MarkFailed
  <2>. QED BY <1>0, <1>10, <2>1 DEF Tables, MarkFailed, Dealt, Statuses
<1>11. CASE UNCHANGED vars
  BY <1>0, <1>11 DEF Tables, vars
<1>12. \A S \in {{e} : e \in Events} \cup {{e \in Events : Parked(e)}} : S \in SUBSET Events
  OBVIOUS
<1>. QED
  BY <1>1, <1>2, <1>3, <1>4, <1>5, <1>6, <1>7, <1>8, <1>9, <1>10, <1>11, <1>12
  DEF Next, WorkerStep

\* A worker that forgets its batch is a worker between polls.
LEMMA ForgetType ==
  ASSUME WorkersOK, NEW w \in Workers, NEW from, Goto(w, from, "idle"), Forget(w)
  PROVE  WorkersOK'
BY DEF WorkersOK, Goto, Forget, Phases, InHandler

\* A worker that has dealt with an event goes on with the rest of its batch.
LEMMA DealtType ==
  ASSUME WorkersOK, NEW w \in Workers, Dealt(w)
  PROVE  WorkersOK'
BY DEF WorkersOK, Dealt, Goto, Phases, InHandler

\* Every step keeps the types of the workers.
LEMMA WorkersStep ==
  ASSUME TypeOK, [Next]_vars
  PROVE  WorkersOK'
<1>. USE TwoTypes, OutboxAssumption DEF worker, Goto, InHandler, Phases
<1>0. WorkersOK /\ Tables
  BY TwoTypes
<1>1. ASSUME NEW e \in Events, Create(e) \/ Purge(e) \/ Elapse(e)
      PROVE  WorkersOK'
  BY <1>0, <1>1 DEF WorkersOK, Create, Purge, Elapse, RunsOut
<1>2. ASSUME NEW e \in Events, Overrun(e)
      PROVE  WorkersOK'
  BY <1>0, <1>2 DEF WorkersOK, Overrun, RunsOut
<1>3. ASSUME NEW S \in SUBSET Events, Replay(S)
      PROVE  WorkersOK'
  BY <1>0, <1>3 DEF WorkersOK, Replay
<1>4. ASSUME NEW w \in Workers, Claim(w)
      PROVE  WorkersOK'
  <2>1. First(Eligible(w)) \in SUBSET Events
    BY DEF First, Eligible
  <2>. QED BY <1>0, <1>4, <2>1 DEF WorkersOK, Claim
<1>5. ASSUME NEW w \in Workers, CommitClaim(w)
      PROVE  WorkersOK'
  <2>1. [e \in Events |-> IF e \in batch[w] THEN attempts[e] + 1 ELSE 0] \in [Events -> Nat]
    BY <1>0 DEF Tables
  <2>. QED BY <1>0, <1>5, <2>1 DEF WorkersOK, CommitClaim
<1>6. ASSUME NEW w \in Workers, NEW e \in Events, Choose(w, e)
      PROVE  WorkersOK'
  BY <1>0, <1>6 DEF WorkersOK, Choose
<1>7. ASSUME NEW w \in Workers,
             AbortClaim(w) \/ EndOfBatch(w) \/ MarkFailedThrows(w) \/ Crash(w)
      PROVE  WorkersOK'
  BY <1>0, <1>7, ForgetType DEF AbortClaim, EndOfBatch, MarkFailedThrows, Crash
<1>8. ASSUME NEW w \in Workers, Consume(w) \/ HandlerFails(w)
      PROVE  WorkersOK'
  BY <1>0, <1>8 DEF WorkersOK, Consume, HandlerFails
<1>9. ASSUME NEW w \in Workers, NEW to \in {"marking", "failing"}, CommitEffect(w, to)
      PROVE  WorkersOK'
  BY <1>0, <1>9 DEF WorkersOK, CommitEffect
<1>10. ASSUME NEW w \in Workers, MarkProcessed(w) \/ MarkFailed(w)
       PROVE  WorkersOK'
  BY <1>0, <1>10, DealtType DEF MarkProcessed, MarkFailed
<1>11. CASE UNCHANGED vars
  BY <1>0, <1>11 DEF WorkersOK, vars
<1>12. \A S \in {{e} : e \in Events} \cup {{e \in Events : Parked(e)}} : S \in SUBSET Events
  OBVIOUS
<1>. QED
  BY <1>1, <1>2, <1>3, <1>4, <1>5, <1>6, <1>7, <1>8, <1>9, <1>10, <1>11, <1>12
  DEF Next, WorkerStep

----------------------------------------------------------------------------
(* The steps *)

\* The steps of a worker that write to no table.
Idle(w) ==
  \/ AbortClaim(w) \/ EndOfBatch(w) \/ Consume(w) \/ HandlerFails(w)
  \/ \E e \in Events : Choose(w, e)
  \/ MarkFailedThrows(w) \/ Crash(w)

\* They leave everybody else's state alone and take no lock.
LEMMA IdleStep ==
  ASSUME TypeOK, NEW w \in Workers, Idle(w)
  PROVE  /\ UNCHANGED <<status, attempts, due, inbox, effects>>
         /\ phase'[w] # "claiming"
         /\ batch'[w] \subseteq batch[w]
         /\ \A v \in Workers \ {w} :
              phase'[v] = phase[v] /\ batch'[v] = batch[v] /\ current'[v] = current[v]
<1>. USE DEF TypeOK, outbox, audit, Goto
<1>1. CASE AbortClaim(w) \/ EndOfBatch(w) \/ MarkFailedThrows(w) \/ Crash(w)
  BY <1>1 DEF AbortClaim, EndOfBatch, MarkFailedThrows, Crash, Forget
<1>2. CASE Consume(w) \/ HandlerFails(w)
  BY <1>2 DEF Consume, HandlerFails
<1>3. CASE \E e \in Events : Choose(w, e)
  BY <1>3 DEF Choose
<1>. QED BY <1>1, <1>2, <1>3 DEF Idle

\* The steps of payments, of time and of the operator.
Outside ==
  \/ \E e \in Events : Create(e) \/ Elapse(e) \/ Overrun(e) \/ Purge(e)
  \/ \E S \in SUBSET Events : Replay(S)

\* The steps, by what they do to the tables.
LEMMA StepKinds ==
  ASSUME [Next]_vars
  PROVE  \/ Outside
         \/ \E w \in Workers :
              \/ Idle(w) \/ Claim(w) \/ CommitClaim(w)
              \/ \E to \in {"marking", "failing"} : CommitEffect(w, to)
              \/ MarkProcessed(w) \/ MarkFailed(w)
         \/ UNCHANGED vars
<1>1. \A S \in {{e} : e \in Events} \cup {{e \in Events : Parked(e)}} : S \in SUBSET Events
  OBVIOUS
<1>. QED BY <1>1 DEF Next, WorkerStep, Outside, Idle

\* What time and the operator do to the rows.
LEMMA OutsideStep ==
  ASSUME TypeOK, Outside, NEW e \in Events
  PROVE  /\ UNCHANGED <<inbox, effects, phase, batch, current>>
         /\ status[e] # "absent" => status'[e] # "absent"
         /\ status'[e] \in {"processed", "purged"} => status[e] \in {"processed", "purged"}
         /\ status[e] \in {"pending", "failed", "processing"} /\ due[e] = "now"
              => status'[e] = status[e] /\ due'[e] = due[e]
<1>. USE DEF TypeOK, outbox, audit, worker
<1>1. CASE \E f \in Events : Create(f) \/ Purge(f)
  BY <1>1 DEF Create, Purge
<1>2. CASE \E f \in Events : Elapse(f) \/ Overrun(f)
  BY <1>2 DEF Elapse, Overrun, RunsOut
<1>3. CASE \E S \in SUBSET Events : Replay(S)
  <2>1. PICK S \in SUBSET Events : Replay(S)
    BY <1>3
  <2>2. e \in S => status[e] = "failed" /\ due[e] = "never"
    BY <2>1 DEF Replay, Parked
  <2>. QED BY <2>1, <2>2 DEF Replay
<1>. QED BY <1>1, <1>2, <1>3 DEF Outside

\* Claims skip rows that other claims have locked.
LEMMA DisjointStep ==
  ASSUME TypeOK, ClaimsAreDisjoint, [Next]_vars
  PROVE  ClaimsAreDisjoint'
<1>. USE DEF TypeOK, outbox, audit, Goto
<1>1. CASE Outside
  <2>1. CASE Events = {}
    <3>1. \A w \in Workers : batch'[w] = {}
      BY <2>1, WorkersStep DEF WorkersOK
    <3>. QED BY <3>1 DEF ClaimsAreDisjoint
  <2>2. CASE Events # {}
    <3>1. phase' = phase /\ batch' = batch
      BY <1>1, <2>2, OutsideStep
    <3>. QED BY <3>1 DEF ClaimsAreDisjoint
  <2>. QED BY <2>1, <2>2
<1>2. ASSUME NEW w \in Workers, Idle(w)
      PROVE  ClaimsAreDisjoint'
  BY <1>2, IdleStep DEF ClaimsAreDisjoint
<1>3. ASSUME NEW w \in Workers, Claim(w)
      PROVE  ClaimsAreDisjoint'
  <2>1. \A v \in Workers \ {w} : /\ phase'[v] = phase[v] /\ batch'[v] = batch[v]
                                 /\ phase[v] = "claiming" => batch'[w] \cap batch[v] = {}
    BY <1>3 DEF Claim, First, Eligible, Locked
  <2>. QED BY <2>1 DEF ClaimsAreDisjoint
<1>4. ASSUME NEW w \in Workers, CommitClaim(w)
      PROVE  ClaimsAreDisjoint'
  BY <1>4 DEF CommitClaim, ClaimsAreDisjoint
<1>5. ASSUME NEW w \in Workers, NEW to \in {"marking", "failing"}, CommitEffect(w, to)
      PROVE  ClaimsAreDisjoint'
  BY <1>5 DEF CommitEffect, ClaimsAreDisjoint
<1>6. ASSUME NEW w \in Workers, MarkProcessed(w) \/ MarkFailed(w)
      PROVE  ClaimsAreDisjoint'
  <2>1. \E x : phase' = [phase EXCEPT ![w] = "choosing"] /\ batch' = [batch EXCEPT ![w] = x]
    BY <1>6 DEF MarkProcessed, MarkFailed, Dealt, Goto
  <2>2. /\ phase'[w] # "claiming"
        /\ \A v \in Workers \ {w} : phase'[v] = phase[v] /\ batch'[v] = batch[v]
    BY <2>1
  <2>. QED BY <2>2 DEF ClaimsAreDisjoint
<1>7. CASE UNCHANGED vars
  BY <1>7 DEF vars, worker, ClaimsAreDisjoint
<1>. QED BY <1>1, <1>2, <1>3, <1>4, <1>5, <1>6, <1>7, StepKinds

\* A locked row stays as it is until its claim commits.
LEMMA LocksStep ==
  ASSUME TypeOK, ClaimsAreDisjoint, Locks, [Next]_vars
  PROVE  Locks'
<1>. SUFFICES ASSUME NEW v \in Workers, phase'[v] = "claiming", NEW e \in batch'[v]
              PROVE  status'[e] \in {"pending", "failed", "processing"} /\ due'[e] = "now"
  BY DEF Locks
<1>. DEFINE P == status'[e] \in {"pending", "failed", "processing"} /\ due'[e] = "now"
<1>. USE DEF TypeOK, outbox, audit, Goto
<1>0. e \in Events
  BY WorkersStep DEF WorkersOK
<1>1. CASE Outside
  BY <1>0, <1>1, OutsideStep DEF Locks
<1>2. ASSUME NEW w \in Workers, Idle(w)
      PROVE  P
  BY <1>2, IdleStep DEF Locks
<1>3. ASSUME NEW w \in Workers, Claim(w)
      PROVE  P
  <2>1. CASE v = w
    BY <1>3, <2>1 DEF Claim, First, Eligible
  <2>2. CASE v # w
    BY <1>3, <2>2 DEF Claim, Locks
  <2>. QED BY <2>1, <2>2
<1>4. ASSUME NEW w \in Workers, CommitClaim(w)
      PROVE  P
  <2>1. v # w /\ phase[v] = "claiming" /\ e \in batch[v] /\ phase[w] = "claiming"
    BY <1>4 DEF CommitClaim
  <2>2. e \notin batch[w]
    BY <2>1 DEF ClaimsAreDisjoint
  <2>. QED BY <1>0, <1>4, <2>1, <2>2 DEF CommitClaim, Locks
<1>5. ASSUME NEW w \in Workers, NEW to \in {"marking", "failing"}, CommitEffect(w, to)
      PROVE  P
  BY <1>5 DEF CommitEffect, Locks
<1>6. ASSUME NEW w \in Workers, MarkProcessed(w) \/ MarkFailed(w)
      PROVE  P
  <2>1. ~Locked(w, current[w])
    BY <1>6 DEF MarkProcessed, MarkFailed
  <2>2. v # w /\ phase[v] = "claiming" /\ e \in batch[v]
    BY <1>6 DEF MarkProcessed, MarkFailed, Dealt
  <2>3. e # current[w]
    BY <2>1, <2>2 DEF Locked
  <2>. QED BY <1>6, <2>2, <2>3 DEF MarkProcessed, MarkFailed, Locks
<1>7. CASE UNCHANGED vars
  BY <1>7 DEF vars, worker, Locks
<1>. QED BY <1>1, <1>2, <1>3, <1>4, <1>5, <1>6, <1>7, StepKinds

\* Inbox rows are inserted one at a time, and a worker marks what it saw done.
LEMMA DeliveriesStep ==
  ASSUME TypeOK, Locks, Deliveries, [Next]_vars
  PROVE  Deliveries'
<1>. SUFFICES ASSUME NEW v \in Workers
              PROVE  /\ \A e \in batch'[v] : status'[e] # "absent"
                     /\ phase'[v] = "consuming" =>
                          /\ current'[v] \notin inbox'
                          /\ \A u \in Workers \ {v} :
                               phase'[u] = "consuming" => current'[u] # current'[v]
                     /\ phase'[v] = "marking" => current'[v] \in inbox'
  BY DEF Deliveries
<1>. DEFINE P == /\ \A e \in batch'[v] : status'[e] # "absent"
                 /\ phase'[v] = "consuming" =>
                      /\ current'[v] \notin inbox'
                      /\ \A u \in Workers \ {v} :
                           phase'[u] = "consuming" => current'[u] # current'[v]
                 /\ phase'[v] = "marking" => current'[v] \in inbox'
<1>. USE DEF outbox, audit, Goto
<1>0. WorkersOK' /\ batch'[v] \subseteq Events
  BY WorkersStep DEF WorkersOK
<1>1. CASE Outside
  <2>1. \A e \in batch[v] : status'[e] # "absent"
    BY <1>1, OutsideStep DEF Deliveries, TypeOK
  <2>2. CASE Events # {}
    <3>1. UNCHANGED <<inbox, phase, batch, current>>
      BY <1>1, <2>2, OutsideStep
    <3>. QED BY <2>1, <3>1 DEF Deliveries
  <2>3. CASE Events = {}
    BY <1>0, <2>3 DEF WorkersOK, InHandler
  <2>. QED BY <2>2, <2>3
<1>2. ASSUME NEW w \in Workers, Consume(w)
      PROVE  P
  <2>1. UNCHANGED <<batch, status, inbox, current>> /\ phase[w] = "handling"
          /\ \A u \in Workers \ {w} : /\ phase'[u] = phase[u]
                                      /\ phase[u] = "consuming" => current[u] # current[w]
    BY <1>2 DEF Consume, TypeOK
  <2>2. phase'[w] = IF current[w] \in inbox THEN "marking" ELSE "consuming"
    BY <1>2 DEF Consume, TypeOK
  <2>. QED BY <2>1, <2>2 DEF Deliveries
<1>3. ASSUME NEW w \in Workers, Idle(w), ~Consume(w)
      PROVE  P
  <2>1. phase'[w] \notin {"consuming", "marking"}
    BY <1>3 DEF Idle, AbortClaim, EndOfBatch, HandlerFails, Choose, MarkFailedThrows,
                Crash, TypeOK
  <2>. QED BY <1>3, <2>1, IdleStep DEF Deliveries
<1>4. ASSUME NEW w \in Workers, Claim(w)
      PROVE  P
  <2>1. \A e \in batch'[w] : status[e] # "absent"
    BY <1>4 DEF Claim, First, Eligible, TypeOK
  <2>2. phase'[w] = "claiming" /\ UNCHANGED <<status, inbox, current>>
          /\ \A u \in Workers \ {w} : phase'[u] = phase[u] /\ batch'[u] = batch[u]
    BY <1>4 DEF Claim, TypeOK
  <2>. QED BY <2>1, <2>2 DEF Deliveries
<1>5. ASSUME NEW w \in Workers, CommitClaim(w)
      PROVE  P
  <2>1. \A e \in Events : status[e] # "absent" => status'[e] # "absent"
    BY <1>5 DEF CommitClaim
  <2>2. phase'[w] = "choosing" /\ UNCHANGED <<batch, inbox, current>>
          /\ \A u \in Workers \ {w} : phase'[u] = phase[u]
    BY <1>5 DEF CommitClaim, TypeOK
  <2>. QED BY <1>0, <2>1, <2>2 DEF Deliveries
<1>6. ASSUME NEW w \in Workers, NEW to \in {"marking", "failing"}, CommitEffect(w, to)
      PROVE  P
  <2>1. phase[w] = "consuming" /\ phase'[w] = to /\ UNCHANGED <<batch, status, current>>
          /\ inbox' = inbox \cup {current[w]}
          /\ \A u \in Workers \ {w} : phase'[u] = phase[u]
    BY <1>6 DEF CommitEffect, TypeOK
  <2>. QED BY <2>1 DEF Deliveries
<1>7. ASSUME NEW w \in Workers, MarkProcessed(w) \/ MarkFailed(w)
      PROVE  P
  <2>1. /\ phase'[w] = "choosing" /\ batch'[w] \subseteq batch[w] /\ inbox' = inbox
        /\ \A u \in Workers \ {w} : /\ phase'[u] = phase[u] /\ batch'[u] = batch[u]
                                    /\ current'[u] = current[u]
    BY <1>7 DEF MarkProcessed, MarkFailed, Dealt, TypeOK
  <2>2. \A e \in Events : status[e] # "absent" => status'[e] # "absent"
    BY <1>7 DEF MarkProcessed, MarkFailed, TypeOK
  <2>. QED BY <1>0, <2>1, <2>2 DEF Deliveries
<1>8. CASE UNCHANGED vars
  BY <1>8 DEF vars, worker, Deliveries
<1>. QED BY <1>1, <1>2, <1>3, <1>4, <1>5, <1>6, <1>7, <1>8, StepKinds

\* What workers do to the audit tables: nothing, but for one committed effect.
LEMMA AuditStep ==
  ASSUME TypeOK, [Next]_vars
  PROVE  \/ Events = {}
         \/ UNCHANGED <<inbox, effects>>
         \/ \E w \in Workers : /\ phase[w] = "consuming" /\ current[w] \in Events
                               /\ inbox' = inbox \cup {current[w]}
                              /\ effects' = [effects EXCEPT ![current[w]] = @ + 1]
<1>1. ASSUME NEW w \in Workers, NEW to \in {"marking", "failing"}, CommitEffect(w, to)
      PROVE  /\ phase[w] = "consuming" /\ current[w] \in Events
             /\ inbox' = inbox \cup {current[w]}
             /\ effects' = [effects EXCEPT ![current[w]] = @ + 1]
  BY <1>1 DEF CommitEffect, Goto, TypeOK, InHandler
<1>2. ASSUME NEW w \in Workers,
             Claim(w) \/ CommitClaim(w) \/ MarkProcessed(w) \/ MarkFailed(w)
      PROVE  UNCHANGED <<inbox, effects>>
  BY <1>2 DEF Claim, CommitClaim, MarkProcessed, MarkFailed, Dealt, audit
<1>3. CASE UNCHANGED vars
  BY <1>3 DEF vars, audit
<1>. QED BY <1>1, <1>2, <1>3, StepKinds, IdleStep, OutsideStep

\* An effect row is written only together with a new inbox row.
LEMMA EffectStep ==
  ASSUME TypeOK, Deliveries, OneEffect, [Next]_vars
  PROVE  OneEffect'
<1>1. CASE Events = {} \/ UNCHANGED <<inbox, effects>>
  BY <1>1 DEF OneEffect
<1>2. ASSUME NEW w \in Workers, phase[w] = "consuming", current[w] \in Events,
             inbox' = inbox \cup {current[w]},
             effects' = [effects EXCEPT ![current[w]] = @ + 1]
      PROVE  OneEffect'
  <2>1. current[w] \notin inbox
    BY <1>2 DEF Deliveries
  <2>. QED BY <1>2, <2>1 DEF OneEffect, TypeOK
<1>. QED BY <1>1, <1>2, AuditStep

\* Whoever takes a row out of the queue has its effect behind it.
LEMMA NothingLostStep ==
  ASSUME TypeOK, Locks, Deliveries, NothingLost, [Next]_vars
  PROVE  NothingLost'
<1>. SUFFICES ASSUME NEW e \in Events, status'[e] \in {"processed", "purged"}
              PROVE  e \in inbox
  BY AuditStep DEF NothingLost
<1>. USE DEF TypeOK, outbox
<1>1. CASE Outside
  BY <1>1, OutsideStep DEF NothingLost
<1>2. ASSUME NEW w \in Workers, Idle(w)
      PROVE  e \in inbox
  BY <1>2, IdleStep DEF NothingLost
<1>3. ASSUME NEW w \in Workers, NEW to, Claim(w) \/ CommitClaim(w) \/ CommitEffect(w, to)
      PROVE  e \in inbox
  <2>1. status[e] \in {"processed", "purged"}
    BY <1>3 DEF Claim, CommitClaim, CommitEffect
  <2>. QED BY <2>1 DEF NothingLost
<1>4. ASSUME NEW w \in Workers, MarkProcessed(w)
      PROVE  e \in inbox
  BY <1>4 DEF MarkProcessed, Deliveries, NothingLost
<1>5. ASSUME NEW w \in Workers, MarkFailed(w)
      PROVE  e \in inbox
  BY <1>5 DEF MarkFailed, NothingLost
<1>6. CASE UNCHANGED vars
  BY <1>6 DEF vars, NothingLost
<1>. QED BY <1>1, <1>2, <1>3, <1>4, <1>5, <1>6, StepKinds

----------------------------------------------------------------------------
(* The theorems *)

\* Every step keeps the invariant.
LEMMA NextIInv == IInv /\ [Next]_vars => IInv'
BY TwoTypes, TablesStep, WorkersStep, DisjointStep, LocksStep, DeliveriesStep,
   EffectStep, NothingLostStep
DEF IInv, TypeOK, Tables, WorkersOK

\* The strengthening under which the properties below are kept by every step:
\* locked rows stay put and inbox rows are inserted by one worker at a time.
THEOREM Invariance == Spec => []IInv
BY InitIInv, NextIInv, PTL DEF Spec

\* Every variable keeps its type, and a worker in the handler holds the event.
THEOREM TypeCorrect == Spec => []TypeOK
BY Invariance, PTL DEF IInv

\* The audit trail records an event once, however often consume is called.
THEOREM EffectOnce == Spec => []OneEffect
BY Invariance, PTL DEF IInv

\* A row that left the queue for good has had its effect.
THEOREM NoEventLost == Spec => []NothingLost
BY Invariance, PTL DEF IInv

\* FOR UPDATE SKIP LOCKED keeps concurrent claims apart.
THEOREM Disjoint == Spec => []ClaimsAreDisjoint
BY Invariance, PTL DEF IInv

----------------------------------------------------------------------------
(* The refinement *)

\* The stage of an event in each of its statuses.
LEMMA StageIs ==
  ASSUME TypeOK, NEW e \in Events
  PROVE  /\ Stage(e) = "none" <=> status[e] = "absent"
         /\ Stage(e) = "done" <=> status[e] \in {"processed", "purged"}
         /\ Stage(e) = "parked" <=> Parked(e)
         /\ Stage(e) = "owed" <=> \/ status[e] \in {"pending", "processing"}
                                  \/ status[e] = "failed" /\ due[e] # "never"
         /\ Stage(e) \in {"none", "owed", "parked", "done"}
<1>. USE DEF Stage, Parked
<1>1. CASE status[e] = "absent"
  BY <1>1
<1>2. CASE status[e] \in {"processed", "purged"}
  BY <1>2
<1>3. CASE status[e] \in {"pending", "processing"}
  BY <1>3
<1>4. CASE status[e] = "failed"
  BY <1>4
<1>. QED BY <1>1, <1>2, <1>3, <1>4 DEF TypeOK, Statuses

\* And after a step.
LEMMA StageIsNext ==
  ASSUME TypeOK', NEW e \in Events
  PROVE  /\ Stage(e)' = "none" <=> status'[e] = "absent"
         /\ Stage(e)' = "done" <=> status'[e] \in {"processed", "purged"}
         /\ Stage(e)' = "parked" <=> status'[e] = "failed" /\ due'[e] = "never"
         /\ Stage(e)' = "owed" <=> \/ status'[e] \in {"pending", "processing"}
                                   \/ status'[e] = "failed" /\ due'[e] # "never"
         /\ Stage(e)' \in {"none", "owed", "parked", "done"}
BY DEF Stage, TypeOK, Statuses

\* A step that keeps every stage and the inbox is a stutter of Delivery.
Still == (\A e \in Events : Stage(e)' = Stage(e)) /\ inbox' = inbox

\* A step that moves one event on is the change of that event.
LEMMA OneMoves ==
  ASSUME NEW e \in Events, NEW from, NEW to, inbox' = inbox,
         Stage(e) = from, Stage(e)' = to,
         \A f \in Events \ {e} : Stage(f)' = Stage(f)
  PROVE  Abstract!Change(e, from, to)
BY DEF Abstract!Change

\* Payments, time and the operator.
LEMMA OutsideRefines ==
  ASSUME IInv, TypeOK', Outside
  PROVE  Still \/ Abstract!Next
<1>. USE DEF IInv, TypeOK, outbox, audit
<1>1. ASSUME NEW e \in Events, Create(e)
      PROVE  Abstract!Next
  <2>1. Stage(e) = "none" /\ Stage(e)' = "owed" /\ inbox' = inbox
    BY <1>1, StageIs, StageIsNext DEF Create
  <2>2. \A f \in Events \ {e} : status'[f] = status[f] /\ due'[f] = due[f]
    BY <1>1 DEF Create
  <2>3. \A f \in Events \ {e} : Stage(f)' = Stage(f)
    BY <2>2 DEF Stage
  <2>. QED BY <2>1, <2>3, OneMoves DEF Abstract!Next, Abstract!Owe
<1>2. ASSUME NEW e \in Events, Purge(e)
      PROVE  Still
  <2>1. Stage(e)' = Stage(e) /\ inbox' = inbox
    BY <1>2, StageIs, StageIsNext DEF Purge
  <2>2. \A f \in Events \ {e} : status'[f] = status[f] /\ due'[f] = due[f]
    BY <1>2 DEF Purge
  <2>3. \A f \in Events \ {e} : Stage(f)' = Stage(f)
    BY <2>2 DEF Stage
  <2>. QED BY <2>1, <2>3 DEF Still
<1>3. ASSUME NEW e \in Events, Elapse(e) \/ Overrun(e)
      PROVE  Still
  <2>1. status' = status /\ inbox' = inbox
          /\ \A f \in Events : due'[f] = "never" <=> due[f] = "never"
    BY <1>3 DEF Elapse, Overrun, RunsOut
  <2>. QED BY <2>1 DEF Still, Stage
<1>4. ASSUME NEW S \in SUBSET Events, Replay(S)
      PROVE  Abstract!Next
  <2>1. \A e \in S : Stage(e) = "parked"
    BY <1>4, StageIs DEF Replay
  <2>2. \A e \in S : Stage(e)' = "owed"
    BY <1>4, StageIsNext DEF Replay
  <2>3. \A e \in Events \ S : Stage(e)' = Stage(e)
    BY <1>4 DEF Replay, Stage
  <2>4. inbox' = inbox
    BY <1>4 DEF Replay
  <2>. QED BY <2>1, <2>2, <2>3, <2>4 DEF Abstract!Next, Abstract!Replay
<1>. QED BY <1>1, <1>2, <1>3, <1>4 DEF Outside

\* The workers.
LEMMA WorkerRefines ==
  ASSUME IInv, IInv', NEW w \in Workers, NEW to \in {"marking", "failing"},
         \/ Idle(w) \/ Claim(w) \/ CommitClaim(w) \/ CommitEffect(w, to)
         \/ MarkProcessed(w) \/ MarkFailed(w)
  PROVE  Still \/ Abstract!Next
<1>. USE DEF outbox, audit
<1>0. TypeOK /\ TypeOK' /\ batch[w] \subseteq Events
  BY DEF IInv, TypeOK
<1>1. CASE Idle(w) \/ Claim(w)
  <2>1. UNCHANGED <<status, due, inbox>>
    BY <1>0, <1>1, IdleStep DEF Claim
  <2>. QED BY <2>1 DEF Still, Stage
<1>2. CASE CommitClaim(w)
  <2>1. \A e \in Events \ batch[w] : Stage(e)' = Stage(e)
    BY <1>2 DEF CommitClaim, Stage
  <2>2. \A e \in batch[w] : Stage(e) = "owed"
    BY <1>0, <1>2, StageIs DEF CommitClaim, Goto, IInv, Locks
  <2>3. \A e \in batch[w] : Stage(e)' = "owed"
    BY <1>0, <1>2, StageIsNext DEF CommitClaim
  <2>. QED BY <1>2, <2>1, <2>2, <2>3 DEF CommitClaim, Still
<1>3. CASE CommitEffect(w, to)
  <2>0. PICK e : e = current[w]
    OBVIOUS
  <2>1. e \in batch[w] /\ e \in Events /\ e \notin inbox
    BY <2>0, <1>0, <1>3 DEF CommitEffect, Goto, IInv, TypeOK, InHandler, Deliveries
  <2>2. Stage(e) \in {"owed", "parked"}
    BY <1>0, <2>1, StageIs DEF IInv, Deliveries, NothingLost
  <2>3. (\A f \in Events : Stage(f)' = Stage(f)) /\ inbox' = inbox \cup {e}
    BY <1>3, <2>0 DEF CommitEffect, Stage
  <2>. QED BY <2>1, <2>2, <2>3 DEF Abstract!Next, Abstract!Apply
<1>4. CASE MarkProcessed(w)
  <2>0. PICK e : e = current[w]
    OBVIOUS
  <2>1. e \in Events /\ e \in inbox /\ inbox' = inbox
    BY <2>0, <1>0, <1>4 DEF MarkProcessed, Dealt, IInv, TypeOK, InHandler, Deliveries
  <2>2. \A f \in Events \ {e} : Stage(f)' = Stage(f)
    BY <1>0, <1>4, <2>0 DEF MarkProcessed, Stage, TypeOK
  <2>3. CASE status[e] = "processing"
    <3>1. Stage(e) = "owed" /\ Stage(e)' = "done"
      BY <1>0, <1>4, <2>0, <2>1, <2>3, StageIs, StageIsNext DEF MarkProcessed, TypeOK
    <3>. QED BY <2>1, <2>2, <3>1, OneMoves DEF Abstract!Next, Abstract!Complete
  <2>4. CASE status[e] # "processing"
    BY <1>4, <2>0, <2>1, <2>4 DEF MarkProcessed, Still, Stage
  <2>. QED BY <2>3, <2>4
<1>5. CASE MarkFailed(w)
  <2>0. PICK e : e = current[w]
    OBVIOUS
  <2>1. e \in Events /\ inbox' = inbox
    BY <2>0, <1>0, <1>5 DEF MarkFailed, Dealt, TypeOK, InHandler
  <2>2. \A f \in Events \ {e} : Stage(f)' = Stage(f)
    BY <1>0, <1>5, <2>0 DEF MarkFailed, Stage, TypeOK
  <2>3. CASE status[e] = "processing" /\ Exhausted(w)
    <3>1. Stage(e) = "owed" /\ Stage(e)' = "parked"
      BY <1>0, <1>5, <2>0, <2>1, <2>3, StageIs, StageIsNext DEF MarkFailed, TypeOK
    <3>. QED BY <2>1, <2>2, <3>1, OneMoves DEF Abstract!Next, Abstract!Park
  <2>4. CASE status[e] = "processing" /\ ~Exhausted(w)
    <3>1. Stage(e) = "owed" /\ Stage(e)' = "owed"
      BY <1>0, <1>5, <2>0, <2>1, <2>4, StageIs, StageIsNext DEF MarkFailed, TypeOK
    <3>. QED BY <2>1, <2>2, <3>1 DEF Still
  <2>5. CASE status[e] # "processing"
    BY <1>5, <2>0, <2>1, <2>5 DEF MarkFailed, Still, Stage
  <2>. QED BY <2>3, <2>4, <2>5
<1>. QED BY <1>1, <1>2, <1>3, <1>4, <1>5

\* Leased batches, overruns, crashes, redeliveries, replays and the sweep
\* implement an event that is owed until it had its one effect or is parked.
THEOREM Refinement == Spec => ImplementsDelivery
<1>1. Init => Abstract!Init
  BY DEF Init, Abstract!Init, Stage
<1>2. IInv /\ IInv' /\ [Next]_vars => [Abstract!Next]_Abstract!vars
  <2>. SUFFICES ASSUME IInv, IInv', [Next]_vars
                PROVE  Still \/ Abstract!Next
    BY DEF Abstract!vars, Still
  <2>1. CASE UNCHANGED vars
    BY <2>1 DEF vars, outbox, audit, Still, Stage
  <2>2. CASE Outside
    BY <2>2, OutsideRefines DEF IInv
  <2>. QED BY <2>1, <2>2, WorkerRefines, StepKinds
<1>. QED BY <1>1, <1>2, Invariance, PTL DEF Spec, ImplementsDelivery, Abstract!Spec
=============================================================================
