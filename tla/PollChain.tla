----------------------------- MODULE PollChain -----------------------------
(***************************************************************************)
(* The scheduling half of OutboxWorker: start, stop, the timer and the     *)
(* polls it fires.  What a poll does to the outbox is module Outbox; here  *)
(* it is a claim followed by a number of events, each of which may fail.   *)
(* The worker runs on one event loop: an action is what runs between two   *)
(* awaits.                                                                 *)
(***************************************************************************)
EXTENDS Integers, FiniteSets

CONSTANTS
  Callers,  \* who calls start and stop
  Polls,    \* identities of polls, reused; more than one shows a second chain
  MaxBatch, \* batchSize
  NoPoll

ASSUME PollChainAssumption ==
  MaxBatch \in Nat /\ NoPoll \notin Polls

VARIABLES
  running, timer,
  inFlight, \* the poll stop() would wait for, or NoPoll
  phase,    \* [Polls -> Phases]
  left,     \* [Polls -> 0..MaxBatch], claimed events not yet dealt with
  stops     \* [Callers -> what the caller's stop() is waiting for]

chain == <<running, timer, inFlight, phase, left>>
chainVars  == <<chain, stops>>

Phases == {"idle", "claiming", "working"}

\* Of a caller: no stop() under way, waiting for a poll, or just resumed.
NotStopping == [at |-> "none", poll |-> NoPoll]
Resolved    == [at |-> "resolved", poll |-> NoPoll]
WaitsFor(p) == IF p = NoPoll THEN Resolved ELSE [at |-> "waiting", poll |-> p]

ChainInit ==
  /\ running = FALSE /\ timer = FALSE /\ inFlight = NoPoll
  /\ phase = [p \in Polls |-> "idle"]
  /\ left = [p \in Polls |-> 0]
  /\ stops = [c \in Callers |-> NotStopping]

\* Mutant: schedulePoll that does not look at the poll in flight.
ScheduleAlways(running_, inFlight_) == timer' = (timer \/ running_)

\* schedulePoll, of the values its caller has just assigned.
SchedulePoll(running_, inFlight_) ==
  timer' = (timer \/ (running_ /\ inFlight_ = NoPoll))

Start ==
  /\ ~running
  /\ running' = TRUE
  /\ SchedulePoll(TRUE, inFlight)
  /\ UNCHANGED <<inFlight, phase, left, stops>>

\* Everything before stop()'s await runs at once, and the await takes the
\* poll in flight at that moment.
Stop(c) ==
  /\ running' = FALSE /\ timer' = FALSE
  /\ stops' = [stops EXCEPT ![c] = WaitsFor(inFlight)]
  /\ UNCHANGED <<inFlight, phase, left>>

\* The timer fires: poll() runs up to its first await.
Fire(p) ==
  /\ timer /\ phase[p] = "idle"
  /\ timer' = FALSE
  /\ inFlight' = p
  /\ phase' = [phase EXCEPT ![p] = "claiming"]
  /\ UNCHANGED <<running, left, stops>>

\* Mutant: a finally that leaves its batch counted.
SettleKeepsBatch(p) ==
  /\ phase' = [phase EXCEPT ![p] = "idle"]
  /\ inFlight' = NoPoll
  /\ SchedulePoll(running, NoPoll)
  /\ stops' = [c \in Callers |-> IF stops[c].poll = p THEN Resolved ELSE stops[c]]
  /\ UNCHANGED <<running, left>>

\* poll() is over, its catch included; the finally forgets it and schedules
\* the next one; then the awaiting stop()s resume.
Settle(p) ==
  /\ phase' = [phase EXCEPT ![p] = "idle"]
  /\ left' = [left EXCEPT ![p] = 0]
  /\ inFlight' = NoPoll
  /\ SchedulePoll(running, NoPoll)
  /\ stops' = [c \in Callers |-> IF stops[c].poll = p THEN Resolved ELSE stops[c]]
  /\ UNCHANGED running

Claimed(p, n) ==
  /\ phase[p] = "claiming" /\ n > 0
  /\ phase' = [phase EXCEPT ![p] = "working"]
  /\ left' = [left EXCEPT ![p] = n]
  /\ UNCHANGED <<running, timer, inFlight, stops>>

\* claimBatch found nothing, or threw.
ClaimedNothing(p) == phase[p] = "claiming" /\ Settle(p)

\* One turn of the loop over the batch: handled and marked, or marked failed.
EventDone(p) ==
  /\ phase[p] = "working"
  /\ IF left[p] > 1
     THEN /\ left' = [left EXCEPT ![p] = @ - 1]
          /\ UNCHANGED <<running, timer, inFlight, phase, stops>>
     ELSE Settle(p)

\* The failed event could not even be marked: the rest of the batch is left
\* to its lease.
BatchAbandoned(p) == phase[p] = "working" /\ Settle(p)

\* The caller goes on behind its await worker.stop().
Resume(c) ==
  /\ stops[c] = Resolved
  /\ stops' = [stops EXCEPT ![c] = NotStopping]
  /\ UNCHANGED chain

PollStep(p) ==
  \/ \E n \in 1..MaxBatch : Claimed(p, n)
  \/ ClaimedNothing(p) \/ EventDone(p) \/ BatchAbandoned(p)

ChainNext ==
  \/ Start
  \/ \E c \in Callers : stops[c] = NotStopping /\ Stop(c)
  \/ \E c \in Callers : Resume(c)
  \/ \E p \in Polls : Fire(p) \/ PollStep(p)

ChainSpec == ChainInit /\ [][ChainNext]_chainVars

\* A timer fires, and every statement of a poll returns or throws.
ChainFairness ==
  /\ WF_chainVars(\E p \in Polls : Fire(p))
  /\ WF_chainVars(\E p \in Polls : PollStep(p))

ChainFairSpec == ChainSpec /\ ChainFairness

----------------------------------------------------------------------------
(* Properties *)

ChainTypeOK ==
  /\ running \in BOOLEAN /\ timer \in BOOLEAN
  /\ inFlight \in Polls \cup {NoPoll}
  /\ phase \in [Polls -> Phases]
  /\ left \in [Polls -> 0..MaxBatch]
  /\ stops \in [Callers -> {NotStopping, Resolved}
                           \cup {[at |-> "waiting", poll |-> p] : p \in Polls}]
  /\ \A p \in Polls : left[p] > 0 <=> phase[p] = "working"

\* schedulePoll: "One poll chain at most: a restart while a poll is still
\* running is picked up when that poll finishes, rather than starting a
\* second, concurrent chain."  Stops and restarts in any order never have two
\* polls, or a poll and a timer, at once, and the poll that runs is the one a
\* stop() would wait for.
OnePollChain ==
  /\ \A p \in Polls : phase[p] # "idle" => inFlight = p
  /\ inFlight # NoPoll => ~timer

\* schedulePoll's "if (!this.running || ...) return": no restart, and no poll
\* that settles late, leaves a timer behind in a worker that was stopped.
StoppedArmsNothing == timer => running

\* stop() "resolves only once any poll already under way has finished": at the
\* moment it resumes its caller no poll is running, also when the worker was
\* started again while it waited.
NoPollOutlivesItsStop ==
  [][\A c \in Callers : stops[c] # Resolved /\ stops'[c] = Resolved =>
       \A p \in Polls : phase'[p] = "idle"]_chainVars

\* A worker that is running polls again: no stop, restart, failed claim or
\* abandoned batch breaks the chain.
KeepsPolling ==
  running ~> (~running \/ \E p \in Polls : phase[p] = "claiming")

\* stop() returns, whatever else is called meanwhile.
StopReturns ==
  \A c \in Callers : stops[c].at = "waiting" ~> stops[c].at # "waiting"

\* start and stop: one chain of polls, and none of it survives a stop().
StopsAreClean == [](OnePollChain /\ StoppedArmsNothing) /\ NoPollOutlivesItsStop
=============================================================================
