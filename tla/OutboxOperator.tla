--------------------------- MODULE OutboxOperator ---------------------------
(***************************************************************************)
(* npm run outbox: list, show, replay <id> and replay --all, each command  *)
(* a process of its own, beside workers that claim, reclaim, retry and     *)
(* park the events and a sweep that deletes them (modules Outbox and       *)
(* Retention, here only as the states an event passes through).  Time is   *)
(* left out: a backoff or a lease may have run out whenever a worker polls.*)
(***************************************************************************)
EXTENDS Integers, FiniteSets

CONSTANTS
  Events,
  Operators,   \* processes running a command
  MaxAttempts,
  MaxReclaims, \* bound on the claims of an event whose attempts are used up
  MaxParkings, \* bound on how often an event exhausts its attempts
  Limit        \* --limit of list

ASSUME OutboxOperatorAssumption ==
  /\ IsFiniteSet(Events)
  /\ MaxAttempts \in Nat \ {0} /\ MaxReclaims \in Nat
  /\ MaxParkings \in Nat /\ Limit \in Nat \ {0}

VARIABLES
  state,    \* [Events -> States]
  attempts, \* [Events -> Nat]
  parkings, \* history: [Events -> Nat], times the event was parked
  replays,  \* history: [Events -> Nat], times it was returned to the queue
  op        \* the commands

events    == <<state, attempts>>
history == <<parkings, replays>>
operatorVars    == <<events, history, op>>

\* "parked" is status failed with next_attempt_at infinity.
States == {"pending", "processing", "failed", "parked", "processed", "purged"}

NoCommand == [at |-> "idle", exit |-> "none", showing |-> 0, said |-> "nothing", of |-> {}]

OperatorInit ==
  /\ state = [e \in Events |-> "pending"]
  /\ attempts = [e \in Events |-> 0]
  /\ parkings = [e \in Events |-> 0] /\ replays = [e \in Events |-> 0]
  /\ op = [o \in Operators |-> NoCommand]

----------------------------------------------------------------------------
(* The workers and the sweep *)

\* Also a row left 'processing', whose lease ran out while the worker that
\* claimed it crashed or is still in the handler; nothing compares attempts.
Claim(e) ==
  /\ state[e] \in {"pending", "failed", "processing"}
  /\ attempts[e] < MaxAttempts + MaxReclaims
  /\ state' = [state EXCEPT ![e] = "processing"]
  /\ attempts' = [attempts EXCEPT ![e] = @ + 1]
  /\ UNCHANGED <<history, op>>

\* The attempts that the claims of e have returned to their workers, those made
\* before a replay started the count again included.
Counts(e) == 1..(IF replays[e] = 0 THEN attempts[e] ELSE MaxAttempts + MaxReclaims)

\* The handler of any of those claims succeeded, or failed with or without
\* attempts left by the count of that claim: the UPDATE matches the id and
\* status 'processing', not the claim.
Mark(e) ==
  /\ state[e] = "processing"
  /\ \E n \in Counts(e) :
       \/ state' = [state EXCEPT ![e] = "processed"] /\ UNCHANGED parkings
       \/ /\ n < MaxAttempts
          /\ state' = [state EXCEPT ![e] = "failed"] /\ UNCHANGED parkings
       \/ /\ n >= MaxAttempts /\ parkings[e] < MaxParkings
          /\ state' = [state EXCEPT ![e] = "parked"]
          /\ parkings' = [parkings EXCEPT ![e] = @ + 1]
  /\ UNCHANGED <<attempts, replays, op>>

Purge(e) ==
  /\ state[e] = "processed"
  /\ state' = [state EXCEPT ![e] = "purged"]
  /\ UNCHANGED <<attempts, history, op>>

----------------------------------------------------------------------------
(* The commands *)

Says(o, exit, said) ==
  op' = [op EXCEPT ![o].at = "over", ![o].exit = exit, ![o].said = said]

Replayable(e) == state[e] = "parked"

Returned(S) ==
  /\ state' = [e \in Events |-> IF e \in S THEN "pending" ELSE state[e]]
  /\ attempts' = [e \in Events |-> IF e \in S THEN 0 ELSE attempts[e]]
  /\ replays' = [e \in Events |-> IF e \in S THEN replays[e] + 1 ELSE replays[e]]
  /\ UNCHANGED parkings

\* Mutant: a replay that reports success whether or not a row was updated.
ReplayUnchecked(o, e) ==
  /\ op[o].at = "idle"
  /\ Returned({e} \cap {f \in Events : Replayable(f)})
  /\ op' = [op EXCEPT ![o].at = "over", ![o].exit = "ok", ![o].of = {e}]

\* One UPDATE; whether it found the event parked is its row count.
Replay(o, e) ==
  /\ op[o].at = "idle"
  /\ IF Replayable(e)
     THEN /\ Returned({e})
          /\ op' = [op EXCEPT ![o].at = "over", ![o].exit = "ok", ![o].of = {e}]
     ELSE /\ op' = [op EXCEPT ![o].at = "explaining", ![o].of = {e}]
          /\ UNCHANGED <<events, history>>

ReplayAll(o) ==
  /\ op[o].at = "idle"
  /\ LET parked == {e \in Events : Replayable(e)}
     IN  /\ Returned(parked)
         /\ op' = [op EXCEPT ![o].at = "over", ![o].exit = "ok", ![o].of = parked]

\* findById after the refusal: the status it names may be a later one.
Explain(o) ==
  /\ op[o].at = "explaining"
  /\ LET e == CHOOSE e \in Events : e \in op[o].of
     IN  Says(o, "error", IF state[e] = "purged" THEN "no such event" ELSE "not parked")
  /\ UNCHANGED <<events, history>>

Show(o, e) ==
  /\ op[o].at = "idle"
  /\ IF state[e] = "purged" THEN Says(o, "error", "no such event") ELSE Says(o, "ok", "event")
  /\ UNCHANGED <<events, history>>

Parked == Cardinality({e \in Events : state[e] = "parked"})

\* list reads the rows, then counts them, in two statements.
List(o) ==
  /\ op[o].at = "idle"
  /\ op' = [op EXCEPT ![o].at = "listed", ![o].showing = IF Parked < Limit THEN Parked ELSE Limit]
  /\ UNCHANGED <<events, history>>

CountListed(o) ==
  /\ op[o].at = "listed"
  /\ Says(o, "ok", IF op[o].showing = 0 THEN "no parked events" ELSE "parked events")
  /\ UNCHANGED <<events, history>>

CommandLeaves(o) ==
  /\ op[o].at = "over"
  /\ op' = [op EXCEPT ![o] = NoCommand]
  /\ UNCHANGED <<events, history>>

Command(o) ==
  \/ \E e \in Events : Replay(o, e) \/ Show(o, e)
  \/ ReplayAll(o) \/ Explain(o) \/ List(o) \/ CountListed(o) \/ CommandLeaves(o)

OperatorNext ==
  \/ \E e \in Events : Claim(e) \/ Mark(e) \/ Purge(e)
  \/ \E o \in Operators : Command(o)

OperatorSpec == OperatorInit /\ [][OperatorNext]_operatorVars

----------------------------------------------------------------------------
(* Properties *)

OperatorTypeOK ==
  /\ state \in [Events -> States]
  /\ attempts \in [Events -> 0..(MaxAttempts + MaxReclaims)]
  /\ parkings \in [Events -> 0..MaxParkings]
  /\ \A o \in Operators : op[o].exit \in {"none", "ok", "error"} /\ op[o].of \subseteq Events

\* Two operators, or an operator and --all, replay a parked event once: every
\* return to the queue answers one parking.
OneReplayPerParking ==
  \A e \in Events : parkings[e] = replays[e] + (IF state[e] = "parked" THEN 1 ELSE 0)

\* The exit status, for the shell scripts: a replay that says it returned an
\* event did, and one that fails left the event alone.
ExitTellsWhatHappened ==
  [][\A o \in Operators :
       op[o].at = "idle" /\ op'[o].of # {} =>
         \A e \in op'[o].of :
           IF op'[o].exit = "ok" THEN state[e] = "parked" /\ state'[e] = "pending"
           ELSE state'[e] = state[e] /\ state[e] # "parked"]_operatorVars

\* A parking is replayed once, and the command that did it says so.
ReplaysOnceAndSaysSo == []OneReplayPerParking /\ ExitTellsWhatHappened
=============================================================================
