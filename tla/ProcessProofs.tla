--------------------------- MODULE ProcessProofs ----------------------------
(***************************************************************************)
(* Proofs about the server process: the poll chain of its worker, its      *)
(* shutdown, and the pool its transactions draw their connections from;    *)
(* about the migration runners; and about all of them side by side.        *)
(***************************************************************************)
EXTENDS Processes, FiniteSetTheorems, SequenceTheorems, TLAPS

----------------------------------------------------------------------------
(***************************************************************************)
(* PollChain, for any number of callers and polls and any batch.           *)
(*                                                                         *)
(* The argument: inFlight is exact in both directions.  Whatever poll runs *)
(* is the one in flight, and the one in flight runs (InFlightRuns); so a   *)
(* timer, which is only armed while nothing is in flight, never fires      *)
(* beside a poll.  A stop() that waits therefore waits for the poll in     *)
(* flight now (StopsWaitForCurrent), although the worker may have been     *)
(* started again since, and that poll is the last one when it settles.     *)
(***************************************************************************)

\* The poll in flight is under way.
InFlightRuns == inFlight # NoPoll => phase[inFlight] # "idle"

\* Whoever waits in stop() waits for the poll that is in flight now.
StopsWaitForCurrent ==
  \A c \in Callers : stops[c].at = "waiting" => stops[c].poll = inFlight

ChainInv == ChainTypeOK /\ OnePollChain /\ InFlightRuns /\ StopsWaitForCurrent

\* What a caller's stop() can be at.
StopStates ==
  {NotStopping, Resolved} \cup {[at |-> "waiting", poll |-> p] : p \in Polls}

----------------------------------------------------------------------------
\* The invariant holds of a worker that was never started.
LEMMA ChainInitInv == ChainInit => ChainInv
<1>. SUFFICES ASSUME ChainInit PROVE ChainInv
  OBVIOUS
<1>1. ChainTypeOK
  <2>1. stops \in [Callers -> StopStates]
    BY DEF ChainInit, StopStates
  <2>2. left \in [Polls -> 0..MaxBatch] /\ phase \in [Polls -> Phases]
    BY PollChainAssumption DEF ChainInit, Phases
  <2>3. \A p \in Polls : left[p] > 0 <=> phase[p] = "working"
    BY DEF ChainInit
  <2>4. running \in BOOLEAN /\ timer \in BOOLEAN /\ inFlight \in Polls \cup {NoPoll}
    BY DEF ChainInit
  <2>. QED BY <2>1, <2>2, <2>3, <2>4 DEF ChainTypeOK, StopStates
<1>2. OnePollChain /\ InFlightRuns
  BY DEF ChainInit, OnePollChain, InFlightRuns
<1>3. StopsWaitForCurrent
  BY DEF ChainInit, StopsWaitForCurrent, NotStopping
<1>. QED BY <1>1, <1>2, <1>3 DEF ChainInv

\* A stop() that finds no poll in flight is over; any other waits for it.
LEMMA WaitsForType ==
  ASSUME NEW p \in Polls \cup {NoPoll}
  PROVE  /\ WaitsFor(p) \in StopStates
         /\ WaitsFor(p).at = "waiting" => p \in Polls /\ WaitsFor(p).poll = p
BY PollChainAssumption DEF WaitsFor, StopStates, Resolved

\* The settling of a poll that runs: it was the only one, every stop() that
\* waited resumes, and at most a timer is left.
LEMMA SettleStep ==
  ASSUME ChainInv, NEW p \in Polls, phase[p] # "idle", Settle(p)
  PROVE  /\ ChainInv'
         /\ \A q \in Polls : phase'[q] = "idle"
<1>. USE PollChainAssumption
<1>1. inFlight = p /\ p # NoPoll /\ ~timer
  BY DEF ChainInv, OnePollChain, ChainTypeOK
<1>2. \A q \in Polls : phase'[q] = "idle"
  BY <1>1 DEF ChainInv, OnePollChain, ChainTypeOK, Settle
<1>3. phase' \in [Polls -> Phases] /\ left' \in [Polls -> 0..MaxBatch]
  BY DEF ChainInv, ChainTypeOK, Settle, Phases
<1>4. \A c \in Callers : stops'[c] \in {NotStopping, Resolved}
  <2>. TAKE c \in Callers
  <2>1. stops[c] \in StopStates /\ (stops[c].at = "waiting" => stops[c].poll = p)
    BY <1>1 DEF ChainInv, ChainTypeOK, StopStates, StopsWaitForCurrent
  <2>2. stops'[c] = IF stops[c].poll = p THEN Resolved ELSE stops[c]
    BY DEF Settle
  <2>. QED BY <2>1, <2>2 DEF StopStates
<1>5. stops' \in [Callers -> StopStates]
  BY <1>4 DEF Settle, StopStates
<1>6. \A q \in Polls : left'[q] > 0 <=> phase'[q] = "working"
  <2>. TAKE q \in Polls
  <2>1. CASE q = p
    BY <2>1 DEF ChainInv, ChainTypeOK, Settle
  <2>2. CASE q # p
    BY <2>2 DEF ChainInv, ChainTypeOK, Settle
  <2>. QED BY <2>1, <2>2
<1>7. inFlight' = NoPoll /\ running' \in BOOLEAN /\ timer' \in BOOLEAN
  BY DEF ChainInv, ChainTypeOK, Settle, SchedulePoll
<1>8. ChainTypeOK'
  BY <1>3, <1>5, <1>6, <1>7 DEF ChainTypeOK, StopStates
<1>9. StopsWaitForCurrent'
  BY <1>4 DEF StopsWaitForCurrent, NotStopping, Resolved
<1>. QED BY <1>2, <1>7, <1>8, <1>9 DEF ChainInv, OnePollChain, InFlightRuns

\* A step of a poll settles it, or leaves it the poll in flight and every
\* stop() as it is.
LEMMA PollStepCases ==
  ASSUME NEW p \in Polls, PollStep(p)
  PROVE  /\ phase[p] # "idle"
         /\ \/ Settle(p)
            \/ \E n \in 1..MaxBatch : Claimed(p, n)
            \/ /\ phase[p] = "working" /\ left[p] > 1
               /\ left' = [left EXCEPT ![p] = @ - 1]
               /\ UNCHANGED <<running, timer, inFlight, phase, stops>>
BY DEF PollStep, Claimed, ClaimedNothing, EventDone, BatchAbandoned

----------------------------------------------------------------------------
\* No step breaks the invariant.
LEMMA ChainNextInv ==
  ASSUME ChainInv, [ChainNext]_chainVars
  PROVE  ChainInv'
<1>. USE PollChainAssumption
<1>1. CASE Start
  BY <1>1 DEF ChainInv, ChainTypeOK, OnePollChain, InFlightRuns, StopsWaitForCurrent,
              Start, SchedulePoll
<1>2. ASSUME NEW c \in Callers, Stop(c)
      PROVE  ChainInv'
  <2>1. stops' \in [Callers -> StopStates]
    BY <1>2, WaitsForType DEF ChainInv, ChainTypeOK, Stop, StopStates
  <2>2. ChainTypeOK'
    BY <1>2, <2>1 DEF ChainInv, ChainTypeOK, Stop, StopStates
  <2>3. StopsWaitForCurrent'
    <3>. SUFFICES ASSUME NEW d \in Callers, stops'[d].at = "waiting"
                  PROVE  stops'[d].poll = inFlight'
      BY DEF StopsWaitForCurrent
    <3>1. CASE d = c
      BY <1>2, <3>1, WaitsForType DEF ChainInv, ChainTypeOK, Stop
    <3>2. CASE d # c
      BY <1>2, <3>2 DEF ChainInv, ChainTypeOK, Stop, StopsWaitForCurrent
    <3>. QED BY <3>1, <3>2
  <2>. QED BY <1>2, <2>2, <2>3 DEF ChainInv, OnePollChain, InFlightRuns, Stop
<1>3. ASSUME NEW c \in Callers, Resume(c)
      PROVE  ChainInv'
  <2>1. ChainTypeOK'
    BY <1>3 DEF ChainInv, ChainTypeOK, Resume, chain
  <2>2. StopsWaitForCurrent'
    BY <1>3 DEF ChainInv, ChainTypeOK, StopsWaitForCurrent, Resume, chain, NotStopping
  <2>. QED BY <1>3, <2>1, <2>2 DEF ChainInv, OnePollChain, InFlightRuns, Resume, chain
<1>4. ASSUME NEW p \in Polls, Fire(p)
      PROVE  ChainInv'
  <2>1. inFlight = NoPoll /\ \A q \in Polls : phase[q] = "idle"
    BY <1>4 DEF ChainInv, OnePollChain, Fire
  <2>2. ChainTypeOK'
    BY <1>4 DEF ChainInv, ChainTypeOK, Fire, Phases
  <2>3. OnePollChain' /\ InFlightRuns'
    BY <1>4, <2>1 DEF ChainInv, ChainTypeOK, OnePollChain, InFlightRuns, Fire
  <2>4. \A c \in Callers : stops[c].at # "waiting"
    BY <2>1 DEF ChainInv, ChainTypeOK, StopsWaitForCurrent, NotStopping, Resolved
  <2>5. StopsWaitForCurrent'
    BY <1>4, <2>4 DEF StopsWaitForCurrent, Fire
  <2>. QED BY <2>2, <2>3, <2>5 DEF ChainInv
<1>5. ASSUME NEW p \in Polls, PollStep(p)
      PROVE  ChainInv'
  <2>1. CASE Settle(p)
    BY <1>5, <2>1, PollStepCases, SettleStep
  <2>2. ASSUME NEW n \in 1..MaxBatch, Claimed(p, n)
        PROVE  ChainInv'
    <3>1. ChainTypeOK'
      BY <2>2 DEF ChainInv, ChainTypeOK, Claimed, Phases
    <3>. QED BY <2>2, <3>1 DEF ChainInv, ChainTypeOK, OnePollChain, InFlightRuns, StopsWaitForCurrent, Claimed
  <2>3. ASSUME phase[p] = "working", left[p] > 1,
               left' = [left EXCEPT ![p] = @ - 1],
               UNCHANGED <<running, timer, inFlight, phase, stops>>
        PROVE  ChainInv'
    <3>1. ChainTypeOK'
      BY <2>3 DEF ChainInv, ChainTypeOK
    <3>. QED BY <2>3, <3>1 DEF ChainInv, OnePollChain, InFlightRuns, StopsWaitForCurrent
  <2>. QED BY <1>5, <2>1, <2>2, <2>3, PollStepCases
<1>6. CASE UNCHANGED chainVars
  BY <1>6 DEF ChainInv, ChainTypeOK, OnePollChain, InFlightRuns, StopsWaitForCurrent, chainVars, chain
<1>. QED BY <1>1, <1>2, <1>3, <1>4, <1>5, <1>6 DEF ChainNext

\* A stop() that resumes its caller in a step leaves no poll running.
LEMMA StopStep ==
  ASSUME ChainInv, [ChainNext]_chainVars, NEW c \in Callers, stops[c] # Resolved, stops'[c] = Resolved
  PROVE  \A p \in Polls : phase'[p] = "idle"
<1>. USE PollChainAssumption
<1>1. ASSUME NEW d \in Callers, Stop(d)
      PROVE  \A p \in Polls : phase'[p] = "idle"
  <2>1. d = c
    BY <1>1 DEF Stop, ChainInv, ChainTypeOK
  <2>2. stops'[c] = WaitsFor(inFlight)
    BY <1>1, <2>1 DEF Stop, ChainInv, ChainTypeOK
  <2>3. inFlight = NoPoll
    BY <2>2 DEF WaitsFor, Resolved
  <2>. QED BY <1>1, <2>3 DEF Stop, ChainInv, OnePollChain
<1>2. ASSUME NEW d \in Callers, Resume(d)
      PROVE  FALSE
  BY <1>2 DEF Resume, ChainInv, ChainTypeOK, NotStopping, Resolved
<1>3. ASSUME NEW p \in Polls, PollStep(p)
      PROVE  \A q \in Polls : phase'[q] = "idle"
  <2>1. CASE Settle(p)
    BY <1>3, <2>1, PollStepCases, SettleStep
  <2>2. ASSUME NEW n \in 1..MaxBatch, Claimed(p, n)
        PROVE  FALSE
    BY <2>2 DEF Claimed
  <2>. QED BY <1>3, <2>1, <2>2, PollStepCases
<1>4. ASSUME \/ Start \/ UNCHANGED chainVars
             \/ \E p \in Polls : Fire(p)
      PROVE  FALSE
  BY <1>4 DEF Start, Fire, chainVars
<1>. QED BY <1>1, <1>2, <1>3, <1>4 DEF ChainNext

----------------------------------------------------------------------------
\* The inductive invariant, of which the theorems below are parts.
THEOREM ChainInvariant == ChainSpec => []ChainInv
<1>1. ChainInit => ChainInv
  BY ChainInitInv
<1>2. ChainInv /\ [ChainNext]_chainVars => ChainInv'
  BY ChainNextInv
<1>. QED BY <1>1, <1>2, PTL DEF ChainSpec

\* Type correctness: the claimed events of a poll are counted exactly while
\* it works on them, and a stop() waits for a real poll or for none.
THEOREM ChainTypeCorrect == ChainSpec => []ChainTypeOK
<1>1. ChainInv => ChainTypeOK
  BY DEF ChainInv
<1>. QED BY ChainInvariant, <1>1, PTL

\* OutboxWorker.schedulePoll: stops and restarts in any order, by any number
\* of callers, never make two polls, or a poll and an armed timer, at once.
THEOREM OneChain == ChainSpec => []OnePollChain
<1>1. ChainInv => OnePollChain
  BY DEF ChainInv
<1>. QED BY ChainInvariant, <1>1, PTL

\* OutboxWorker.stop: when it resumes its caller no poll is running, not even
\* one that belongs to a restart that came while it waited.
THEOREM StopOutlastsPolls == ChainSpec => NoPollOutlivesItsStop
<1>1. ChainInv /\ [ChainNext]_chainVars =>
        [\A c \in Callers : stops[c] # Resolved /\ stops'[c] = Resolved =>
           \A p \in Polls : phase'[p] = "idle"]_chainVars
  BY StopStep
<1>. QED BY ChainInvariant, <1>1, PTL DEF ChainSpec, NoPollOutlivesItsStop

\* A step leaves no timer armed in a worker that it leaves stopped.
LEMMA ArmsStep ==
  ASSUME StoppedArmsNothing, [ChainNext]_chainVars
  PROVE  StoppedArmsNothing'
<1>. USE DEF StoppedArmsNothing, chain
<1>1. ASSUME NEW p \in Polls, Settle(p)
      PROVE  StoppedArmsNothing'
  BY <1>1 DEF Settle, SchedulePoll
<1>2. ASSUME NEW p \in Polls, PollStep(p)
      PROVE  StoppedArmsNothing'
  BY <1>1, <1>2
     DEF PollStep, Claimed, ClaimedNothing, EventDone, BatchAbandoned
<1>3. ASSUME \/ Start
             \/ \E c \in Callers : Stop(c) \/ Resume(c)
             \/ \E p \in Polls : Fire(p)
             \/ UNCHANGED chainVars
      PROVE  StoppedArmsNothing'
  BY <1>3 DEF Start, SchedulePoll, Stop, Resume, Fire, chainVars
<1>. QED BY <1>2, <1>3 DEF ChainNext

\* OutboxWorker.schedulePoll and stop: a stopped worker has no timer armed.
THEOREM NothingArmed == ChainSpec => []StoppedArmsNothing
<1>1. ChainInit => StoppedArmsNothing
  BY DEF ChainInit, StoppedArmsNothing
<1>. QED BY <1>1, ArmsStep, PTL DEF ChainSpec

\* OutboxWorker: all three, for any number of callers, and batches of any
\* size.
THEOREM CleanStops == ChainSpec => StopsAreClean
BY OneChain, NothingArmed, StopOutlastsPolls, PTL DEF StopsAreClean

----------------------------------------------------------------------------
(***************************************************************************)
(* Shutdown, for any number of signals, polls and requests.                *)
(*                                                                         *)
(* The argument: the server's steps are steps of its poll chain, so what   *)
(* holds of the chain holds here.  A process that is not listening runs    *)
(* nothing (QuietUnlessUp), and unless the worker was started behind a     *)
(* signal (EarlyIsKnown, Orderly) a signal stops it for good               *)
(* (StoppedForGood); behind its stop() no poll is in flight                *)
(* (NoPollBehindStop).  The app is closed by a shutdown that is past its   *)
(* stop() (ClosedBySomeone), and the pool is ended behind the app, or      *)
(* before anything ran (PoolEndsLast).                                     *)
(***************************************************************************)

Past == {"closing", "ending", "done"}

\* A shutdown is in stop() exactly while its step says so.
StopsAreAwaited == \A s \in Signals : step[s] = "stopping" <=> stops[s] # NotStopping

\* Nothing runs in a process that is not listening.
QuietUnlessUp == listen # "up" => ~running /\ inFlight = NoPoll /\ requests = 0

EarlyIsKnown == listen = "pending" /\ ~early => \A s \in Signals : step[s] = "none"

\* A signal stops the worker for good...
StoppedForGood == Orderly => \A s \in Signals : step[s] # "none" => ~running

\* ... and behind the await of its stop() no poll is in flight.
NoPollBehindStop ==
  Orderly => \A s \in Signals :
    step[s] # "none" /\ stops[s].at # "waiting" => inFlight = NoPoll

ClosedBySomeone == app # "open" => \E s \in Signals : step[s] \in Past

PoolEndsLast ==
  /\ database # "open" => listen = "failed" \/ app = "closed"
  /\ exit # "none" => database # "open"

ServerInv ==
  /\ ServerTypeOK /\ ChainInv /\ StoppedArmsNothing
  /\ StopsAreAwaited /\ QuietUnlessUp /\ EarlyIsKnown
  /\ StoppedForGood /\ NoPollBehindStop /\ ClosedBySomeone /\ PoolEndsLast

\* The invariant holds of a process that has not begun to listen.
LEMMA ServerInitInv == ServerInit => ServerInv
<1> SUFFICES ASSUME ServerInit PROVE ServerInv
  OBVIOUS
<1>1. ChainInv /\ ChainInit
  BY ChainInitInv DEF ServerInit
<1>2. StoppedArmsNothing
  BY <1>1 DEF ChainInit, StoppedArmsNothing
<1>3. ServerTypeOK
  <2>1. step \in [Signals -> Steps]
    BY DEF ServerInit, Steps
  <2>2. requests \in 0..MaxRequests
    BY ShutdownAssumption DEF ServerInit
  <2> QED BY <1>1, <2>1, <2>2 DEF ChainInv, ServerInit, ServerTypeOK
<1>4. StopsAreAwaited
  BY DEF ServerInit, ChainInit, StopsAreAwaited, Signals, NotStopping
<1> QED BY <1>1, <1>2, <1>3, <1>4
        DEF ServerInit, ChainInit, ServerInv, QuietUnlessUp, EarlyIsKnown, StoppedForGood,
            NoPollBehindStop, ClosedBySomeone, PoolEndsLast

\* When no poll is in flight none runs.
LEMMA PollsIdle ==
  ASSUME ChainInv, inFlight = NoPoll PROVE \A p \in Polls : phase[p] = "idle"
BY PollChainAssumption DEF ChainInv, OnePollChain

----------------------------------------------------------------------------
(* The steps that leave the worker alone *)

\* A step of the server that does not touch the worker.
LEMMA WorkerStays ==
  ASSUME ServerInv, UNCHANGED chainVars PROVE ChainInv' /\ StoppedArmsNothing' /\ ChainTypeOK'
<1>1. ChainInv'
  BY ChainNextInv DEF ServerInv
<1>2. StoppedArmsNothing'
  BY DEF ServerInv, StoppedArmsNothing, chainVars, chain
<1> QED BY <1>1, <1>2 DEF ChainInv

\* The port is taken: the pool is ended before anything ran.
LEMMA ListenFailsStep == ASSUME ServerInv, ListenFails PROVE ServerInv'
<1>1. ChainInv' /\ StoppedArmsNothing' /\ ChainTypeOK'
  BY WorkerStays DEF ListenFails
<1>2. ServerTypeOK'
  BY <1>1 DEF ListenFails, EndPool, ServerInv, ServerTypeOK
<1> QED BY <1>1, <1>2
        DEF ListenFails, EndPool, ServerInv, chainVars, chain, StopsAreAwaited, QuietUnlessUp,
            EarlyIsKnown, StoppedForGood, NoPollBehindStop, ClosedBySomeone, PoolEndsLast, Orderly

\* A request is accepted while the app is open.
LEMMA RequestStep == ASSUME ServerInv, Request PROVE ServerInv'
<1>1. ChainInv' /\ StoppedArmsNothing' /\ ChainTypeOK'
  BY WorkerStays DEF Request
<1>2. requests' \in 0..MaxRequests
  BY ShutdownAssumption DEF Request, ServerInv, ServerTypeOK
<1>3. ServerTypeOK'
  BY <1>1, <1>2 DEF Request, ServerInv, ServerTypeOK
<1> QED BY <1>1, <1>3
        DEF Request, ServerInv, chainVars, chain, StopsAreAwaited, QuietUnlessUp,
            EarlyIsKnown, StoppedForGood, NoPollBehindStop, ClosedBySomeone, PoolEndsLast, Orderly

\* A request is answered.
LEMMA AnswerRequestStep == ASSUME ServerInv, AnswerRequest PROVE ServerInv'
<1>1. ChainInv' /\ StoppedArmsNothing' /\ ChainTypeOK'
  BY WorkerStays DEF AnswerRequest
<1>2. requests' \in 0..MaxRequests /\ requests # 0
  BY ShutdownAssumption DEF AnswerRequest, ServerInv, ServerTypeOK
<1>3. ServerTypeOK'
  BY <1>1, <1>2 DEF AnswerRequest, ServerInv, ServerTypeOK
<1> QED BY <1>1, <1>2, <1>3
        DEF AnswerRequest, ServerInv, chainVars, chain, StopsAreAwaited, QuietUnlessUp,
            EarlyIsKnown, StoppedForGood, NoPollBehindStop, ClosedBySomeone, PoolEndsLast, Orderly

\* The app is closed when its requests are answered.
LEMMA ClosedStep == ASSUME ServerInv, Closed PROVE ServerInv'
<1>1. ChainInv' /\ StoppedArmsNothing' /\ ChainTypeOK'
  BY WorkerStays DEF Closed
<1>2. ServerTypeOK'
  BY <1>1 DEF Closed, ServerInv, ServerTypeOK
<1> QED BY <1>1, <1>2
        DEF Closed, ServerInv, chainVars, chain, StopsAreAwaited, QuietUnlessUp,
            EarlyIsKnown, StoppedForGood, NoPollBehindStop, ClosedBySomeone, PoolEndsLast, Orderly

\* The pool has ended.
LEMMA PoolEndedStep == ASSUME ServerInv, PoolEnded PROVE ServerInv'
<1>1. ChainInv' /\ StoppedArmsNothing' /\ ChainTypeOK'
  BY WorkerStays DEF PoolEnded
<1>2. ServerTypeOK'
  BY <1>1 DEF PoolEnded, ServerInv, ServerTypeOK
<1> QED BY <1>1, <1>2
        DEF PoolEnded, ServerInv, chainVars, chain, StopsAreAwaited, QuietUnlessUp,
            EarlyIsKnown, StoppedForGood, NoPollBehindStop, ClosedBySomeone, PoolEndsLast, Orderly

\* The process exits once its pool has ended.
LEMMA ExitStep == ASSUME ServerInv, Exit PROVE ServerInv'
<1>1. ChainInv' /\ StoppedArmsNothing' /\ ChainTypeOK'
  BY WorkerStays DEF Exit
<1>2. ServerTypeOK'
  BY <1>1 DEF Exit, ServerInv, ServerTypeOK
<1> QED BY <1>1, <1>2
        DEF Exit, ServerInv, chainVars, chain, StopsAreAwaited, QuietUnlessUp,
            EarlyIsKnown, StoppedForGood, NoPollBehindStop, ClosedBySomeone, PoolEndsLast, Orderly

\* A shutdown that is past its stop() and goes on.
LEMMA MovesOn ==
  ASSUME ServerInv, NEW s \in Signals, step[s] \in Past, NEW to \in Past,
         step' = [step EXCEPT ![s] = to], UNCHANGED <<chainVars, listen, requests, app, early>>
  PROVE  /\ ChainInv' /\ StoppedArmsNothing' /\ ChainTypeOK'
         /\ step' \in [Signals -> Steps]
         /\ StopsAreAwaited' /\ QuietUnlessUp' /\ EarlyIsKnown'
         /\ StoppedForGood' /\ NoPollBehindStop' /\ ClosedBySomeone'
<1>1. ChainInv' /\ StoppedArmsNothing' /\ ChainTypeOK'
  BY WorkerStays
<1>2. step' \in [Signals -> Steps]
  BY DEF ServerInv, ServerTypeOK, Steps, Past
<1>3. \A t \in Signals : /\ step'[t] = "none" <=> step[t] = "none"
                         /\ step'[t] = "stopping" <=> step[t] = "stopping"
                         /\ step'[t] \in Past <=> step[t] \in Past
  BY DEF ServerInv, ServerTypeOK, Past
<1>4. UNCHANGED <<running, inFlight, stops>>
  BY DEF chainVars, chain
<1>5. StopsAreAwaited' /\ QuietUnlessUp' /\ EarlyIsKnown'
  BY <1>3, <1>4 DEF ServerInv, StopsAreAwaited, QuietUnlessUp, EarlyIsKnown
<1>6. StoppedForGood' /\ NoPollBehindStop'
  BY <1>3, <1>4 DEF ServerInv, StoppedForGood, NoPollBehindStop, Orderly
<1>7. ClosedBySomeone'
  BY <1>3 DEF ServerInv, ClosedBySomeone
<1> QED BY <1>1, <1>2, <1>5, <1>6, <1>7

\* A shutdown ends the pool behind app.close().
LEMMA EndStep == ASSUME ServerInv, NEW s \in Signals, End(s) PROVE ServerInv'
<1>1. /\ ChainInv' /\ StoppedArmsNothing' /\ ChainTypeOK'
      /\ step' \in [Signals -> Steps]
      /\ StopsAreAwaited' /\ QuietUnlessUp' /\ EarlyIsKnown'
      /\ StoppedForGood' /\ NoPollBehindStop' /\ ClosedBySomeone'
  BY MovesOn DEF End, Past
<1>2. ServerTypeOK'
  BY <1>1 DEF End, EndPool, ServerInv, ServerTypeOK
<1>3. PoolEndsLast'
  BY DEF End, EndPool, ServerInv, PoolEndsLast
<1> QED BY <1>1, <1>2, <1>3 DEF ServerInv

\* A shutdown is over.
LEMMA DoneStep == ASSUME ServerInv, NEW s \in Signals, Done(s) PROVE ServerInv'
<1>1. /\ ChainInv' /\ StoppedArmsNothing' /\ ChainTypeOK'
      /\ step' \in [Signals -> Steps]
      /\ StopsAreAwaited' /\ QuietUnlessUp' /\ EarlyIsKnown'
      /\ StoppedForGood' /\ NoPollBehindStop' /\ ClosedBySomeone'
  BY MovesOn DEF Done, Past
<1>2. ServerTypeOK'
  BY <1>1 DEF Done, ServerInv, ServerTypeOK
<1>3. PoolEndsLast'
  BY DEF Done, ServerInv, PoolEndsLast
<1> QED BY <1>1, <1>2, <1>3 DEF ServerInv

----------------------------------------------------------------------------
(* The steps of the worker *)

\* A step of the server that is a step of its poll chain.
LEMMA WorkerMoves ==
  ASSUME ServerInv, ChainNext PROVE ChainInv' /\ StoppedArmsNothing' /\ ChainTypeOK'
<1>1. ChainInv'
  BY ChainNextInv DEF ServerInv
<1>2. StoppedArmsNothing'
  BY ArmsStep DEF ServerInv
<1> QED BY <1>1, <1>2 DEF ChainInv

\* The server listens and starts its worker; when a signal came before, the
\* shutdown is not orderly.
LEMMA ListenUpStep == ASSUME ServerInv, ListenUp PROVE ServerInv'
<1>1. ChainInv' /\ StoppedArmsNothing' /\ ChainTypeOK'
  BY WorkerMoves DEF ListenUp, ChainNext
<1>2. ServerTypeOK'
  BY <1>1 DEF ListenUp, ServerInv, ServerTypeOK
<1>3. StopsAreAwaited' /\ QuietUnlessUp' /\ EarlyIsKnown'
  BY DEF ListenUp, Start, ServerInv, StopsAreAwaited, QuietUnlessUp, EarlyIsKnown
<1>4. StoppedForGood' /\ NoPollBehindStop'
  BY DEF ListenUp, Start, ServerInv, EarlyIsKnown, StoppedForGood, NoPollBehindStop, Orderly
<1>5. ClosedBySomeone' /\ PoolEndsLast'
  BY DEF ListenUp, ServerInv, ClosedBySomeone, PoolEndsLast
<1> QED BY <1>1, <1>2, <1>3, <1>4, <1>5 DEF ServerInv

\* A signal stops the worker and waits for the poll in flight.
LEMMA SignalStep == ASSUME ServerInv, NEW s \in Signals, Signal(s) PROVE ServerInv'
<1>1. stops[s] = NotStopping
  BY DEF Signal, ServerInv, StopsAreAwaited
<1>2. ChainInv' /\ StoppedArmsNothing' /\ ChainTypeOK'
  BY <1>1, WorkerMoves DEF Signal, Signals, ChainNext
<1>3. ServerTypeOK'
  BY <1>2 DEF Signal, ServerInv, ServerTypeOK, Steps
<1>4. stops'[s] = WaitsFor(inFlight) /\ \A t \in Signals : t # s => stops'[t] = stops[t]
  BY DEF Signal, Stop, ServerInv, ServerTypeOK, ChainTypeOK, Signals
<1>5. step'[s] = "stopping" /\ \A t \in Signals : t # s => step'[t] = step[t]
  BY DEF Signal, ServerInv, ServerTypeOK
<1>6. stops'[s] # NotStopping
  BY <1>4 DEF WaitsFor, NotStopping, Resolved
<1>7. StopsAreAwaited'
  BY <1>4, <1>5, <1>6 DEF ServerInv, StopsAreAwaited
<1>8. QuietUnlessUp' /\ EarlyIsKnown'
  BY DEF Signal, Stop, ServerInv, QuietUnlessUp, EarlyIsKnown
<1>9. StoppedForGood'
  BY DEF Signal, Stop, StoppedForGood
<1>10. NoPollBehindStop'
  <2> SUFFICES ASSUME Orderly', NEW t \in Signals, step'[t] # "none", stops'[t].at # "waiting"
               PROVE  inFlight' = NoPoll
    BY DEF NoPollBehindStop
  <2>1. inFlight' = inFlight
    BY DEF Signal, Stop
  <2>2. CASE t = s
    BY <1>4, <2>1, <2>2 DEF WaitsFor
  <2>3. CASE t # s
    <3>1. Orderly
      BY DEF Signal, Orderly
    <3> QED BY <1>4, <1>5, <2>1, <2>3, <3>1 DEF ServerInv, NoPollBehindStop
  <2> QED BY <2>2, <2>3
<1>11. ClosedBySomeone'
  <2>1. \A t \in Signals : step[t] \in Past => t # s
    BY DEF Signal, Past
  <2> QED BY <1>5, <2>1 DEF Signal, ServerInv, ClosedBySomeone
<1>12. PoolEndsLast'
  BY DEF Signal, ServerInv, PoolEndsLast
<1> QED BY <1>2, <1>3, <1>7, <1>8, <1>9, <1>10, <1>11, <1>12 DEF ServerInv

\* stop() has returned, and the app is closed.
LEMMA CloseStep == ASSUME ServerInv, NEW s \in Signals, Close(s) PROVE ServerInv'
<1>1. ChainInv' /\ StoppedArmsNothing' /\ ChainTypeOK'
  BY WorkerMoves DEF Close, Signals, ChainNext
<1>2. ServerTypeOK'
  BY <1>1 DEF Close, ServerInv, ServerTypeOK, Steps
<1>3. stops'[s] = NotStopping /\ \A t \in Signals : t # s => stops'[t] = stops[t]
  BY DEF Close, Resume, ServerInv, ServerTypeOK, ChainTypeOK, Signals
<1>4. step'[s] = "closing" /\ \A t \in Signals : t # s => step'[t] = step[t]
  BY DEF Close, ServerInv, ServerTypeOK
<1>5. UNCHANGED <<running, inFlight>>
  BY DEF Close, Resume, chain
<1>6. StopsAreAwaited'
  BY <1>3, <1>4 DEF ServerInv, StopsAreAwaited
<1>7. QuietUnlessUp'
  BY <1>5 DEF Close, ServerInv, QuietUnlessUp
<1>8. EarlyIsKnown'
  BY DEF Close, ServerInv, EarlyIsKnown
<1>9. StoppedForGood'
  BY <1>4, <1>5 DEF Close, ServerInv, StoppedForGood, Orderly
<1>10. NoPollBehindStop'
  <2>1. step[s] # "none" /\ stops[s].at # "waiting"
    BY DEF Close, Resume, Resolved
  <2> QED BY <1>3, <1>4, <1>5, <2>1 DEF Close, ServerInv, NoPollBehindStop, Orderly
<1>11. ClosedBySomeone'
  BY <1>4 DEF Past, ClosedBySomeone
<1>12. PoolEndsLast'
  BY DEF Close, ServerInv, PoolEndsLast
<1> QED BY <1>1, <1>2, <1>6, <1>7, <1>8, <1>9, <1>10, <1>11, <1>12 DEF ServerInv

\* A step of a poll leaves running alone, and whoever it lets out of stop()
\* finds no poll in flight.
LEMMA PollMoves ==
  ASSUME ChainInv, NEW p \in Polls, Fire(p) \/ PollStep(p)
  PROVE  /\ running' = running
         /\ timer \/ inFlight # NoPoll
         /\ \A c \in Callers : stops[c] = NotStopping <=> stops'[c] = NotStopping
         /\ \A c \in Callers :
              stops'[c].at # "waiting" => stops[c].at # "waiting" \/ inFlight' = NoPoll
<1>1. CASE Fire(p)
  BY <1>1 DEF Fire
<1>2. CASE PollStep(p)
  <2>1. inFlight # NoPoll
    BY <1>2, PollStepCases, PollChainAssumption DEF ChainInv, OnePollChain
  <2>2. CASE Settle(p)
    <3>1. \A c \in Callers : stops[c].poll = p => stops[c] # NotStopping
      BY PollChainAssumption DEF NotStopping
    <3>2. Resolved # NotStopping /\ inFlight' = NoPoll /\ running' = running
      BY <2>2 DEF Resolved, NotStopping, Settle
    <3>3. \A c \in Callers : stops'[c] = IF stops[c].poll = p THEN Resolved ELSE stops[c]
      BY <2>2 DEF Settle
    <3> QED BY <2>1, <3>1, <3>2, <3>3
  <2>3. CASE ~Settle(p)
    BY <1>2, <2>1, <2>3, PollStepCases DEF Claimed
  <2> QED BY <2>2, <2>3
<1> QED BY <1>1, <1>2

\* A step of the worker: it never resumes one that a signal has stopped.
LEMMA WorkerStepStep == ASSUME ServerInv, WorkerStep PROVE ServerInv'
<1>1. PICK p \in Polls : ServerFire(p) \/ ServerPollStep(p)
  BY DEF WorkerStep
<1>2. Fire(p) \/ PollStep(p)
  BY <1>1 DEF ServerFire, ServerPollStep, PollStep
<1>3. ChainInv' /\ StoppedArmsNothing' /\ ChainTypeOK'
  BY <1>2, WorkerMoves DEF ChainNext
<1>4. served' \subseteq Polls
  BY <1>1 DEF ServerFire, ServerPollStep, NowServed, ServerInv, ServerTypeOK
<1>5. ServerTypeOK'
  BY <1>3, <1>4 DEF WorkerStep, ServerInv, ServerTypeOK
<1>6. /\ running' = running
      /\ timer \/ inFlight # NoPoll
      /\ \A c \in Callers : stops[c] = NotStopping <=> stops'[c] = NotStopping
      /\ \A c \in Callers :
           stops'[c].at # "waiting" => stops[c].at # "waiting" \/ inFlight' = NoPoll
  BY <1>2, PollMoves DEF ServerInv
<1>7. StopsAreAwaited'
  BY <1>6 DEF WorkerStep, ServerInv, StopsAreAwaited, Signals
<1>8. listen = "up"
  BY <1>6 DEF ServerInv, QuietUnlessUp, StoppedArmsNothing
<1>9. QuietUnlessUp' /\ EarlyIsKnown'
  BY <1>8 DEF WorkerStep, QuietUnlessUp, EarlyIsKnown
<1>10. StoppedForGood'
  BY <1>6 DEF WorkerStep, ServerInv, StoppedForGood, Orderly
<1>11. NoPollBehindStop'
  <2> SUFFICES ASSUME Orderly', NEW t \in Signals, step'[t] # "none", stops'[t].at # "waiting",
                      inFlight' # NoPoll
               PROVE  FALSE
    BY DEF NoPollBehindStop
  <2>1. Orderly /\ step[t] # "none"
    BY DEF WorkerStep, Orderly
  <2>2. stops[t].at # "waiting"
    BY <1>6 DEF Signals
  <2>3. inFlight = NoPoll /\ ~running
    BY <2>1, <2>2 DEF ServerInv, NoPollBehindStop, StoppedForGood
  <2> QED BY <1>6, <2>3 DEF ServerInv, StoppedArmsNothing
<1>12. ClosedBySomeone' /\ PoolEndsLast'
  BY DEF WorkerStep, ServerInv, ClosedBySomeone, PoolEndsLast
<1> QED BY <1>3, <1>5, <1>7, <1>9, <1>10, <1>11, <1>12 DEF ServerInv

----------------------------------------------------------------------------

\* No step breaks the invariant.
LEMMA ServerNextInv == ServerInv /\ [ServerNext]_serverVars => ServerInv'
<1> SUFFICES ASSUME ServerInv, [ServerNext]_serverVars PROVE ServerInv'
  OBVIOUS
<1>1. CASE UNCHANGED serverVars
  <2>1. ChainInv' /\ StoppedArmsNothing' /\ ChainTypeOK'
    BY <1>1, WorkerStays DEF serverVars
  <2> QED BY <1>1, <2>1
          DEF serverVars, server, chainVars, chain, ServerInv, ServerTypeOK, StopsAreAwaited,
              QuietUnlessUp, EarlyIsKnown, StoppedForGood, NoPollBehindStop, ClosedBySomeone,
              PoolEndsLast, Orderly
<1>2. CASE \/ ListenUp \/ ListenFails \/ Request \/ AnswerRequest
           \/ Closed \/ PoolEnded \/ Exit \/ WorkerStep
  BY <1>2, ListenUpStep, ListenFailsStep, RequestStep, AnswerRequestStep, ClosedStep,
     PoolEndedStep, ExitStep, WorkerStepStep
<1>3. ASSUME NEW s \in Signals, Signal(s) \/ ShutdownStep(s) PROVE ServerInv'
  BY <1>3, SignalStep, CloseStep, EndStep, DoneStep DEF ShutdownStep
<1> QED BY <1>1, <1>2, <1>3 DEF ServerNext

\* The inductive invariant of the server process.
THEOREM ServerInvariant == ServerSpec => []ServerInv
BY ServerInitInv, ServerNextInv, PTL DEF ServerSpec

\* Type correctness of the process; the app is closed without requests.
THEOREM ServerTypeCorrect == ServerSpec => []ServerTypeOK
<1>1. ServerInv => ServerTypeOK
  BY DEF ServerInv
<1> QED BY <1>1, ServerInvariant, PTL

\* The invariant implies the order.
LEMMA OrderedClose == ServerInv => ClosesInOrder
<1> SUFFICES ASSUME ServerInv PROVE ClosesInOrder
  OBVIOUS
<1>1. ASSUME Orderly, app # "open" PROVE ~running /\ ~timer /\ inFlight = NoPoll
  <2>1. PICK s \in Signals : step[s] \in Past
    BY <1>1 DEF ServerInv, ClosedBySomeone
  <2>2. step[s] # "none" /\ stops[s].at # "waiting"
    BY <2>1 DEF Past, ServerInv, StopsAreAwaited, NotStopping
  <2>3. ~running /\ inFlight = NoPoll
    BY <1>1, <2>2 DEF ServerInv, StoppedForGood, NoPollBehindStop
  <2> QED BY <2>3 DEF ServerInv, StoppedArmsNothing
<1>2. WorkerClosedFirst
  BY <1>1 DEF WorkerClosedFirst
<1>3. NothingCutOff
  <2> SUFFICES ASSUME Orderly, database # "open" \/ exit # "none"
               PROVE  requests = 0 /\ \A p \in Polls : phase[p] = "idle"
    BY DEF NothingCutOff
  <2>1. listen = "failed" \/ app = "closed"
    BY DEF ServerInv, PoolEndsLast
  <2>2. CASE listen = "failed"
    BY <2>2, PollsIdle DEF ServerInv, QuietUnlessUp
  <2>3. CASE app = "closed"
    BY <1>1, <2>3, PollsIdle DEF ServerInv, ServerTypeOK
  <2> QED BY <2>1, <2>2, <2>3
<1> QED BY <1>2, <1>3 DEF ClosesInOrder

\* server.ts: worker, app, pool, in this order, and no claimed batch and no request
\* loses its connections, for any number of signals, polls and requests, unless
\* the worker was started behind a signal.
THEOREM ShutdownInOrder == ServerSpec => []ClosesInOrder
BY OrderedClose, ServerInvariant, PTL

\* What the server does with its worker is what its callers may do: stop() is
\* called by a signal that is not in stop() yet.
LEMMA ServerMovesChain ==
  ServerInv /\ [ServerNext]_serverVars => [ChainNext]_chainVars
<1> SUFFICES ASSUME ServerInv, [ServerNext]_serverVars PROVE [ChainNext]_chainVars
  OBVIOUS
<1>1. CASE ListenUp \/ \E s \in Signals : Close(s)
  BY <1>1 DEF ListenUp, Close, ChainNext, Signals
<1>2. CASE \E s \in Signals : Signal(s)
  <2>1. PICK s \in Signals : Signal(s)
    BY <1>2
  <2>2. stops[s] = NotStopping /\ Stop(s)
    BY <2>1 DEF Signal, ServerInv, StopsAreAwaited
  <2> QED BY <2>2 DEF ChainNext, Signals
<1>3. CASE WorkerStep
  BY <1>3 DEF WorkerStep, ServerFire, ServerPollStep, PollStep, ChainNext
<1>4. CASE \/ ListenFails \/ Request \/ AnswerRequest \/ Closed \/ PoolEnded \/ Exit
           \/ UNCHANGED serverVars \/ \E s \in Signals : End(s) \/ Done(s)
  BY <1>4 DEF ListenFails, Request, AnswerRequest, Closed, PoolEnded, Exit, End, Done, serverVars
<1> QED BY <1>1, <1>2, <1>3, <1>4 DEF ServerNext, ShutdownStep

\* server.ts runs its worker as a poll chain, so what holds of every chain holds
\* under its signals, however early, late or often they come.
THEOREM ServerStopsCleanly == ServerSpec => StopsAreClean
<1>1. ServerInit => ChainInit
  BY DEF ServerInit
<1>2. ServerSpec => ChainSpec
  BY <1>1, ServerMovesChain, ServerInvariant, PTL DEF ServerSpec, ChainSpec
<1> QED BY <1>2, CleanStops

----------------------------------------------------------------------------
(***************************************************************************)
(* ConnectionPool, for any number of callers and connections, with and     *)
(* without time-outs.                                                      *)
(*                                                                         *)
(* The argument: the queue is exactly the calls that wait, each once       *)
(* (QueueOK), so lending touches no call that has a connection and every   *)
(* connection that is out has one holder (HoldersOK).  Only the holder     *)
(* changes what its session is, and it comes to release outside a          *)
(* transaction unless its ROLLBACK failed, in which case the connection is *)
(* destroyed (SessionsOK).                                                 *)
(***************************************************************************)

\* A call that has a connection.
Held == {"begin", "work", "commit", "rollback", "release"}

Failures == {"none", "work", "commit", "lost", "timeout"}

CallState ==
  [at : Held \cup {"resting", "connecting"}, conn : Connections \cup {NoConnection},
   first : Failures, broken : BOOLEAN, thrown : Failures \cup {"ok"}]

CallsOK == call \in [Borrowers -> CallState]

\* The queue is the calls that wait for a connection, each once.
QueueOK ==
  /\ queue \in Seq(Borrowers)
  /\ \A i \in DOMAIN queue : call[queue[i]].at = "connecting"
  /\ \A i, j \in DOMAIN queue : queue[i] = queue[j] => i = j
  /\ \A k \in Borrowers : call[k].at = "connecting" => \E i \in DOMAIN queue : queue[i] = k

\* A connection that is out has one holder, any other none.
HoldersOK ==
  /\ pool \in [Connections -> {"absent", "idle", "out"}]
  /\ \A k \in Borrowers : call[k].conn # NoConnection <=> call[k].at \in Held
  /\ \A j, k \in Borrowers : call[j].conn = call[k].conn /\ call[k].conn # NoConnection => j = k
  /\ \A c \in Connections : pool[c] = "out" <=> \E k \in Borrowers : call[k].conn = c

\* Who begins, and who is about to give back a connection that is good for
\* another call, is outside a transaction; so is every idle connection.
SessionsOK ==
  /\ backend \in [Connections -> BackendStates]
  /\ \A c \in Connections : pool[c] = "idle" => backend[c] # "transaction"
  /\ \A k \in Borrowers :
       call[k].at = "begin" \/ (call[k].at = "release" /\ ~call[k].broken) =>
         backend[call[k].conn] # "transaction"

\* Nothing is thrown before a call ends; then it is the first failure.
OutcomesOK ==
  \A k \in Borrowers :
    /\ call[k].at # "resting" => call[k].thrown = "none"
    /\ call[k].at = "resting" /\ call[k].thrown # "none" =>
         call[k].thrown = IF call[k].first = "none" THEN "ok" ELSE call[k].first

PoolInv == CallsOK /\ QueueOK /\ HoldersOK /\ SessionsOK /\ OutcomesOK

----------------------------------------------------------------------------
\* The invariant holds before the first call.
LEMMA PoolInitInv == PoolInit => PoolInv
<1>. SUFFICES ASSUME PoolInit PROVE PoolInv
  OBVIOUS
<1>. USE ConnectionPoolAssumption DEF PoolInit, Resting
<1>0. \A k \in Borrowers : call[k] = Resting("none")
  OBVIOUS
<1>1. CallsOK
  BY DEF CallsOK, CallState, Failures
<1>2. QueueOK
  BY <1>0 DEF QueueOK
<1>3. HoldersOK
  BY <1>0 DEF HoldersOK, Held
<1>4. SessionsOK
  BY <1>0 DEF SessionsOK, BackendStates
<1>5. OutcomesOK
  BY <1>0 DEF OutcomesOK
<1>. QED BY <1>1, <1>2, <1>3, <1>4, <1>5 DEF PoolInv

----------------------------------------------------------------------------
(* A statement of a call *)

\* A step of a call that keeps its connection, told apart by where it goes
\* and what becomes of its session.
LEMMA StatementStep ==
  ASSUME PoolInv, NEW k \in Borrowers, call[k].at \in Held,
         NEW s \in CallState, call' = [call EXCEPT ![k] = s],
         s.at \in Held, s.conn = call[k].conn, s.thrown = "none",
         UNCHANGED <<pool, queue>>,
         backend' \in [Connections -> BackendStates],
         \A c \in Connections : c # call[k].conn => backend'[c] = backend[c],
         s.at = "begin" \/ (s.at = "release" /\ ~s.broken) =>
           backend'[call[k].conn] # "transaction"
  PROVE  PoolInv'
<1>1. call'[k] = s /\ \A j \in Borrowers \ {k} : call'[j] = call[j]
  BY DEF PoolInv, CallsOK
<1>2. CallsOK'
  BY DEF PoolInv, CallsOK
<1>3. QueueOK'
  <2>1. \A i \in DOMAIN queue : queue[i] \in Borrowers /\ queue[i] # k
    BY DEF PoolInv, QueueOK, Held
  <2>2. s.at # "connecting"
    BY DEF Held
  <2>3. \A i \in DOMAIN queue' : call'[queue'[i]].at = "connecting"
    BY <1>1, <2>1 DEF PoolInv, QueueOK
  <2>4. \A j \in Borrowers : call'[j].at = "connecting" => \E i \in DOMAIN queue' : queue'[i] = j
    BY <1>1, <2>2 DEF PoolInv, QueueOK
  <2>. QED BY <2>3, <2>4 DEF PoolInv, QueueOK
<1>4. \A j \in Borrowers : call'[j].conn = call[j].conn
  BY <1>1
<1>5. HoldersOK'
  <2>1. \A j \in Borrowers : call'[j].conn # NoConnection <=> call'[j].at \in Held
    BY <1>1 DEF PoolInv, HoldersOK
  <2>. QED BY <1>4, <2>1 DEF PoolInv, HoldersOK
<1>6. SessionsOK'
  <2>0. call[k].conn \in Connections /\ pool[call[k].conn] = "out"
    BY DEF PoolInv, CallsOK, CallState, HoldersOK
  <2>1. \A c \in Connections : pool'[c] = "idle" => backend'[c] # "transaction"
    BY <2>0 DEF PoolInv, SessionsOK
  <2>2. \A j \in Borrowers :
          call'[j].at = "begin" \/ (call'[j].at = "release" /\ ~call'[j].broken) =>
            backend'[call'[j].conn] # "transaction"
    <3>. SUFFICES ASSUME NEW j \in Borrowers,
                         call'[j].at = "begin" \/ (call'[j].at = "release" /\ ~call'[j].broken)
                  PROVE  backend'[call'[j].conn] # "transaction"
      OBVIOUS
    <3>1. CASE j = k
      BY <1>1, <3>1
    <3>2. CASE j # k
      <4>1. call'[j] = call[j] /\ call[j].at \in Held
        BY <1>1, <3>2 DEF Held
      <4>2. call[j].conn \in Connections /\ call[j].conn # call[k].conn
        BY <2>0, <3>2, <4>1 DEF PoolInv, CallsOK, CallState, HoldersOK
      <4>. QED BY <4>1, <4>2 DEF PoolInv, SessionsOK
    <3>. QED BY <3>1, <3>2
  <2>. QED BY <2>1, <2>2 DEF SessionsOK
<1>7. OutcomesOK'
  BY <1>1 DEF PoolInv, OutcomesOK, Held
<1>. QED BY <1>2, <1>3, <1>5, <1>6, <1>7 DEF PoolInv

\* What becomes of the session of a call leaves the other sessions alone.
LEMMA BecomesType ==
  ASSUME PoolInv, NEW k \in Borrowers, call[k].at \in Held, NEW x \in BackendStates, Becomes(k, x)
  PROVE  /\ backend' \in [Connections -> BackendStates]
         /\ backend'[call[k].conn] = x
         /\ \A c \in Connections : c # call[k].conn => backend'[c] = backend[c]
<1>1. call[k].conn \in Connections
  BY DEF PoolInv, CallsOK, CallState, HoldersOK
<1>. QED BY <1>1 DEF PoolInv, SessionsOK, Becomes

\* Every statement, and the loss of a connection, keeps the invariant.
LEMMA Statements ==
  ASSUME PoolInv, NEW k \in Borrowers,
         \/ Begin(k) \/ Work(k) \/ WorkFails(k) \/ Commit(k) \/ CommitRefused(k)
         \/ StatementFails(k) \/ Rollback(k) \/ RollbackFails(k) \/ ConnectionLost(k)
  PROVE  PoolInv'
<1>0. call[k] \in CallState /\ call \in [Borrowers -> CallState]
      /\ backend \in [Connections -> BackendStates]
  BY DEF PoolInv, CallsOK, SessionsOK
<1>1. call[k].at \in Held /\ call[k].thrown = "none"
  BY DEF Begin, Work, WorkFails, Commit, CommitRefused, StatementFails, Rollback,
         RollbackFails, ConnectionLost, Held, PoolInv, OutcomesOK
<1>2. ASSUME Begin(k) PROVE PoolInv'
  <2>. DEFINE s == [call[k] EXCEPT !.at = "work"]
  <2>1. s \in CallState /\ s.at = "work" /\ s.conn = call[k].conn /\ s.thrown = "none"
    BY <1>0, <1>1 DEF CallState, Held
  <2>2. call' = [call EXCEPT ![k] = s] /\ UNCHANGED <<pool, queue>> /\ Becomes(k, "transaction")
    BY <1>2 DEF Begin, CallGoes
  <2>. HIDE DEF s
  <2>. QED BY <1>1, <2>1, <2>2, BecomesType, StatementStep DEF Held, BackendStates
<1>3. ASSUME Work(k) PROVE PoolInv'
  <2>. DEFINE s == [call[k] EXCEPT !.at = "commit"]
  <2>1. s \in CallState /\ s.at = "commit" /\ s.conn = call[k].conn /\ s.thrown = "none"
    BY <1>0, <1>1 DEF CallState, Held
  <2>2. call' = [call EXCEPT ![k] = s] /\ UNCHANGED <<pool, queue, backend>>
    BY <1>3 DEF Work, CallGoes
  <2>. HIDE DEF s
  <2>. QED BY <1>0, <1>1, <2>1, <2>2, StatementStep DEF Held
<1>4. ASSUME NEW failure \in Failures \ {"none", "timeout"}, FailsWith(k, failure, "rollback"),
             UNCHANGED <<pool, queue>>,
             backend' = backend \/ Becomes(k, "clean")
      PROVE  PoolInv'
  <2>. DEFINE s == [call[k] EXCEPT !.at = "rollback", !.first = failure]
  <2>1. s \in CallState /\ s.at = "rollback" /\ s.conn = call[k].conn /\ s.thrown = "none"
    BY <1>0, <1>1, <1>4 DEF CallState, Held
  <2>2. call' = [call EXCEPT ![k] = s]
    BY <1>4 DEF FailsWith
  <2>. HIDE DEF s
  <2>3. CASE backend' = backend
    BY <1>0, <1>1, <1>4, <2>1, <2>2, <2>3, StatementStep DEF Held
  <2>4. CASE Becomes(k, "clean")
    BY <1>1, <1>4, <2>1, <2>2, <2>4, BecomesType, StatementStep DEF Held, BackendStates
  <2>. QED BY <1>4, <2>3, <2>4
<1>5. ASSUME WorkFails(k) PROVE PoolInv'
  BY <1>4, <1>5 DEF WorkFails, Failures
<1>6. ASSUME CommitRefused(k) PROVE PoolInv'
  BY <1>4, <1>6 DEF CommitRefused, Failures
<1>7. ASSUME StatementFails(k) PROVE PoolInv'
  BY <1>4, <1>7 DEF StatementFails, Failures
<1>8. ASSUME Commit(k) \/ Rollback(k) PROVE PoolInv'
  <2>. DEFINE s == [call[k] EXCEPT !.at = "release"]
  <2>1. s \in CallState /\ s.at = "release" /\ s.conn = call[k].conn /\ s.thrown = "none"
    BY <1>0, <1>1 DEF CallState, Held
  <2>2. call' = [call EXCEPT ![k] = s] /\ UNCHANGED <<pool, queue>> /\ Becomes(k, "clean")
    BY <1>8 DEF Commit, Rollback, CallGoes
  <2>. HIDE DEF s
  <2>. QED BY <1>1, <2>1, <2>2, BecomesType, StatementStep DEF Held, BackendStates
<1>9. ASSUME RollbackFails(k) PROVE PoolInv'
  <2>. DEFINE s == [call[k] EXCEPT !.at = "release", !.broken = TRUE]
  <2>1. s \in CallState /\ s.at = "release" /\ s.conn = call[k].conn /\ s.thrown = "none" /\ s.broken
    BY <1>0, <1>1 DEF CallState, Held
  <2>2. call' = [call EXCEPT ![k] = s] /\ UNCHANGED <<pool, queue, backend>>
    BY <1>9 DEF RollbackFails
  <2>. HIDE DEF s
  <2>. QED BY <1>0, <1>1, <2>1, <2>2, StatementStep DEF Held
<1>10. ASSUME ConnectionLost(k) PROVE PoolInv'
  <2>1. call' = [call EXCEPT ![k] = call[k]] /\ UNCHANGED <<pool, queue>> /\ Becomes(k, "lost")
    BY <1>0, <1>10 DEF ConnectionLost
  <2>. QED BY <1>0, <1>1, <2>1, BecomesType, StatementStep DEF BackendStates
<1>. QED BY <1>2, <1>3, <1>5, <1>6, <1>7, <1>8, <1>9, <1>10

----------------------------------------------------------------------------
(* connect and release *)

\* A call joins the queue.
LEMMA ConnectStep ==
  ASSUME PoolInv, NEW k \in Borrowers, Connect(k)
  PROVE  PoolInv'
<1>. USE ConnectionPoolAssumption
<1>1. /\ call'[k] = [at |-> "connecting", conn |-> NoConnection, first |-> "none",
                     broken |-> FALSE, thrown |-> "none"]
      /\ \A j \in Borrowers \ {k} : call'[j] = call[j]
  BY DEF PoolInv, CallsOK, Connect, Resting
<1>2. CallsOK'
  BY DEF PoolInv, CallsOK, Connect, CallState, Resting, Failures
<1>3. queue \in Seq(Borrowers) /\ queue' = Append(queue, k) /\ UNCHANGED <<pool, backend>>
      /\ call[k].conn = NoConnection /\ call[k].at = "resting"
  BY DEF PoolInv, QueueOK, HoldersOK, Held, Connect
<1>4. QueueOK'
  <2>1. queue' \in Seq(Borrowers) /\ DOMAIN queue' = 1..(Len(queue) + 1)
        /\ (\A i \in DOMAIN queue : queue'[i] = queue[i]) /\ queue'[Len(queue) + 1] = k
        /\ DOMAIN queue = 1..Len(queue)
    BY <1>3
  <2>2. \A i \in DOMAIN queue : queue[i] \in Borrowers /\ queue[i] # k
    BY <1>3 DEF PoolInv, QueueOK
  <2>3. \A i \in DOMAIN queue' : i \in DOMAIN queue \/ i = Len(queue) + 1
    BY <1>3, <2>1
  <2>4. \A i \in DOMAIN queue' : call'[queue'[i]].at = "connecting"
    BY <1>1, <2>1, <2>2, <2>3 DEF PoolInv, QueueOK
  <2>5. \A i, j \in DOMAIN queue' : queue'[i] = queue'[j] => i = j
    BY <2>1, <2>2, <2>3 DEF PoolInv, QueueOK
  <2>6. \A j \in Borrowers : call'[j].at = "connecting" => \E i \in DOMAIN queue' : queue'[i] = j
    <3>1. Len(queue) + 1 \in DOMAIN queue' /\ DOMAIN queue \subseteq DOMAIN queue'
      BY <1>3, <2>1
    <3>. QED BY <1>1, <2>1, <3>1 DEF PoolInv, QueueOK
  <2>. QED BY <2>1, <2>4, <2>5, <2>6 DEF QueueOK
<1>5. \A j \in Borrowers : call'[j].conn = call[j].conn
  BY <1>1, <1>3
<1>6. HoldersOK'
  <2>1. \A j \in Borrowers : call'[j].conn # NoConnection <=> call'[j].at \in Held
    BY <1>1 DEF PoolInv, HoldersOK, Held
  <2>. QED BY <1>3, <1>5, <2>1 DEF PoolInv, HoldersOK
<1>7. SessionsOK' /\ OutcomesOK'
  BY <1>1, <1>3 DEF PoolInv, SessionsOK, OutcomesOK
<1>. QED BY <1>2, <1>4, <1>6, <1>7 DEF PoolInv

\* The queue without its entry i.
Without(q, i) == SubSeq(q, 1, i - 1) \o SubSeq(q, i + 1, Len(q))

\* Of a queue without one of its entries: the others are still there, each once.
LEMMA QueueWithout ==
  ASSUME NEW q \in Seq(Borrowers), NEW i \in DOMAIN q, \A m, n \in DOMAIN q : q[m] = q[n] => m = n
  PROVE  /\ Without(q, i) \in Seq(Borrowers)
         /\ \A m \in DOMAIN Without(q, i) : \E n \in DOMAIN q \ {i} : Without(q, i)[m] = q[n]
         /\ \A m, n \in DOMAIN Without(q, i) : Without(q, i)[m] = Without(q, i)[n] => m = n
         /\ \A n \in DOMAIN q \ {i} : \E m \in DOMAIN Without(q, i) : Without(q, i)[m] = q[n]
<1>1. DOMAIN q = 1..Len(q) /\ Len(q) \in Nat /\ i \in 1..Len(q)
  OBVIOUS
<1>. DEFINE p == Without(q, i)
            a == SubSeq(q, 1, i - 1)
            b == SubSeq(q, i + 1, Len(q))
<1>2. a \in Seq(Borrowers) /\ Len(a) = i - 1 /\ \A m \in 1..(i - 1) : a[m] = q[m]
  BY <1>1
<1>3. b \in Seq(Borrowers) /\ Len(b) = Len(q) - i /\ \A m \in 1..(Len(q) - i) : b[m] = q[m + i]
  BY <1>1
<1>0. p = a \o b
  BY DEF Without
<1>. HIDE DEF a, b, p
<1>4. p \in Seq(Borrowers) /\ Len(p) = Len(q) - 1 /\ DOMAIN p = 1..(Len(q) - 1)
  <2>1. p \in Seq(Borrowers) /\ Len(p) = Len(a) + Len(b)
    BY <1>0, <1>2, <1>3
  <2>2. Len(p) = Len(q) - 1
    BY <1>1, <1>2, <1>3, <2>1
  <2>. QED BY <2>1, <2>2
<1>5. \A m \in 1..(Len(q) - 1) : p[m] = IF m < i THEN q[m] ELSE q[m + 1]
  <2>. TAKE m \in 1..(Len(q) - 1)
  <2>0. m \in Int /\ i \in Int /\ Len(q) \in Int /\ 1 <= m /\ m <= Len(q) - 1 /\ 1 <= i /\ i <= Len(q)
    BY <1>1
  <2>1. CASE m < i
    <3>1. m \in 1..(i - 1)
      BY <2>0, <2>1
    <3>2. p[m] = a[m]
      BY <1>0, <1>2, <1>3, <3>1
    <3>. QED BY <1>2, <2>1, <3>1, <3>2
  <2>2. CASE ~(m < i)
    <3>1. m \in (Len(a) + 1)..(Len(a) + Len(b)) /\ m - Len(a) = m - i + 1
      BY <1>2, <1>3, <2>0, <2>2
    <3>2. p[m] = b[m - i + 1]
      <4>1. m \in 1..(Len(a) + Len(b)) /\ ~(m <= Len(a))
        BY <1>2, <1>3, <2>0, <2>2
      <4>2. p[m] = b[m - Len(a)]
        <5>1. (a \o b)[m] = IF m <= Len(a) THEN a[m] ELSE b[m - Len(a)]
          BY ONLY <1>2, <1>3, <4>1, ConcatProperties, Zenon
        <5>. QED BY <1>0, <4>1, <5>1
      <4>. QED BY <3>1, <4>2
    <3>3. m - i + 1 \in 1..(Len(q) - i) /\ (m - i + 1) + i = m + 1
      BY <2>0, <2>2
    <3>. QED BY <1>3, <2>2, <3>2, <3>3
  <2>. QED BY <2>1, <2>2
<1>6. \A m \in DOMAIN p : \E n \in DOMAIN q \ {i} : p[m] = q[n]
  <2>. TAKE m \in DOMAIN p
  <2>0. m \in Int /\ 1 <= m /\ m <= Len(q) - 1 /\ m \in 1..(Len(q) - 1)
    BY <1>4
  <2>1. CASE m < i
    <3>1. m \in DOMAIN q \ {i} /\ p[m] = q[m]
      BY <1>1, <1>5, <2>0, <2>1
    <3>. QED BY <3>1
  <2>2. CASE ~(m < i)
    <3>1. m + 1 \in DOMAIN q \ {i}
      BY <1>1, <2>0, <2>2
    <3>2. p[m] = q[m + 1]
      BY <1>5, <2>0, <2>2
    <3>. QED BY <3>1, <3>2
  <2>. QED BY <2>1, <2>2
<1>7. \A m, n \in DOMAIN p : p[m] = p[n] => m = n
  <2>. SUFFICES ASSUME NEW m \in 1..(Len(q) - 1), NEW n \in 1..(Len(q) - 1), p[m] = p[n]
                PROVE  m = n
    BY <1>4
  <2>. DEFINE x == IF m < i THEN m ELSE m + 1
              y == IF n < i THEN n ELSE n + 1
  <2>1. x \in DOMAIN q /\ y \in DOMAIN q
    BY <1>1
  <2>2. q[x] = q[y]
    BY <1>5
  <2>3. x = y
    BY <2>1, <2>2
  <2>. QED BY <1>1, <2>3
<1>8. \A n \in DOMAIN q \ {i} : \E m \in DOMAIN p : p[m] = q[n]
  <2>. TAKE n \in DOMAIN q \ {i}
  <2>0. n \in 1..Len(q) /\ n # i
    BY <1>1
  <2>1. CASE n < i
    <3>1. n \in 1..(Len(q) - 1)
      BY <1>1, <2>1
    <3>2. n \in DOMAIN p /\ p[n] = q[n]
      BY <1>4, <1>5, <2>1, <3>1
    <3>. QED BY <3>2
  <2>2. CASE n > i
    <3>1. n - 1 \in 1..(Len(q) - 1) /\ ~(n - 1 < i) /\ (n - 1) + 1 = n
      BY <1>1, <2>2
    <3>2. n - 1 \in DOMAIN p /\ p[n - 1] = q[n]
      BY <1>4, <1>5, <3>1
    <3>. QED BY <3>2
  <2>3. n < i \/ n > i
    BY <1>1, <2>0
  <2>. QED BY <2>1, <2>2, <2>3
<1>. QED BY <1>4, <1>6, <1>7, <1>8 DEF p

\* A call gives up waiting.
LEMMA TimeoutStep ==
  ASSUME PoolInv, NEW k \in Borrowers, ConnectTimesOut(k)
  PROVE  PoolInv'
<1>1. /\ call'[k] = [at |-> "resting", conn |-> NoConnection, first |-> "timeout",
                     broken |-> FALSE, thrown |-> "timeout"]
      /\ \A j \in Borrowers \ {k} : call'[j] = call[j]
      /\ call[k].at = "connecting" /\ UNCHANGED <<pool, backend>>
  BY DEF PoolInv, CallsOK, ConnectTimesOut, Resting
<1>2. CallsOK'
  BY DEF PoolInv, CallsOK, ConnectTimesOut, CallState, Resting, Failures
<1>3. QueueOK'
  <2>1. PICK i \in DOMAIN queue :
          queue[i] = k /\ queue' = SubSeq(queue, 1, i - 1) \o SubSeq(queue, i + 1, Len(queue))
    BY DEF ConnectTimesOut
  <2>2. /\ queue' \in Seq(Borrowers)
        /\ \A m \in DOMAIN queue' : \E n \in DOMAIN queue \ {i} : queue'[m] = queue[n]
        /\ \A m, n \in DOMAIN queue' : queue'[m] = queue'[n] => m = n
        /\ \A n \in DOMAIN queue \ {i} : \E m \in DOMAIN queue' : queue'[m] = queue[n]
    <3>1. queue \in Seq(Borrowers) /\ \A m, n \in DOMAIN queue : queue[m] = queue[n] => m = n
      BY DEF PoolInv, QueueOK
    <3>2. queue' = Without(queue, i)
      BY <2>1 DEF Without
    <3>. QED BY ONLY <3>1, <3>2, QueueWithout
  <2>3. \A n \in DOMAIN queue \ {i} : queue[n] \in Borrowers /\ queue[n] # k
    BY <2>1 DEF PoolInv, QueueOK
  <2>4. \A m \in DOMAIN queue' : call'[queue'[m]].at = "connecting"
    BY <1>1, <2>2, <2>3 DEF PoolInv, QueueOK
  <2>5. \A j \in Borrowers : call'[j].at = "connecting" => \E m \in DOMAIN queue' : queue'[m] = j
    <3>. SUFFICES ASSUME NEW j \in Borrowers, call'[j].at = "connecting"
                  PROVE  \E m \in DOMAIN queue' : queue'[m] = j
      OBVIOUS
    <3>1. j # k /\ call[j].at = "connecting"
      BY <1>1
    <3>2. PICK n \in DOMAIN queue : queue[n] = j
      BY <3>1 DEF PoolInv, QueueOK
    <3>. QED BY <2>1, <2>2, <3>1, <3>2
  <2>. QED BY <2>2, <2>4, <2>5 DEF QueueOK
<1>4. call[k].conn = NoConnection /\ \A j \in Borrowers : call'[j].conn = call[j].conn
  BY <1>1 DEF PoolInv, HoldersOK, Held
<1>5. HoldersOK'
  <2>1. \A j \in Borrowers : call'[j].conn # NoConnection <=> call'[j].at \in Held
    BY <1>1 DEF PoolInv, HoldersOK, Held
  <2>. QED BY <1>1, <1>4, <2>1 DEF PoolInv, HoldersOK
<1>6. SessionsOK' /\ OutcomesOK'
  BY <1>1 DEF PoolInv, SessionsOK, OutcomesOK
<1>. QED BY <1>2, <1>3, <1>5, <1>6 DEF PoolInv

\* The first in the queue gets a connection nobody has.
LEMMA LendStep ==
  ASSUME PoolInv, NEW k \in Borrowers, NEW c \in Connections, Lend(k, c)
  PROVE  PoolInv'
<1>. USE ConnectionPoolAssumption
<1>0. queue \in Seq(Borrowers) /\ queue # <<>> /\ queue[1] = k /\ 1 \in DOMAIN queue
      /\ DOMAIN queue = 1..Len(queue) /\ Len(queue) \in Nat
  BY DEF PoolInv, QueueOK, Lend
<1>1. call[k].at = "connecting" /\ call[k] \in CallState /\ call[k].thrown = "none"
      /\ call[k].conn = NoConnection
  BY <1>0 DEF PoolInv, CallsOK, QueueOK, OutcomesOK, HoldersOK, Held
<1>2. /\ call'[k].at = "begin" /\ call'[k].conn = c /\ call'[k].thrown = "none"
      /\ call'[k] \in CallState
      /\ \A j \in Borrowers \ {k} : call'[j] = call[j]
  BY <1>1 DEF PoolInv, CallsOK, CallState, Lend, Held
<1>3. CallsOK'
  BY <1>1, <1>2 DEF PoolInv, CallsOK, Lend, CallState, Held
<1>4. queue' \in Seq(Borrowers) /\ DOMAIN queue' = 1..(Len(queue) - 1)
      /\ \A i \in DOMAIN queue' : i + 1 \in DOMAIN queue /\ queue'[i] = queue[i + 1]
  BY <1>0 DEF Lend
<1>5. QueueOK'
  <2>1. \A i \in DOMAIN queue' : queue'[i] \in Borrowers /\ queue'[i] # k
    <3>. SUFFICES ASSUME NEW i \in DOMAIN queue' PROVE queue'[i] \in Borrowers /\ queue'[i] # k
      OBVIOUS
    <3>1. i \in Int /\ i >= 1 /\ i + 1 # 1
      BY <1>0, <1>4
    <3>2. queue[i + 1] # queue[1]
      BY <1>0, <1>4, <3>1 DEF PoolInv, QueueOK
    <3>. QED BY <1>0, <1>4, <3>2
  <2>2. \A i \in DOMAIN queue' : call'[queue'[i]].at = "connecting"
    BY <1>2, <1>4, <2>1 DEF PoolInv, QueueOK
  <2>3. \A i, j \in DOMAIN queue' : queue'[i] = queue'[j] => i = j
    <3>. SUFFICES ASSUME NEW i \in DOMAIN queue', NEW j \in DOMAIN queue', queue'[i] = queue'[j]
                  PROVE  i = j
      OBVIOUS
    <3>1. i + 1 = j + 1
      BY <1>4 DEF PoolInv, QueueOK
    <3>2. i \in Int /\ j \in Int
      BY <1>0, <1>4
    <3>. QED BY <3>1, <3>2
  <2>4. \A j \in Borrowers : call'[j].at = "connecting" => \E i \in DOMAIN queue' : queue'[i] = j
    <3>. SUFFICES ASSUME NEW j \in Borrowers, call'[j].at = "connecting"
                  PROVE  \E i \in DOMAIN queue' : queue'[i] = j
      OBVIOUS
    <3>1. j # k /\ call[j].at = "connecting"
      BY <1>2
    <3>2. PICK n \in DOMAIN queue : queue[n] = j
      BY <3>1 DEF PoolInv, QueueOK
    <3>3. n # 1
      BY <1>0, <3>1, <3>2
    <3>4. n - 1 \in 1..(Len(queue) - 1) /\ (n - 1) + 1 = n
      BY <1>0, <3>2, <3>3
    <3>5. queue'[n - 1] = j
      BY <1>4, <3>2, <3>4
    <3>. QED BY <1>4, <3>4, <3>5
  <2>. QED BY <1>4, <2>2, <2>3, <2>4 DEF QueueOK
<1>6. pool[c] # "out" /\ pool' = [pool EXCEPT ![c] = "out"]
  BY DEF Lend
<1>7. \A j \in Borrowers : call[j].conn # c
  BY <1>6 DEF PoolInv, HoldersOK
<1>8. HoldersOK'
  <2>1. pool' \in [Connections -> {"absent", "idle", "out"}]
    BY <1>6 DEF PoolInv, HoldersOK
  <2>2. \A j \in Borrowers : call'[j].conn # NoConnection <=> call'[j].at \in Held
    BY <1>2 DEF PoolInv, HoldersOK, Held
  <2>3. \A i, j \in Borrowers : call'[i].conn = call'[j].conn /\ call'[j].conn # NoConnection => i = j
    BY <1>2, <1>7 DEF PoolInv, HoldersOK
  <2>4. \A d \in Connections : pool'[d] = "out" <=> \E j \in Borrowers : call'[j].conn = d
    <3>. TAKE d \in Connections
    <3>1. CASE d = c
      BY <1>2, <1>6, <3>1 DEF PoolInv, HoldersOK
    <3>2. CASE d # c
      <4>1. pool'[d] = pool[d] /\ \A j \in Borrowers : call'[j].conn = d <=> call[j].conn = d
        BY <1>1, <1>2, <1>6, <3>2 DEF PoolInv, HoldersOK
      <4>. QED BY <4>1 DEF PoolInv, HoldersOK
    <3>. QED BY <3>1, <3>2
  <2>. QED BY <2>1, <2>2, <2>3, <2>4 DEF HoldersOK
<1>9. SessionsOK'
  <2>1. backend' \in [Connections -> BackendStates] /\ backend'[c] # "transaction"
        /\ \A d \in Connections \ {c} : backend'[d] = backend[d]
    BY DEF PoolInv, SessionsOK, Lend, BackendStates
  <2>2. \A d \in Connections : pool'[d] = "idle" => backend'[d] # "transaction"
    BY <1>6, <2>1 DEF PoolInv, HoldersOK, SessionsOK
  <2>3. \A j \in Borrowers :
          call'[j].at = "begin" \/ (call'[j].at = "release" /\ ~call'[j].broken) =>
            backend'[call'[j].conn] # "transaction"
    <3>. SUFFICES ASSUME NEW j \in Borrowers,
                         call'[j].at = "begin" \/ (call'[j].at = "release" /\ ~call'[j].broken)
                  PROVE  backend'[call'[j].conn] # "transaction"
      OBVIOUS
    <3>1. CASE j = k
      BY <1>2, <2>1, <3>1
    <3>2. CASE j # k
      <4>1. call'[j] = call[j] /\ call[j].conn \in Connections \ {c}
        BY <1>2, <1>7, <3>2 DEF PoolInv, CallsOK, CallState, HoldersOK, Held
      <4>. QED BY <2>1, <4>1 DEF PoolInv, SessionsOK
    <3>. QED BY <3>1, <3>2
  <2>. QED BY <2>1, <2>2, <2>3 DEF SessionsOK
<1>10. OutcomesOK'
  BY <1>2 DEF PoolInv, OutcomesOK
<1>. QED BY <1>3, <1>5, <1>8, <1>9, <1>10 DEF PoolInv

\* A call gives its connection back.
LEMMA ReleaseStep ==
  ASSUME PoolInv, NEW k \in Borrowers, Release(k)
  PROVE  PoolInv'
<1>. DEFINE c == call[k].conn
<1>. USE ConnectionPoolAssumption
<1>1. call[k].at = "release" /\ call[k] \in CallState /\ call[k].thrown = "none"
      /\ c \in Connections /\ pool[c] = "out"
  BY DEF PoolInv, CallsOK, CallState, OutcomesOK, HoldersOK, Held, Release
<1>2. Outcome(k) = IF call[k].first = "none" THEN "ok" ELSE call[k].first
  BY <1>1 DEF Outcome
<1>3. /\ call'[k] = [at |-> "resting", conn |-> NoConnection, first |-> call[k].first,
                     broken |-> FALSE, thrown |-> Outcome(k)]
      /\ \A j \in Borrowers \ {k} : call'[j] = call[j]
      /\ queue' = queue
  BY DEF PoolInv, CallsOK, Release, Resting
<1>4. CallsOK'
  <2>1. call[k].first \in Failures
    BY <1>1 DEF CallState
  <2>2. Outcome(k) \in Failures \cup {"ok"}
    BY <1>2, <2>1
  <2>3. call'[k] \in CallState
    BY <1>3, <2>1, <2>2 DEF CallState
  <2>4. call' \in [Borrowers -> CallState]
    BY <2>3 DEF PoolInv, CallsOK, Release
  <2>. QED BY <2>4 DEF CallsOK
<1>5. QueueOK'
  <2>1. \A i \in DOMAIN queue : queue[i] \in Borrowers /\ queue[i] # k
    BY <1>1 DEF PoolInv, QueueOK
  <2>. QED BY <1>3, <2>1 DEF PoolInv, QueueOK
<1>6. /\ pool' \in [Connections -> {"absent", "idle", "out"}] /\ pool'[c] # "out"
      /\ backend' \in [Connections -> BackendStates]
      /\ pool'[c] = "idle" => backend'[c] # "transaction"
      /\ \A d \in Connections \ {c} : pool'[d] = pool[d] /\ backend'[d] = backend[d]
  <2>0. TakeBack(k, c)
    BY DEF Release
  <2>1. CASE call[k].broken \/ backend[c] = "lost"
    BY <1>1, <2>0, <2>1 DEF PoolInv, HoldersOK, SessionsOK, TakeBack, BackendStates
  <2>2. CASE ~(call[k].broken \/ backend[c] = "lost")
    BY <1>1, <2>0, <2>2 DEF PoolInv, HoldersOK, SessionsOK, TakeBack
  <2>. QED BY <2>1, <2>2
<1>7. \A j \in Borrowers \ {k} : call[j].conn # c
  BY <1>1 DEF PoolInv, HoldersOK
<1>8. HoldersOK'
  <2>1. \A j \in Borrowers : call'[j].conn # NoConnection <=> call'[j].at \in Held
    BY <1>3 DEF PoolInv, HoldersOK, Held
  <2>2. \A i, j \in Borrowers : call'[i].conn = call'[j].conn /\ call'[j].conn # NoConnection => i = j
    BY <1>3 DEF PoolInv, HoldersOK
  <2>3. \A d \in Connections : pool'[d] = "out" <=> \E j \in Borrowers : call'[j].conn = d
    <3>. TAKE d \in Connections
    <3>1. CASE d = c
      BY <1>3, <1>6, <1>7, <3>1
    <3>2. CASE d # c
      <4>1. pool'[d] = pool[d] /\ \A j \in Borrowers : call'[j].conn = d <=> call[j].conn = d
        BY <1>3, <1>6, <3>2
      <4>. QED BY <4>1 DEF PoolInv, HoldersOK
    <3>. QED BY <3>1, <3>2
  <2>. QED BY <1>6, <2>1, <2>2, <2>3 DEF HoldersOK
<1>9. SessionsOK'
  <2>1. \A d \in Connections : pool'[d] = "idle" => backend'[d] # "transaction"
    BY <1>6 DEF PoolInv, SessionsOK
  <2>2. \A j \in Borrowers :
          call'[j].at = "begin" \/ (call'[j].at = "release" /\ ~call'[j].broken) =>
            backend'[call'[j].conn] # "transaction"
    <3>. SUFFICES ASSUME NEW j \in Borrowers,
                         call'[j].at = "begin" \/ (call'[j].at = "release" /\ ~call'[j].broken)
                  PROVE  backend'[call'[j].conn] # "transaction"
      OBVIOUS
    <3>1. j # k
      BY <1>3
    <3>2. call'[j] = call[j] /\ call[j].conn \in Connections \ {c}
      BY <1>3, <1>7, <3>1 DEF PoolInv, CallsOK, CallState, HoldersOK, Held
    <3>. QED BY <1>6, <3>2 DEF PoolInv, SessionsOK
  <2>. QED BY <1>6, <2>1, <2>2 DEF SessionsOK
<1>10. OutcomesOK'
  BY <1>2, <1>3 DEF PoolInv, OutcomesOK
<1>. QED BY <1>4, <1>5, <1>8, <1>9, <1>10 DEF PoolInv

\* An idle connection is discarded.
LEMMA IdleErrorStep ==
  ASSUME PoolInv, NEW c \in Connections, IdleError(c)
  PROVE  PoolInv'
<1>1. CallsOK' /\ QueueOK' /\ OutcomesOK'
  BY DEF PoolInv, CallsOK, QueueOK, OutcomesOK, IdleError
<1>2. \A k \in Borrowers : call[k].conn # c
  BY DEF PoolInv, HoldersOK, IdleError
<1>3. HoldersOK'
  BY <1>2 DEF PoolInv, HoldersOK, IdleError
<1>4. SessionsOK'
  BY <1>2 DEF PoolInv, HoldersOK, SessionsOK, IdleError, BackendStates
<1>. QED BY <1>1, <1>3, <1>4 DEF PoolInv

\* No step breaks the invariant.
LEMMA PoolNextInv ==
  ASSUME PoolInv, [PoolNext]_poolVars
  PROVE  PoolInv'
<1>1. ASSUME NEW k \in Borrowers, Connect(k) \/ ConnectTimesOut(k) \/ ConnectionLost(k)
      PROVE  PoolInv'
  BY <1>1, ConnectStep, TimeoutStep, Statements
<1>2. ASSUME NEW k \in Borrowers, Proceeds(k)
      PROVE  PoolInv'
  <2>1. ASSUME NEW c \in Connections, Lend(k, c)
        PROVE  PoolInv'
    BY <2>1, LendStep
  <2>. QED BY <1>2, <2>1, ReleaseStep, Statements DEF Proceeds
<1>3. ASSUME NEW c \in Connections, IdleError(c)
      PROVE  PoolInv'
  BY <1>3, IdleErrorStep
<1>4. CASE UNCHANGED poolVars
  BY <1>4 DEF PoolInv, CallsOK, QueueOK, HoldersOK, SessionsOK, OutcomesOK, poolVars
<1>. QED BY <1>1, <1>2, <1>3, <1>4 DEF PoolNext

----------------------------------------------------------------------------
\* The inductive invariant, of which the theorems below are parts.
THEOREM PoolInvariant == PoolSpec => []PoolInv
<1>1. PoolInit => PoolInv
  BY PoolInitInv
<1>2. PoolInv /\ [PoolNext]_poolVars => PoolInv'
  BY PoolNextInv
<1>. QED BY <1>1, <1>2, PTL DEF PoolSpec

\* createPool: a connection that is out is held by exactly one call, and a
\* call that waits is in the queue exactly once.
THEOREM PoolTypeCorrect == PoolSpec => []PoolTypeOK
<1>1. PoolInv => PoolTypeOK
  <2>. SUFFICES ASSUME PoolInv PROVE PoolTypeOK
    OBVIOUS
  <2>. USE ConnectionPoolAssumption
  <2>1. ASSUME NEW c \in Connections
        PROVE  Cardinality({k \in Borrowers : call[k].conn = c}) = IF pool[c] = "out" THEN 1 ELSE 0
    <3>. DEFINE S == {k \in Borrowers : call[k].conn = c}
    <3>1. CASE pool[c] = "out"
      <4>1. PICK k \in Borrowers : call[k].conn = c
        BY <3>1 DEF PoolInv, HoldersOK
      <4>2. S = {k}
        BY <4>1 DEF PoolInv, HoldersOK
      <4>. QED BY <3>1, <4>2, FS_Singleton
    <3>2. CASE pool[c] # "out"
      <4>1. S = {}
        BY <3>2 DEF PoolInv, HoldersOK
      <4>. QED BY <3>2, <4>1, FS_EmptySet
    <3>. QED BY <3>1, <3>2
  <2>2. ASSUME NEW k \in Borrowers
        PROVE  Cardinality({i \in DOMAIN queue : queue[i] = k})
                 = IF call[k].at = "connecting" THEN 1 ELSE 0
    <3>. DEFINE S == {i \in DOMAIN queue : queue[i] = k}
    <3>1. CASE call[k].at = "connecting"
      <4>1. PICK i \in DOMAIN queue : queue[i] = k
        BY <3>1 DEF PoolInv, QueueOK
      <4>2. S = {i}
        BY <4>1 DEF PoolInv, QueueOK
      <4>. QED BY <3>1, <4>2, FS_Singleton
    <3>2. CASE call[k].at # "connecting"
      <4>1. S = {}
        BY <3>2 DEF PoolInv, QueueOK
      <4>. QED BY <3>2, <4>1, FS_EmptySet
    <3>. QED BY <3>1, <3>2
  <2>. QED BY <2>1, <2>2 DEF PoolInv, HoldersOK, SessionsOK, PoolTypeOK
<1>. QED BY PoolInvariant, <1>1, PTL

\* withTransaction: no connection is handed over in the middle of somebody
\* else's transaction, although ROLLBACK may fail on a living connection.
THEOREM CleanHandover == PoolSpec => []NoInheritedTransaction
<1>1. PoolInv => NoInheritedTransaction
  BY DEF PoolInv, SessionsOK, NoInheritedTransaction
<1>. QED BY PoolInvariant, <1>1, PTL

\* withTransaction: a call that ended tells its first failure, or its success.
THEOREM FirstFailure == PoolSpec => []FirstFailureWins
<1>1. PoolInv => FirstFailureWins
  BY DEF PoolInv, OutcomesOK, FirstFailureWins
<1>. QED BY PoolInvariant, <1>1, PTL

\* withTransaction: both, for any number of callers and connections.
THEOREM Independence == PoolSpec => []CallsAreIndependent
<1>1. NoInheritedTransaction /\ FirstFailureWins => CallsAreIndependent
  BY DEF CallsAreIndependent
<1>. QED BY CleanHandover, FirstFailure, <1>1, PTL

----------------------------------------------------------------------------
(***************************************************************************)
(* Migrations, for any number of runners, files and starts.                *)
(*                                                                         *)
(* The argument: a runner only looks at a file when all before it are      *)
(* recorded, because it recorded them itself or read their names           *)
(* (Progress).  One that is about to record a file holds it alone and the  *)
(* file has not taken effect, since its rivals wait (Exclusive).  So what  *)
(* is recorded is always a prefix of the files (Prefix), and each commit   *)
(* makes it longer by one: that is the refinement of OncePerFile.          *)
(***************************************************************************)

Stages == {"idle", "creating", "reading", "choosing", "running", "recording", "done", "failed"}

RunnersOK ==
  runner \in [Runners -> [at : Stages, known : SUBSET (1..Files), file : 1..(Files + 1),
                          starts : 0..MaxStarts]]

\* A runner starts at the first file, and the files before the one it is
\* looking at are recorded.
Progress ==
  \A r \in Runners :
    /\ runner[r].at \in {"creating", "reading"} => runner[r].file = 1
    /\ runner[r].at \in {"choosing", "running", "recording"} =>
         1..(runner[r].file - 1) \subseteq recorded
    /\ runner[r].at \in {"running", "recording"} => runner[r].file \in 1..Files

\* A file whose statements a transaction has run is in that one's hands only.
Exclusive ==
  \A r \in Runners : runner[r].at = "recording" =>
    /\ runner[r].file \notin recorded
    /\ \A q \in Runners \ {r} :
         runner[q].at = "recording" => runner[q].file # runner[r].file

\* What is recorded is a prefix of the files.
Prefix == \E n \in 0..Files : recorded = 1..n

MigrationsInv ==
  /\ MigrationsTypeOK /\ RunnersOK
  /\ Progress /\ Exclusive
  /\ RecordedIsApplied /\ DoneIsComplete
  /\ Prefix

----------------------------------------------------------------------------
\* The invariant holds of a database nobody has migrated.
LEMMA MigrationsInitInv == MigrationsInit => MigrationsInv
<1>. USE MigrationsAssumption DEF MigrationsInit, Ready
<1>. SUFFICES ASSUME MigrationsInit PROVE MigrationsInv
  OBVIOUS
<1>1. RunnersOK
  BY DEF RunnersOK, Stages
<1>2. MigrationsTypeOK
  <2>1. \A r \in Runners : runner[r] = [at |-> "idle", known |-> {}, file |-> 1, starts |-> 0]
    OBVIOUS
  <2>2. schema \in [1..Files -> Nat]
    OBVIOUS
  <2>3. \A r \in Runners :
          /\ runner[r].known \subseteq recorded
          /\ runner[r].file \in 1..(Files + 1)
          /\ runner[r].starts \in 0..MaxStarts
          /\ runner[r].at = "idle"
    BY <2>1
  <2>4. table \in BOOLEAN /\ recorded \subseteq 1..Files
    OBVIOUS
  <2>. QED BY <2>2, <2>3, <2>4 DEF MigrationsTypeOK
<1>3. Progress /\ Exclusive /\ DoneIsComplete
  BY DEF Progress, Exclusive, DoneIsComplete
<1>4. RecordedIsApplied
  BY DEF RecordedIsApplied
<1>5. 0 \in 0..Files /\ recorded = 1..0
  OBVIOUS
<1>6. Prefix
  BY <1>5 DEF Prefix
<1>. QED BY <1>1, <1>2, <1>3, <1>4, <1>6 DEF MigrationsInv

\* A runner that is put to rest, waits for the names, or looks at a file of
\* which it knows enough, and changes no table, breaks nothing.
LEMMA QuietStep ==
  ASSUME MigrationsInv, NEW r \in Runners, table' \in BOOLEAN, table => table',
         UNCHANGED <<recorded, schema>>,
         NEW s \in [at : Stages, known : SUBSET (1..Files), file : 1..(Files + 1),
                    starts : 0..MaxStarts],
         runner' = [runner EXCEPT ![r] = s],
         s.known \subseteq recorded,
         s.at \in {"reading", "choosing", "running", "recording"} => table',
         s.at \in {"creating", "reading"} => s.file = 1,
         s.at \in {"choosing", "running", "recording"} => 1..(s.file - 1) \subseteq recorded,
         s.at \in {"running", "recording"} => s.file \in 1..Files,
         s.at = "recording" => s.file \notin recorded /\ ~Blocked(r) /\ s.file = runner[r].file,
         s.at = "done" => recorded = 1..Files
  PROVE  MigrationsInv'
<1>. USE MigrationsAssumption
<1>0. runner'[r] = s /\ \A q \in Runners \ {r} : runner'[q] = runner[q]
  BY DEF MigrationsInv, RunnersOK
<1>1. RunnersOK'
  BY DEF MigrationsInv, RunnersOK
<1>2. MigrationsTypeOK'
  <2>. SUFFICES ASSUME NEW q \in Runners
                PROVE  /\ runner'[q].known \subseteq recorded'
                       /\ runner'[q].file \in 1..(Files + 1)
                       /\ runner'[q].starts \in 0..MaxStarts
                       /\ runner'[q].at \in {"reading", "choosing", "running", "recording"} => table'
    BY DEF MigrationsInv, MigrationsTypeOK
  <2>1. CASE q = r
    BY <1>0, <2>1
  <2>2. CASE q # r
    BY <1>0, <2>2 DEF MigrationsInv, MigrationsTypeOK
  <2>. QED BY <2>1, <2>2
<1>3. Progress'
  BY <1>0 DEF MigrationsInv, Progress
<1>4. Exclusive'
  <2>. SUFFICES ASSUME NEW q \in Runners, runner'[q].at = "recording"
                PROVE  /\ runner'[q].file \notin recorded
                       /\ \A p \in Runners \ {q} :
                            runner'[p].at = "recording" => runner'[p].file # runner'[q].file
    BY DEF Exclusive
  <2>1. CASE q = r
    BY <1>0, <2>1 DEF Blocked
  <2>2. CASE q # r
    BY <1>0, <2>2 DEF MigrationsInv, Exclusive, Blocked
  <2>. QED BY <2>1, <2>2
<1>5. RecordedIsApplied' /\ Prefix'
  BY DEF MigrationsInv, RecordedIsApplied, Prefix
<1>6. DoneIsComplete'
  BY <1>0 DEF MigrationsInv, DoneIsComplete
<1>. QED BY <1>1, <1>2, <1>3, <1>4, <1>5, <1>6 DEF MigrationsInv

\* Before a commit: the file it records is the first one that is missing.
LEMMA CommitsTheNext ==
  ASSUME MigrationsInv, NEW r \in Runners, runner[r].at = "recording"
  PROVE  /\ runner[r].file \in 1..Files
         /\ recorded = 1..(runner[r].file - 1)
         /\ schema[runner[r].file] = 0
<1>. USE MigrationsAssumption
<1>1. runner[r].file \in 1..Files /\ runner[r].file \notin recorded
      /\ 1..(runner[r].file - 1) \subseteq recorded
  BY DEF MigrationsInv, Progress, Exclusive
<1>2. PICK n \in 0..Files : recorded = 1..n
  BY DEF MigrationsInv, Prefix
<1>3. n = runner[r].file - 1
  <2>1. ~(runner[r].file <= n)
    BY <1>1, <1>2
  <2>2. ~(runner[r].file - 1 > n)
    <3>. SUFFICES ASSUME runner[r].file - 1 > n PROVE FALSE
      OBVIOUS
    <3>1. runner[r].file - 1 \in 1..(runner[r].file - 1)
      BY <1>1
    <3>. QED BY <1>1, <1>2, <3>1
  <2>. QED BY <1>1, <2>1, <2>2
<1>. QED BY <1>1, <1>2, <1>3 DEF MigrationsInv, RecordedIsApplied

\* The one step that changes the schema.
LEMMA RecordStep ==
  ASSUME MigrationsInv, NEW r \in Runners, RecordAndCommit(r)
  PROVE  MigrationsInv'
<1>. DEFINE f == runner[r].file
<1>. USE MigrationsAssumption
<1>1. f \in 1..Files /\ recorded = 1..(f - 1) /\ schema[f] = 0
  BY CommitsTheNext DEF RecordAndCommit
<1>2. recorded' = 1..f
  BY <1>1 DEF RecordAndCommit
<1>3. /\ runner'[r].at = "choosing" /\ runner'[r].file = f + 1
      /\ runner'[r].known = runner[r].known /\ runner'[r].starts = runner[r].starts
      /\ \A q \in Runners \ {r} : runner'[q] = runner[q]
  BY DEF MigrationsInv, RunnersOK, RecordAndCommit
<1>4. RunnersOK'
  BY <1>1 DEF MigrationsInv, RunnersOK, RecordAndCommit, Stages
<1>5. schema' = [schema EXCEPT ![f] = 1] /\ schema' \in [1..Files -> Nat]
  BY <1>1 DEF MigrationsInv, MigrationsTypeOK, RecordAndCommit
<1>6. MigrationsTypeOK'
  <2>1. table' = table /\ table \in BOOLEAN /\ recorded' \subseteq 1..Files
    BY <1>1, <1>2 DEF MigrationsInv, MigrationsTypeOK, RecordAndCommit
  <2>. SUFFICES ASSUME NEW q \in Runners
                PROVE  /\ runner'[q].known \subseteq recorded'
                       /\ runner'[q].file \in 1..(Files + 1)
                       /\ runner'[q].starts \in 0..MaxStarts
                       /\ runner'[q].at \in {"reading", "choosing", "running", "recording"} => table'
    BY <1>5, <2>1 DEF MigrationsTypeOK
  <2>2. recorded \subseteq recorded'
    BY DEF RecordAndCommit
  <2>3. CASE q = r
    <3>1. runner[r].known \subseteq recorded /\ runner[r].starts \in 0..MaxStarts /\ table
      BY DEF MigrationsInv, MigrationsTypeOK, RecordAndCommit
    <3>. QED BY <1>1, <1>3, <2>1, <2>2, <2>3, <3>1
  <2>4. CASE q # r
    BY <1>3, <2>1, <2>2, <2>4 DEF MigrationsInv, MigrationsTypeOK
  <2>. QED BY <2>3, <2>4
<1>7. Progress'
  <2>. SUFFICES ASSUME NEW q \in Runners
                PROVE  /\ runner'[q].at \in {"creating", "reading"} => runner'[q].file = 1
                       /\ runner'[q].at \in {"choosing", "running", "recording"} =>
                            1..(runner'[q].file - 1) \subseteq recorded'
                       /\ runner'[q].at \in {"running", "recording"} => runner'[q].file \in 1..Files
    BY DEF Progress
  <2>1. CASE q = r
    BY <1>1, <1>2, <1>3, <2>1
  <2>2. CASE q # r
    BY <1>3, <2>2 DEF MigrationsInv, Progress, RecordAndCommit
  <2>. QED BY <2>1, <2>2
<1>8. Exclusive'
  <2>. SUFFICES ASSUME NEW q \in Runners, runner'[q].at = "recording"
                PROVE  /\ runner'[q].file \notin recorded'
                       /\ \A p \in Runners \ {q} :
                            runner'[p].at = "recording" => runner'[p].file # runner'[q].file
    BY DEF Exclusive
  <2>1. q # r /\ runner[q].at = "recording" /\ runner'[q] = runner[q]
    BY <1>3
  <2>2. runner[q].file # f /\ runner[q].file \notin recorded
    BY <2>1 DEF MigrationsInv, Exclusive, RecordAndCommit
  <2>3. \A p \in Runners \ {q} :
          runner'[p].at = "recording" => runner'[p].file # runner'[q].file
    BY <1>3, <2>1 DEF MigrationsInv, Exclusive
  <2>4. runner'[q].file \notin recorded'
    BY <2>1, <2>2 DEF RecordAndCommit
  <2>. QED BY <2>3, <2>4
<1>9. RecordedIsApplied'
  BY <1>1, <1>2, <1>5 DEF MigrationsInv, MigrationsTypeOK, RecordedIsApplied
<1>10. DoneIsComplete'
  BY <1>1, <1>3 DEF MigrationsInv, MigrationsTypeOK, DoneIsComplete, RecordAndCommit
<1>11. Prefix'
  BY <1>1, <1>2 DEF Prefix
<1>. QED BY <1>4, <1>6, <1>7, <1>8, <1>9, <1>10, <1>11 DEF MigrationsInv

----------------------------------------------------------------------------
\* No step breaks the invariant.
LEMMA MigrationsNextInv ==
  ASSUME MigrationsInv, [MigrationsNext]_migrationsVars
  PROVE  MigrationsInv'
<1>. USE MigrationsAssumption
<1>. DEFINE State == [at : Stages, known : SUBSET (1..Files), file : 1..(Files + 1),
                      starts : 0..MaxStarts]
<1>0. runner \in [Runners -> State] /\ table \in BOOLEAN /\ recorded \subseteq 1..Files
  BY DEF MigrationsInv, RunnersOK, MigrationsTypeOK
<1>1. ASSUME NEW r \in Runners, NEW stage \in {"failed", "reading"},
             table' \in BOOLEAN, table => table',
             stage = "reading" => table' /\ runner[r].file = 1,
             UNCHANGED <<recorded, schema>>, RunnerGoes(r, stage)
      PROVE  MigrationsInv'
  <2>. DEFINE s == [runner[r] EXCEPT !.at = stage]
  <2>1. s \in State /\ s.at = stage /\ s.known = runner[r].known /\ s.file = runner[r].file
    BY <1>0 DEF Stages
  <2>2. runner' = [runner EXCEPT ![r] = s]
    BY <1>1 DEF RunnerGoes
  <2>3. s.known \subseteq recorded
    BY <2>1 DEF MigrationsInv, MigrationsTypeOK
  <2>. HIDE DEF s
  <2>. QED BY <1>1, <2>1, <2>2, <2>3, QuietStep
<1>2. ASSUME NEW r \in Runners, StartRunner(r)
      PROVE  MigrationsInv'
  <2>. DEFINE s == [Ready EXCEPT !.at = "creating", !.starts = runner[r].starts + 1]
  <2>0. runner[r].starts + 1 \in 0..MaxStarts
    BY <1>0, <1>2 DEF StartRunner
  <2>1. Ready \in State /\ Ready.known = {} /\ Ready.file = 1
    BY DEF Ready, Stages
  <2>3. s \in State /\ s.at = "creating" /\ s.known = {} /\ s.file = 1
    BY <2>0, <2>1 DEF Stages
  <2>2. runner' = [runner EXCEPT ![r] = s] /\ UNCHANGED <<table, recorded, schema>>
    BY <1>2 DEF StartRunner
  <2>. HIDE DEF s
  <2>. QED BY <1>0, <2>3, <2>2, QuietStep
<1>3. ASSUME NEW r \in Runners, CreateTable(r)
      PROVE  MigrationsInv'
  <2>1. runner[r].file = 1
    BY <1>3 DEF CreateTable, MigrationsInv, Progress
  <2>. QED BY <1>0, <1>1, <1>3, <2>1 DEF CreateTable
<1>4. ASSUME NEW r \in Runners, ReadApplied(r)
      PROVE  MigrationsInv'
  <2>. DEFINE s == [runner[r] EXCEPT !.at = "choosing", !.known = recorded]
  <2>1. s \in State /\ s.at = "choosing" /\ s.known = recorded /\ s.file = 1
    BY <1>0, <1>4 DEF ReadApplied, MigrationsInv, Progress, Stages
  <2>2. runner' = [runner EXCEPT ![r] = s] /\ UNCHANGED <<table, recorded, schema>>
    BY <1>4 DEF ReadApplied
  <2>3. table /\ 1..(s.file - 1) \subseteq recorded
    BY <1>4, <2>1 DEF ReadApplied, MigrationsInv, MigrationsTypeOK
  <2>. HIDE DEF s
  <2>. QED BY <1>0, <2>1, <2>2, <2>3, QuietStep
<1>5. ASSUME NEW r \in Runners, Choose(r)
      PROVE  MigrationsInv'
  <2>. DEFINE f == runner[r].file
  <2>1. /\ f \in 1..(Files + 1) /\ 1..(f - 1) \subseteq recorded /\ table
        /\ runner[r].known \subseteq recorded
    BY <1>5 DEF Choose, MigrationsInv, MigrationsTypeOK, Progress
  <2>2. UNCHANGED <<table, recorded, schema>>
    BY <1>5 DEF Choose, RunnerGoes
  <2>3. CASE f > Files
    <3>. DEFINE s == [runner[r] EXCEPT !.at = "done"]
    <3>1. s \in State /\ s.at = "done" /\ s.known = runner[r].known
      BY <1>0 DEF Stages
    <3>2. runner' = [runner EXCEPT ![r] = s]
      BY <1>5, <2>3 DEF Choose, RunnerGoes
    <3>3. recorded = 1..Files
      <4>1. f - 1 = Files
        BY <2>1, <2>3
      <4>. QED BY <1>0, <2>1, <4>1
    <3>. HIDE DEF s
    <3>. QED BY <1>0, <2>1, <2>2, <3>1, <3>2, <3>3, QuietStep
  <2>4. CASE f <= Files /\ Skips(r)
    <3>. DEFINE s == [runner[r] EXCEPT !.file = @ + 1]
    <3>1. s \in State /\ s.at = "choosing" /\ s.known = runner[r].known /\ s.file = f + 1
      BY <1>0, <1>5, <2>1, <2>4 DEF Choose, Stages
    <3>2. runner' = [runner EXCEPT ![r] = s]
      <4>1. ~(f > Files)
        BY <2>1, <2>4
      <4>. QED BY <1>5, <2>4, <4>1 DEF Choose, RunnerGoes
    <3>3. 1..(s.file - 1) \subseteq recorded
      <4>1. s.file - 1 = f /\ f \in recorded
        BY <2>1, <2>4, <3>1 DEF Skips
      <4>. QED BY <2>1, <4>1
    <3>. HIDE DEF s
    <3>. QED BY <1>0, <2>1, <2>2, <3>1, <3>2, <3>3, QuietStep
  <2>5. CASE f <= Files /\ ~Skips(r)
    <3>. DEFINE s == [runner[r] EXCEPT !.at = "running"]
    <3>1. s \in State /\ s.at = "running" /\ s.known = runner[r].known /\ s.file = f
      BY <1>0 DEF Stages
    <3>2. runner' = [runner EXCEPT ![r] = s]
      <4>1. ~(f > Files)
        BY <2>1, <2>5
      <4>. QED BY <1>5, <2>5, <4>1 DEF Choose, RunnerGoes
    <3>3. s.file \in 1..Files /\ 1..(s.file - 1) \subseteq recorded
      BY <2>1, <2>5, <3>1
    <3>. HIDE DEF s
    <3>. QED BY <1>0, <2>1, <2>2, <3>1, <3>2, <3>3, QuietStep
  <2>. QED BY <2>1, <2>3, <2>4, <2>5
<1>6. ASSUME NEW r \in Runners, RunFile(r)
      PROVE  MigrationsInv'
  <2>. DEFINE s == [runner[r] EXCEPT !.at = "recording"]
  <2>0. UNCHANGED <<table, recorded, schema>> /\ ~Blocked(r)
    BY <1>6 DEF RunFile
  <2>1. s \in State /\ s.at = "recording" /\ s.known = runner[r].known /\ s.file = runner[r].file
    BY <1>0 DEF Stages
  <2>2. /\ runner[r].file \in 1..Files /\ 1..(runner[r].file - 1) \subseteq recorded
        /\ table /\ runner[r].known \subseteq recorded
    BY <1>6 DEF RunFile, MigrationsInv, MigrationsTypeOK, Progress
  <2>3. CASE schema[runner[r].file] = 0
    <3>1. runner' = [runner EXCEPT ![r] = s]
      BY <1>6, <2>3 DEF RunFile, RunnerGoes
    <3>2. runner[r].file \notin recorded
      BY <2>2, <2>3 DEF MigrationsInv, RecordedIsApplied
    <3>. HIDE DEF s
    <3>. QED BY <1>0, <2>0, <2>1, <2>2, <3>1, <3>2, QuietStep
  <2>4. CASE schema[runner[r].file] # 0
    <3>1. RunnerGoes(r, "failed")
      BY <1>6, <2>4 DEF RunFile
    <3>. QED BY <1>0, <1>1, <2>0, <3>1
  <2>. QED BY <2>3, <2>4
<1>7. ASSUME NEW r \in Runners, RecordAndCommit(r)
      PROVE  MigrationsInv'
  BY <1>7, RecordStep
<1>8. ASSUME NEW r \in Runners, Fail(r) \/ Crash(r)
      PROVE  MigrationsInv'
  BY <1>0, <1>1, <1>8 DEF Fail, Crash, Throws
<1>9. CASE UNCHANGED migrationsVars
  BY <1>9 DEF MigrationsInv, MigrationsTypeOK, RunnersOK, Progress, Exclusive, RecordedIsApplied,
              DoneIsComplete, Prefix, migrationsVars
<1>. QED BY <1>2, <1>3, <1>4, <1>5, <1>6, <1>7, <1>8, <1>9 DEF MigrationsNext, Step

\* The inductive invariant, of which the theorems below are parts.
THEOREM MigrationsInvariant == MigrationsSpec => []MigrationsInv
<1>1. MigrationsInit => MigrationsInv
  BY MigrationsInitInv
<1>2. MigrationsInv /\ [MigrationsNext]_migrationsVars => MigrationsInv'
  BY MigrationsNextInv
<1>. QED BY <1>1, <1>2, PTL DEF MigrationsSpec

\* Type correctness: nobody knows a name that is not recorded, and nobody
\* reads the table of names before it exists.
THEOREM MigrationsTypeCorrect == MigrationsSpec => []MigrationsTypeOK
<1>1. MigrationsInv => MigrationsTypeOK
  BY DEF MigrationsInv
<1>. QED BY MigrationsInvariant, <1>1, PTL

\* runMigrations: a file's statements took effect exactly when its name is
\* recorded, whatever crashes and races there were.
THEOREM RecordedExactly == MigrationsSpec => []RecordedIsApplied
<1>1. MigrationsInv => RecordedIsApplied
  BY DEF MigrationsInv
<1>. QED BY MigrationsInvariant, <1>1, PTL

\* runMigrations: a runner that returns leaves the whole schema behind.
THEOREM DoneComplete == MigrationsSpec => []DoneIsComplete
<1>1. MigrationsInv => DoneIsComplete
  BY DEF MigrationsInv
<1>. QED BY MigrationsInvariant, <1>1, PTL

----------------------------------------------------------------------------
(* The refinement *)

\* How far the schema is, when what is recorded is a prefix.
LEMMA AppliedOfPrefix ==
  ASSUME NEW n \in Nat, recorded = 1..n
  PROVE  Applied = n
<1>1. Cardinality(1..n) = n
  BY FS_Interval
<1>. QED BY <1>1 DEF Applied

\* The same of the next state.
LEMMA AppliedOfNextPrefix ==
  ASSUME NEW n \in Nat, recorded' = 1..n
  PROVE  Applied' = n
<1>1. Cardinality(1..n) = n
  BY FS_Interval
<1>. QED BY <1>1 DEF Applied

\* A step that records nothing leaves the schema where it was.
LEMMA OthersRecordNothing ==
  ASSUME [MigrationsNext]_migrationsVars, ~ \E r \in Runners : RecordAndCommit(r)
  PROVE  recorded' = recorded
BY DEF MigrationsNext, Step, StartRunner, CreateTable, ReadApplied, Choose, RunFile, Fail, Crash, migrationsVars

\* runMigrations, run by any number of processes that race, crash and are
\* started again, applies each file once and in order.
THEOREM FilesRefine == MigrationsSpec => AppliedOnceInOrder
<1>. USE MigrationsAssumption
<1>1. MigrationsInit => Pass!Init
  <2>. SUFFICES ASSUME MigrationsInit PROVE Applied = 0
    BY DEF Pass!Init
  <2>1. recorded = 1..0
    BY DEF MigrationsInit
  <2>. QED BY <2>1, AppliedOfPrefix
<1>2. MigrationsInv /\ [MigrationsNext]_migrationsVars => [Pass!Apply]_Applied
  <2>. SUFFICES ASSUME MigrationsInv, [MigrationsNext]_migrationsVars PROVE Pass!Apply \/ Applied' = Applied
    OBVIOUS
  <2>1. ASSUME NEW r \in Runners, RecordAndCommit(r)
        PROVE  Pass!Apply
    <3>. DEFINE f == runner[r].file
    <3>1. f \in 1..Files /\ recorded = 1..(f - 1)
      BY <2>1, CommitsTheNext DEF RecordAndCommit
    <3>2. recorded' = 1..f
      BY <2>1, <3>1 DEF RecordAndCommit
    <3>3. Applied = f - 1 /\ Applied' = f
      BY <3>1, <3>2, AppliedOfPrefix, AppliedOfNextPrefix
    <3>. QED BY <3>1, <3>3 DEF Pass!Apply
  <2>2. CASE ~ \E r \in Runners : RecordAndCommit(r)
    <3>1. PICK n \in 0..Files : recorded = 1..n
      BY DEF MigrationsInv, Prefix
    <3>. QED BY <2>2, <3>1, OthersRecordNothing, AppliedOfPrefix, AppliedOfNextPrefix
  <2>. QED BY <2>1, <2>2
<1>. QED BY <1>1, <1>2, MigrationsInvariant, PTL DEF MigrationsSpec, AppliedOnceInOrder, Pass!Spec

\* runMigrations: all three, for any number of files and runners.
THEOREM Once == MigrationsSpec => MigratesOnce
BY RecordedExactly, DoneComplete, FilesRefine, PTL DEF MigratesOnce

----------------------------------------------------------------------------
(***************************************************************************)
(* The processes side by side.                                             *)
(*                                                                         *)
(* Each step is one of the pool's, of the runners' or of the chain's, or   *)
(* leaves them alone.  Where only the worker moves, the server around it   *)
(* is as it began, and its invariant is not about that.                    *)
(***************************************************************************)

Untouched ==
  /\ listen = "pending" /\ step = [s \in Signals |-> "none"]
  /\ requests = 0 /\ app = "open" /\ database = "open" /\ served = {}
  /\ exit = "none" /\ early = FALSE

ServerPart == IF part = "worker" THEN Untouched ELSE ServerInv

LEMMA ProcessesInit == Init => ChainInit /\ MigrationsInit /\ PoolInit /\ ServerPart
BY ServerInitInv DEF Init, ServerInit, ServerPart, Untouched

LEMMA ServerPartMoves == ServerPart /\ [Next]_vars => ServerPart' /\ [ChainNext]_chainVars
<1>. SUFFICES ASSUME ServerPart, [Next]_vars PROVE ServerPart' /\ [ChainNext]_chainVars
  OBVIOUS
<1>1. part' = part
  BY DEF Next, vars
<1>2. CASE part = "worker"
  <2>1. UNCHANGED server /\ [ChainNext]_chainVars
    BY <1>2 DEF Next, vars, serverVars
  <2>. QED BY <1>1, <1>2, <2>1 DEF ServerPart, Untouched, server
<1>3. CASE part # "worker"
  <2>1. ServerInv /\ [ServerNext]_serverVars
    BY <1>3 DEF ServerPart, Next, vars
  <2>. QED BY <1>1, <1>3, <2>1, ServerNextInv, ServerMovesChain DEF ServerPart
<1>. QED BY <1>2, <1>3

LEMMA OthersMove ==
  [Next]_vars => [MigrationsNext]_migrationsVars /\ [PoolNext]_poolVars
BY DEF Next, vars

LEMMA ProcessesAreTheirParts ==
  Spec => ChainSpec /\ MigrationsSpec /\ PoolSpec /\ []ServerPart
BY ProcessesInit, ServerPartMoves, OthersMove, PTL DEF Spec, ChainSpec, MigrationsSpec, PoolSpec

\* Type correctness of the processes.
THEOREM ProcessesTypeCorrect == Spec => []TypeOK
<1>1. ServerPart /\ ChainTypeOK => ServerTypeOK
  <2>. SUFFICES ASSUME Untouched, ChainTypeOK PROVE ServerTypeOK
    BY DEF ServerPart, ServerInv
  <2>1. step \in [Signals -> Steps]
    BY DEF Untouched, Steps
  <2>2. requests \in 0..MaxRequests
    BY ShutdownAssumption DEF Untouched
  <2>. QED BY <2>1, <2>2 DEF Untouched, ServerTypeOK
<1>2. ServerTypeOK /\ MigrationsTypeOK /\ PoolTypeOK => TypeOK
  BY DEF TypeOK
<1>. QED BY <1>1, <1>2, ProcessesAreTheirParts, ChainTypeCorrect, MigrationsTypeCorrect,
            PoolTypeCorrect, PTL

\* The processes: a shutdown closes in order, calls are independent, stops are
\* clean, and each file is migrated once.
THEOREM ProcessesAreSound ==
  Spec => [](ClosesInOrder /\ CallsAreIndependent) /\ StopsAreClean /\ MigratesOnce
<1>1. ServerPart => ClosesInOrder
  <2>. SUFFICES ASSUME Untouched PROVE ClosesInOrder
    BY OrderedClose DEF ServerPart
  <2>. QED BY DEF Untouched, ClosesInOrder, NothingCutOff, WorkerClosedFirst
<1>. QED BY <1>1, ProcessesAreTheirParts, Independence, CleanStops, Once, PTL
=============================================================================
