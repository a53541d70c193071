------------------------------ MODULE Shutdown ------------------------------
(***************************************************************************)
(* server.ts from listen to exit: the poll chain of its worker, the        *)
(* requests Fastify is serving, the database pool both draw on, and one    *)
(* shutdown per signal, which stops the worker, closes the app and ends    *)
(* the pool.  SIGINT and SIGTERM have a handler each, so both may run.     *)
(***************************************************************************)
EXTENDS PollChain

CONSTANT MaxRequests  \* bound on the requests being served

ASSUME ShutdownAssumption == MaxRequests \in Nat

Signals == Callers

VARIABLES
  listen,   \* "pending", "up" or "failed"
  step,     \* [Signals -> Steps], where each shutdown is
  requests, \* requests being served
  app,      \* "open", "closing", "closed"
  database, \* the pool: "open", "ending", "ended"
  served,   \* polls whose statement was sent while the pool was open
  exit,     \* "none", "ok", or "error"
  early     \* history: a signal arrived while app.listen was pending

server     == <<listen, step, requests, app, database, served, exit, early>>
serverVars == <<chainVars, server>>

Steps == {"none", "stopping", "closing", "ending", "done"}

ServerInit ==
  /\ ChainInit
  /\ listen = "pending"
  /\ step = [s \in Signals |-> "none"]
  /\ requests = 0 /\ app = "open" /\ database = "open" /\ served = {}
  /\ exit = "none" /\ early = FALSE

\* External: app.listen may resolve while the app is already closing.
ListenUp ==
  /\ listen = "pending" /\ app # "closed"
  /\ listen' = "up"
  /\ Start
  /\ UNCHANGED <<step, requests, app, database, served, exit, early>>

\* pool.end(): ends once no client is out; a second call throws, which
\* nothing catches, and that ends the process.
EndPool ==
  IF database = "open"
  THEN database' = "ending" /\ UNCHANGED exit
  ELSE exit' = "error" /\ UNCHANGED database

ListenFails ==
  /\ listen = "pending"
  /\ listen' = "failed"
  /\ EndPool
  /\ UNCHANGED <<chainVars, step, requests, app, served, early>>

\* External: Fastify answers 503 once closing.
Request ==
  /\ listen = "up" /\ app = "open" /\ requests < MaxRequests
  /\ requests' = requests + 1
  /\ UNCHANGED <<chainVars, listen, step, app, database, served, exit, early>>

AnswerRequest ==
  /\ requests > 0
  /\ requests' = requests - 1
  /\ UNCHANGED <<chainVars, listen, step, app, database, served, exit, early>>

\* Once for each signal: process.once takes its handler away, and a repeated
\* signal kills the process at once, which is a behaviour that ends there.
Signal(s) ==
  /\ step[s] = "none"
  /\ step' = [step EXCEPT ![s] = "stopping"]
  /\ early' = (early \/ listen = "pending")
  /\ Stop(s)
  /\ UNCHANGED <<listen, requests, app, database, served, exit>>

Close(s) ==
  /\ step[s] = "stopping" /\ Resume(s)
  /\ step' = [step EXCEPT ![s] = "closing"]
  /\ app' = IF app = "open" THEN "closing" ELSE app
  /\ UNCHANGED <<listen, requests, database, served, exit, early>>

\* Mutant: shutdown that does not await app.close().
EndAtOnce(s) ==
  /\ step[s] = "closing"
  /\ step' = [step EXCEPT ![s] = "ending"]
  /\ EndPool
  /\ UNCHANGED <<chainVars, listen, requests, app, served, early>>

\* External: app.close() returns when every request being served is answered.
Closed ==
  /\ app = "closing" /\ requests = 0
  /\ app' = "closed"
  /\ UNCHANGED <<chainVars, listen, step, requests, database, served, exit, early>>

End(s) ==
  /\ step[s] = "closing" /\ app = "closed"
  /\ step' = [step EXCEPT ![s] = "ending"]
  /\ EndPool
  /\ UNCHANGED <<chainVars, listen, requests, app, served, early>>

\* External: pg-pool ends when every client is back.
PoolEnded ==
  /\ database = "ending" /\ served = {} /\ requests = 0
  /\ database' = "ended"
  /\ UNCHANGED <<chainVars, listen, step, requests, app, served, exit, early>>

Done(s) ==
  /\ step[s] = "ending" /\ database = "ended"
  /\ step' = [step EXCEPT ![s] = "done"]
  /\ UNCHANGED <<chainVars, listen, requests, app, database, served, exit, early>>

\* Nothing is left for the event loop.
Exit ==
  /\ database = "ended" /\ ~timer /\ inFlight = NoPoll
  /\ \A s \in Signals : step[s] \in {"none", "done"}
  /\ exit' = IF listen = "failed" THEN "error" ELSE "ok"
  /\ UNCHANGED <<chainVars, listen, step, requests, app, database, served, early>>

\* The worker: its next statement is served while the pool is open.
NowServed(p) == IF database = "open" THEN served \cup {p} ELSE served \ {p}

ServerFire(p) == Fire(p) /\ served' = NowServed(p)

\* A statement sent to an ended pool throws; so does markFailed after it.
ServerPollStep(p) ==
  \/ /\ p \in served
     /\ \/ \E n \in 1..MaxBatch : Claimed(p, n)
        \/ EventDone(p)
     /\ served' = IF phase'[p] = "idle" THEN served \ {p} ELSE NowServed(p)
  \/ /\ ClaimedNothing(p) \/ BatchAbandoned(p)
     /\ served' = served \ {p}

WorkerStep ==
  /\ \E p \in Polls : ServerFire(p) \/ ServerPollStep(p)
  /\ UNCHANGED <<listen, step, requests, app, database, exit, early>>

ShutdownStep(s) == Close(s) \/ End(s) \/ Done(s)

\* A resumed await runs before the event loop turns to a timer or to I/O.
Turn == \A s \in Signals : stops[s] # Resolved

ServerNext ==
  /\ exit = "none"
  /\ \/ /\ Turn
        /\ \/ ListenUp \/ ListenFails \/ Request \/ AnswerRequest
           \/ Closed \/ PoolEnded \/ Exit \/ WorkerStep
           \/ \E s \in Signals : Signal(s)
     \/ \E s \in Signals : ShutdownStep(s)

ServerSpec == ServerInit /\ [][ServerNext]_serverVars

\* Timers fire, statements and requests are answered, and shutdown goes on
\* behind each await.
ServerFairness ==
  /\ WF_serverVars(exit = "none" /\ Turn /\ WorkerStep)
  /\ WF_serverVars(exit = "none" /\ Turn /\ AnswerRequest)
  /\ WF_serverVars(exit = "none" /\ Turn /\ (Closed \/ PoolEnded \/ Exit))
  /\ \A s \in Signals : WF_serverVars(exit = "none" /\ ShutdownStep(s))

FairServerSpec == ServerSpec /\ ServerFairness

----------------------------------------------------------------------------
(* Properties *)

ServerTypeOK ==
  /\ ChainTypeOK
  /\ listen \in {"pending", "up", "failed"}
  /\ step \in [Signals -> Steps]
  /\ requests \in 0..MaxRequests
  /\ app \in {"open", "closing", "closed"}
  /\ database \in {"open", "ending", "ended"}
  /\ served \subseteq Polls
  /\ exit \in {"none", "ok", "error"}
  /\ early \in BOOLEAN
  /\ app = "closed" => requests = 0

\* The handlers are registered before listen is awaited: a signal in between
\* stops a worker that is started afterwards, and what follows holds only
\* when that did not happen and the worker was started.
Orderly == ~(early /\ listen = "up")

\* stop(): "so a caller that closes the database pool afterwards never pulls
\* it out from under a claimed batch", whichever of two shutdowns closes it;
\* nor from under a request; nor does the process end over one, also when the
\* second shutdown's pool.end() throws.
NothingCutOff ==
  Orderly /\ (database # "open" \/ exit # "none") =>
    requests = 0 /\ \A p \in Polls : phase[p] = "idle"

\* ARCHITECTURE.md: "Shutdown closes the outbox worker, then the Fastify
\* server": once the app is closing, the worker is stopped for good.
WorkerClosedFirst == Orderly /\ app # "open" => ~running /\ ~timer

\* A failed start and a signal, or both, end the process.
SignalEnds ==
  (listen = "failed" \/ \E s \in Signals : step[s] # "none") ~> exit # "none" \/ ~Orderly

\* shutdown: worker, server, pool, in this order, and nothing is cut off.
ClosesInOrder == NothingCutOff /\ WorkerClosedFirst
=============================================================================
