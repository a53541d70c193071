----------------------------- MODULE Processes -----------------------------
(***************************************************************************)
(* What runs beside the database: the worker and the server process around *)
(* it, the migration runners, and the connection pool.  Worker and server  *)
(* share the poll chain; the others share no variable with them or each    *)
(* other, so no interleaving shows what one alone does not: part says      *)
(* which one moves, the others stay where they begin, and fairness is      *)
(* asked of the one that moves.                                            *)
(***************************************************************************)
EXTENDS Shutdown, Migrations, ConnectionPool

VARIABLE part

vars == <<part, serverVars, migrationsVars, poolVars>>

Parts == {"worker", "server", "migrations", "pool"}

Init == part \in Parts /\ ServerInit /\ MigrationsInit /\ PoolInit

Next ==
  /\ UNCHANGED part
  /\ \/ part = "worker" /\ ChainNext /\ UNCHANGED server
     \/ part = "server" /\ ServerNext
     \/ part \notin {"worker", "server"} /\ UNCHANGED serverVars
  /\ \/ part = "migrations" /\ MigrationsNext
     \/ part # "migrations" /\ UNCHANGED migrationsVars
  /\ \/ part = "pool" /\ PoolNext
     \/ part # "pool" /\ UNCHANGED poolVars

Spec == Init /\ [][Next]_vars

\* ChainFairness, ServerFairness, MigrationsFairSpec and PoolFairSpec, each of
\* its part.
Fairness ==
  /\ WF_chainVars(part = "worker" /\ \E p \in Polls : Fire(p))
  /\ WF_chainVars(part = "worker" /\ \E p \in Polls : PollStep(p))
  /\ WF_serverVars(part = "server" /\ exit = "none" /\ Turn /\ WorkerStep)
  /\ WF_serverVars(part = "server" /\ exit = "none" /\ Turn /\ AnswerRequest)
  /\ WF_serverVars(part = "server" /\ exit = "none" /\ Turn /\ (Closed \/ PoolEnded \/ Exit))
  /\ \A s \in Signals : WF_serverVars(part = "server" /\ exit = "none" /\ ShutdownStep(s))
  /\ \A r \in Runners : WF_migrationsVars(part = "migrations" /\ Step(r))
  /\ \A k \in Borrowers : WF_poolVars(part = "pool" /\ Proceeds(k))

----------------------------------------------------------------------------
\* Every variable of the processes has its type.
TypeOK == ServerTypeOK /\ MigrationsTypeOK /\ PoolTypeOK

\* No process hangs: a running worker polls again, stop() returns, a signal
\* ends the server, a migration runner returns or throws, and a call gets a
\* connection and gives its place back.
ProcessesGoOn ==
  /\ part = "worker" => KeepsPolling
  /\ StopReturns /\ SignalEnds /\ RunnersEnd /\ EveryCallEnds
=============================================================================
