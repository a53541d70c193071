--------------------------- MODULE ConnectionPool ---------------------------
(***************************************************************************)
(* withTransaction over the pool of createPool: connections are opened up  *)
(* to a maximum, lent to one call at a time in the order of asking, and    *)
(* taken back when the call ends.  A statement can be refused, which       *)
(* leaves the session in its transaction, or the connection can be lost.   *)
(* The pool itself is pg-pool, an external.                                *)
(***************************************************************************)
EXTENDS Integers, FiniteSets, Sequences

CONSTANTS
  Borrowers,
  Connections,  \* the places of the pool
  NoConnection, \* no connection
  TimesOut      \* may a call give up waiting for a connection?

ASSUME ConnectionPoolAssumption ==
  /\ Connections # {} /\ IsFiniteSet(Connections) /\ NoConnection \notin Connections
  /\ TimesOut \in BOOLEAN

VARIABLES
  pool,    \* [Connections -> {"absent", "idle", "out"}]
  backend, \* [Connections -> Sessions], what the server makes of each
  queue,   \* the calls waiting in connect, in their order
  call     \* [Callers -> [at, conn, first, broken, thrown]]

poolVars == <<pool, backend, queue, call>>

BackendStates == {"none", "clean", "transaction", "lost"}

\* first: the first failure of the call; broken: what release will be given;
\* thrown: what the caller is told.
Resting(outcome) ==
  [at |-> "resting", conn |-> NoConnection, first |-> "none", broken |-> FALSE, thrown |-> outcome]

PoolInit ==
  /\ pool = [c \in Connections |-> "absent"]
  /\ backend = [c \in Connections |-> "none"]
  /\ queue = <<>>
  /\ call = [k \in Borrowers |-> Resting("none")]

CallGoes(k, stage) == call' = [call EXCEPT ![k].at = stage]

\* The first failure of a call, and where it goes on after it.
FailsWith(k, failure, stage) ==
  call' = [call EXCEPT ![k] = [@ EXCEPT !.at = stage, !.first = failure]]

----------------------------------------------------------------------------
(* connect *)

Connect(k) ==
  /\ call[k].at = "resting"
  /\ call' = [call EXCEPT ![k] = [Resting("none") EXCEPT !.at = "connecting"]]
  /\ queue' = Append(queue, k)
  /\ UNCHANGED <<pool, backend>>

\* External: an idle connection, or a new one while there is room.
Lend(k, c) ==
  /\ queue # <<>> /\ Head(queue) = k
  /\ \/ pool[c] = "idle" /\ UNCHANGED backend
     \/ pool[c] = "absent" /\ \A d \in Connections : pool[d] # "idle"
        /\ backend' = [backend EXCEPT ![c] = "clean"]
  /\ pool' = [pool EXCEPT ![c] = "out"]
  /\ queue' = Tail(queue)
  /\ call' = [call EXCEPT ![k].at = "begin", ![k].conn = c]

\* connectionTimeoutMillis: connect rejects, outside the try.
ConnectTimesOut(k) ==
  /\ TimesOut /\ call[k].at = "connecting"
  /\ \E i \in DOMAIN queue :
       queue[i] = k /\ queue' = SubSeq(queue, 1, i - 1) \o SubSeq(queue, i + 1, Len(queue))
  /\ call' = [call EXCEPT ![k] = [Resting("timeout") EXCEPT !.first = "timeout"]]
  /\ UNCHANGED <<pool, backend>>

----------------------------------------------------------------------------
(* the statements *)

Alive(k) == backend[call[k].conn] # "lost"

Becomes(k, state) == backend' = [backend EXCEPT ![call[k].conn] = state]

Begin(k) ==
  /\ call[k].at = "begin" /\ Alive(k)
  /\ CallGoes(k, "work") /\ Becomes(k, "transaction")
  /\ UNCHANGED <<pool, queue>>

Work(k) ==
  /\ call[k].at = "work" /\ Alive(k)
  /\ CallGoes(k, "commit")
  /\ UNCHANGED <<pool, backend, queue>>

\* Work throws, of itself or because a statement was refused.
WorkFails(k) ==
  /\ call[k].at = "work" /\ Alive(k)
  /\ FailsWith(k, "work", "rollback")
  /\ UNCHANGED <<pool, backend, queue>>

Commit(k) ==
  /\ call[k].at = "commit" /\ Alive(k)
  /\ CallGoes(k, "release") /\ Becomes(k, "clean")
  /\ UNCHANGED <<pool, queue>>

\* COMMIT refused (a serialization failure, say) has ended the transaction.
CommitRefused(k) ==
  /\ call[k].at = "commit" /\ Alive(k)
  /\ FailsWith(k, "commit", "rollback") /\ Becomes(k, "clean")
  /\ UNCHANGED <<pool, queue>>

\* The connection is lost under a call, which its next statement notices.
ConnectionLost(k) ==
  /\ call[k].at \in {"begin", "work", "commit", "rollback", "release"} /\ Alive(k)
  /\ Becomes(k, "lost")
  /\ UNCHANGED <<pool, queue, call>>

StatementFails(k) ==
  /\ call[k].at \in {"begin", "work", "commit"} /\ ~Alive(k)
  /\ FailsWith(k, "lost", "rollback")
  /\ UNCHANGED <<pool, backend, queue>>

Rollback(k) ==
  /\ call[k].at = "rollback" /\ Alive(k)
  /\ CallGoes(k, "release") /\ Becomes(k, "clean")
  /\ UNCHANGED <<pool, queue>>

\* Mutant: the failure of ROLLBACK swallowed.
RollbackFailsSilently(k) ==
  /\ call[k].at = "rollback"
  /\ CallGoes(k, "release")
  /\ UNCHANGED <<pool, backend, queue>>

\* ROLLBACK fails, with the connection or on a living one, whose
\* transaction then stays open.
RollbackFails(k) ==
  /\ call[k].at = "rollback"
  /\ call' = [call EXCEPT ![k].at = "release", ![k].broken = TRUE]
  /\ UNCHANGED <<pool, backend, queue>>

----------------------------------------------------------------------------
(* release *)

\* External: destroyed if released with an error or no longer usable.
TakeBack(k, c) ==
  IF call[k].broken \/ backend[c] = "lost"
  THEN pool' = [pool EXCEPT ![c] = "absent"] /\ backend' = [backend EXCEPT ![c] = "none"]
  ELSE pool' = [pool EXCEPT ![c] = "idle"] /\ UNCHANGED backend

\* What a call that is ending tells its caller: the original failure.
Outcome(k) ==
  CASE call[k].thrown # "none" -> call[k].thrown
    [] call[k].first # "none"  -> call[k].first
    [] OTHER                   -> "ok"

Release(k) ==
  /\ call[k].at = "release"
  /\ TakeBack(k, call[k].conn)
  /\ call' = [call EXCEPT ![k] = [Resting(Outcome(k)) EXCEPT !.first = call[k].first]]
  /\ UNCHANGED queue

----------------------------------------------------------------------------
(* idle connections *)

\* The server drops an idle connection, or it has been idle for long: the
\* pool discards it, and its listener keeps the error from ending the process.
IdleError(c) ==
  /\ pool[c] = "idle"
  /\ pool' = [pool EXCEPT ![c] = "absent"]
  /\ backend' = [backend EXCEPT ![c] = "none"]
  /\ UNCHANGED <<queue, call>>

Proceeds(k) ==
  \/ \E c \in Connections : Lend(k, c)
  \/ Begin(k) \/ Work(k) \/ WorkFails(k) \/ Commit(k) \/ CommitRefused(k)
  \/ StatementFails(k) \/ Rollback(k) \/ RollbackFails(k) \/ Release(k)

PoolNext ==
  \/ \E k \in Borrowers :
       Connect(k) \/ ConnectTimesOut(k) \/ Proceeds(k) \/ ConnectionLost(k)
  \/ \E c \in Connections : IdleError(c)

PoolSpec == PoolInit /\ [][PoolNext]_poolVars

\* A statement returns or fails, and the pool serves its queue; nobody is
\* obliged to call, and no connection to fail.
PoolFairSpec == PoolSpec /\ \A k \in Borrowers : WF_poolVars(Proceeds(k))

----------------------------------------------------------------------------
(* Properties *)

\* A connection is out for exactly the one call that holds it, and who waits
\* waits once.
PoolTypeOK ==
  /\ pool \in [Connections -> {"absent", "idle", "out"}]
  /\ backend \in [Connections -> BackendStates]
  /\ \A c \in Connections :
       Cardinality({k \in Borrowers : call[k].conn = c}) = IF pool[c] = "out" THEN 1 ELSE 0
  /\ \A k \in Borrowers :
       Cardinality({i \in DOMAIN queue : queue[i] = k})
         = IF call[k].at = "connecting" THEN 1 ELSE 0

\* A call begins on a session outside any transaction: none is handed over
\* in the middle of somebody else's.
NoInheritedTransaction ==
  \A c \in Connections :
    /\ pool[c] = "idle" => backend[c] # "transaction"
    /\ \A k \in Borrowers :
         call[k].at = "begin" /\ call[k].conn = c => backend[c] # "transaction"

\* A call that failed tells its first failure, also when its ROLLBACK failed
\* after it, and a call that is told of success had none.
FirstFailureWins ==
  \A k \in Borrowers :
    call[k].at = "resting" /\ call[k].thrown # "none" =>
      call[k].thrown = IF call[k].first = "none" THEN "ok" ELSE call[k].first

\* Nobody waits for ever, even without the time-out: a failed call ends and
\* gives its place back, whatever became of its connection.
EveryCallEnds ==
  \A k \in Borrowers : call[k].at # "resting" ~> call[k].at = "resting"

\* withTransaction: whatever fails, a call leaves no transaction to the next
\* and an honest answer to its own caller.
CallsAreIndependent == NoInheritedTransaction /\ FirstFailureWins
=============================================================================
